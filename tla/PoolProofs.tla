----------------------------- MODULE PoolProofs -----------------------------
(***************************************************************************)
(* Proofs about the pools that back attention.                             *)
(*                                                                         *)
(* QSARing: for every number of slots, group ratio, ring size, window      *)
(* width and page size the assumptions admit, with padding rows on request *)
(* slot 0 (HostLayout = FALSE).                                            *)
(*                                                                         *)
(* KVPools: for every set of requests, pool size, page size, tree width,   *)
(* depth and kernel chunk, and for every class of pool that moves and      *)
(* copies all its buffers where the server needs it (Complete).            *)
(***************************************************************************)
EXTENDS QSARing, KVPools, FiniteSetTheorems, SequenceTheorems, WellFoundedInduction, TLAPS

-----------------------------------------------------------------------------
(* Arithmetic of groups and ring rows.                                     *)

\* Positions less than a ring apart occupy different rows.
LEMMA RowsApart ==
  ASSUME NEW p \in Nat, NEW q \in Nat, p < q, q - p < RingSize
  PROVE  RingRow(p) # RingRow(q)
<1> DEFINE a == p \div RingSize
           b == q \div RingSize
<1> RingSize \in Nat \ {0} BY SizeAssumption
<1>1. SUFFICES ASSUME RingRow(p) = RingRow(q) PROVE FALSE OBVIOUS
<1>2. /\ a \in Nat /\ b \in Nat
      /\ p = RingSize * a + (p % RingSize)
      /\ q = RingSize * b + (q % RingSize)
  OBVIOUS
<1>3. q - p = RingSize * (b - a) BY <1>1, <1>2 DEF RingRow
<1>4. CASE b - a <= 0
  <2>1. RingSize * (b - a) <= 0 BY <1>2, <1>4
  <2> QED BY <1>3, <2>1
<1>5. CASE b - a >= 1
  <2>1. RingSize * (b - a) >= RingSize BY <1>2, <1>5
  <2> QED BY <1>3, <2>1
<1> QED BY <1>2, <1>4, <1>5

\* A group that ends after n starts at n's group or later.
LEMMA GroupStartBound ==
  ASSUME NEW n \in Nat
  PROVE  /\ GroupStart(n) \in Nat
         /\ GroupStart(n) <= n
         /\ n < GroupStart(n) + Ratio
         /\ \A g \in Nat : n < At(g, Ratio) => GroupStart(n) <= At(g, 0)
<1> DEFINE d == n \div Ratio
<1> Ratio \in Nat /\ Ratio >= 2 BY RatioAssumption
<1>1. /\ d \in Nat
      /\ n = Ratio * d + (n % Ratio)
      /\ n % Ratio \in 0..(Ratio - 1)
  OBVIOUS
<1>2. d * Ratio \in Nat /\ d * Ratio = Ratio * d BY <1>1
<1>3. ASSUME NEW g \in Nat, n < g * Ratio + Ratio
      PROVE  d * Ratio <= g * Ratio
  <2>1. CASE d <= g BY <2>1, <1>1
  <2>2. CASE g + 1 <= d
    <3>1. (g + 1) * Ratio <= d * Ratio BY <2>2, <1>1
    <3>2. (g + 1) * Ratio = g * Ratio + Ratio BY <1>1
    <3> QED BY <3>1, <3>2, <1>1, <1>2, <1>3
  <2> QED BY <2>1, <2>2, <1>1
<1> QED BY <1>1, <1>2, <1>3 DEF GroupStart, At

\* Members of a group lie between its first position and its end, and inside
\* the context.
LEMMA MemberPosition ==
  ASSUME NEW g \in Groups, NEW k \in Members
  PROVE  /\ At(g, k) \in Positions
         /\ At(g, 0) <= At(g, k) /\ At(g, k) < At(g, Ratio)
         /\ At(g, 0) \in Nat
         /\ At(g, Ratio) \in Nat
         /\ At(g, Ratio) <= MaxLen
<1> DEFINE d == MaxLen \div Ratio
<1> /\ Ratio \in Nat /\ Ratio >= 2
    /\ MaxLen \in Nat
  BY RatioAssumption, SizeAssumption
<1>1. /\ d \in Nat
      /\ MaxLen = Ratio * d + (MaxLen % Ratio)
      /\ MaxLen % Ratio \in 0..(Ratio - 1)
  OBVIOUS
<1>2. g \in Nat /\ g + 1 <= d BY <1>1 DEF Groups
<1>3. (g + 1) * Ratio <= d * Ratio BY <1>1, <1>2
<1>4. (g + 1) * Ratio = g * Ratio + Ratio BY <1>2
<1>5. d * Ratio = Ratio * d /\ d * Ratio \in Nat /\ g * Ratio \in Nat
  BY <1>1, <1>2
<1>6. k \in Nat /\ k < Ratio BY DEF Members
<1> QED BY <1>1, <1>3, <1>4, <1>5, <1>6 DEF At, Positions

\* Storing positions that span at most one ring puts each key at its row and
\* leaves the rows of the other positions of that span alone.
LEMMA StoredRows ==
  ASSUME NEW r \in Slots, NEW s \in Nat,
         NEW ps \in SUBSET (s..(s + RingSize - 1)),
         NEW p \in s..(s + RingSize - 1)
  PROVE  Stored(r, ps)[RingRow(p)] =
           IF p \in ps THEN NewKey(r, p) ELSE ring[r][RingRow(p)]
<1> RingSize \in Nat \ {0} BY SizeAssumption
<1>1. RingRow(p) \in RingRows BY DEF RingRow, RingRows
<1>2. \A q \in ps : RingRow(q) = RingRow(p) => q = p
  <2> SUFFICES ASSUME NEW q \in ps, q # p PROVE RingRow(q) # RingRow(p)
    OBVIOUS
  <2>1. q \in Nat /\ p \in Nat OBVIOUS
  <2>2. CASE q < p
    <3>1. p - q < RingSize BY <2>1, <2>2
    <3> QED BY <2>1, <2>2, <3>1, RowsApart
  <2>3. CASE p < q
    <3>1. q - p < RingSize BY <2>1, <2>3
    <3> QED BY <2>1, <2>3, <3>1, RowsApart
  <2> QED BY <2>1, <2>2, <2>3
<1>3. CASE p \in ps
  <2>1. (CHOOSE q \in ps : RingRow(q) = RingRow(p)) = p BY <1>2, <1>3
  <2> QED BY <1>1, <1>3, <2>1 DEF Stored
<1>4. CASE p \notin ps BY <1>1, <1>2, <1>4 DEF Stored
<1> QED BY <1>3, <1>4

\* Every row of a ring after a store holds a key.
LEMMA StoredType ==
  ASSUME TypeOK, NEW r \in Slots, NEW ps \in SUBSET Nat
  PROVE  Stored(r, ps) \in [RingRows -> Key]
<1>1. \A p \in Nat : NewKey(r, p) \in Key
  BY DEF TypeOK, NewKey, Key, Slots
<1>2. ASSUME NEW i \in RingRows, NEW p \in ps, RingRow(p) = i
      PROVE  (CHOOSE q \in ps : RingRow(q) = i) \in Nat
  BY <1>2
<1>3. ring[r] \in [RingRows -> Key] BY DEF TypeOK
<1> QED BY <1>1, <1>2, <1>3 DEF Stored

\* A history stays a history when it is extended by new keys.
LEMMA ExtendedType ==
  ASSUME TypeOK, NEW r \in Slots, NEW base \in [Positions -> Key],
         NEW from \in Nat, NEW to \in Nat
  PROVE  Extended(r, base, from, to) \in [Positions -> Key]
<1>1. \A p \in Positions : NewKey(r, p) \in Key
  <2>1. \A p \in Nat : NewKey(r, p) \in Key BY DEF TypeOK, NewKey, Key, Slots
  <2>2. Positions \subseteq Nat BY SizeAssumption DEF Positions
  <2> QED BY <2>1, <2>2
<1>2. NoKey \in Key BY DEF NoKey, Key
<1>3. \A p \in Positions :
        (IF from <= p /\ p < to THEN NewKey(r, p)
         ELSE IF p < from THEN base[p] ELSE NoKey) \in Key
  BY <1>1, <1>2
<1> QED BY <1>3 DEF Extended

\* Without host layouts padding rows never touch a request's ring.
LEMMA PaddingInert ==
  ASSUME ~HostLayout, NEW B \in SUBSET Slots, NEW w, NEW r \in Slots,
         NEW ps, NEW pad
  PROVE  PagedRing(r, ps, pad, PadSlot(B, w)) = Stored(r, ps)
BY DEF PagedRing, PadSlot, Slots

\* Group starts grow with the length.
LEMMA GroupStartMonotone ==
  ASSUME NEW n \in Nat, NEW m \in Nat, n <= m
  PROVE  GroupStart(n) <= GroupStart(m)
<1> DEFINE d == m \div Ratio
<1> Ratio \in Nat /\ Ratio >= 2 BY RatioAssumption
<1>1. /\ d \in Nat
      /\ m = Ratio * d + (m % Ratio)
      /\ m % Ratio \in 0..(Ratio - 1)
  OBVIOUS
<1>2. d * Ratio = Ratio * d /\ d * Ratio \in Nat BY <1>1
<1>3. n < At(d, Ratio) BY <1>1, <1>2 DEF At
<1>4. GroupStart(n) <= At(d, 0) BY <1>1, <1>3, GroupStartBound
<1> QED BY <1>2, <1>4 DEF GroupStart, At

\* A group-aligned length is its own group start, and a group boundary stays
\* one when a length grows from it.
LEMMA AlignedStart ==
  ASSUME NEW n \in Nat, n % Ratio = 0
  PROVE  GroupStart(n) = n
<1> DEFINE d == n \div Ratio
<1> Ratio \in Nat /\ Ratio >= 2 BY RatioAssumption
<1>1. /\ d \in Nat
      /\ n = Ratio * d + (n % Ratio)
  OBVIOUS
<1>2. d * Ratio = Ratio * d BY <1>1
<1> QED BY <1>1, <1>2 DEF GroupStart

\* Pages are whole groups.
LEMMA PagesAligned ==
  ASSUME NEW n \in Nat, n % PageSize = 0
  PROVE  n % Ratio = 0
<1> DEFINE a == n \div PageSize
           b == PageSize \div Ratio
<1> /\ Ratio \in Nat /\ Ratio >= 2
    /\ PageSize \in Nat \ {0} /\ PageSize % Ratio = 0
  BY RatioAssumption, PageAssumption
<1>1. a \in Nat /\ n = PageSize * a BY n = PageSize * a + (n % PageSize)
<1>2. b \in Nat /\ PageSize = Ratio * b BY PageSize = Ratio * b + (PageSize % Ratio)
<1>3. b * a \in Nat /\ n = Ratio * (b * a) BY <1>1, <1>2
<1> DEFINE c == b * a
<1>4. c \in Nat /\ n = Ratio * c BY <1>3
<1> HIDE DEF c
<1> QED BY <1>4

-----------------------------------------------------------------------------
(* The inductive invariant.                                                *)

\* What holds of one request slot.  Between prefill chunks its length is a
\* whole number of groups; complete groups are pooled from the committed keys
\* and the members of the incomplete one wait in the ring; tokens drafted one
\* row at a time extend that history; rows saw true history.
SlotInv(r) ==
  /\ phase[r] = "prefill" => len[r] % Ratio = 0
  /\ \A g \in Groups : \A k \in Members :
       At(g, Ratio) <= len[r] => comp[r][g][k] = tok[r][At(g, k)]
  /\ phase[r] = "decode" =>
       \A p \in Positions : GroupStart(len[r]) <= p /\ p < len[r]
                              => ring[r][RingRow(p)] = tok[r][p]
  /\ spec[r] > 0 =>
       /\ phase[r] = "decode"
       /\ spec[r] + 2 <= Width
       /\ view[r].len = len[r] + spec[r]
       /\ \A p \in Positions : p < len[r] => view[r].key[p] = tok[r][p]
       /\ \A p \in Positions :
            GroupStart(len[r]) <= p /\ p < len[r] + spec[r]
              => ring[r][RingRow(p)] = view[r].key[p]
  /\ \A g \in Groups : \A k \in Members :
       At(g, Ratio) <= view[r].len => comp[r][g][k] = view[r].key[At(g, k)]

IInv == TypeOK /\ \A r \in Slots : SlotInv(r)

\* A slot the step leaves alone keeps its part of the invariant.
LEMMA SlotUntouched ==
  ASSUME NEW r \in Slots, SlotInv(r),
         phase'[r] = phase[r], len'[r] = len[r], tok'[r] = tok[r],
         spec'[r] = spec[r], ring'[r] = ring[r], comp'[r] = comp[r],
         view'[r] = view[r]
  PROVE  SlotInv(r)'
BY DEF SlotInv

\* The initial state.
LEMMA InitInv == Init => IInv
<1> SUFFICES ASSUME Init PROVE IInv OBVIOUS
<1>1. NoKey \in Key BY DEF NoKey, Key
<1>2. TypeOK
  BY <1>1, SizeAssumption DEF Init, TypeOK, Context
<1>3. ASSUME NEW r \in Slots PROVE SlotInv(r)
  <2>1. \A g \in Groups : \A k \in Members : At(g, k) \in Positions
    BY MemberPosition
  <2>2. \A g \in Groups : \A k \in Members : At(g, Ratio) > 0
    BY MemberPosition, SizeAssumption DEF Positions
  <2> QED BY <2>1, <2>2 DEF Init, SlotInv
<1> QED BY <1>2, <1>3 DEF IInv

-----------------------------------------------------------------------------
(* Paged forwards.                                                         *)

\* The heart of the argument.  A paged forward stores the positions a..b-1 of
\* slot r, whose pending group starts at s; the span s..b-1 fits one ring.  If
\* the ring and the compressed entries agreed with a history up to a, they
\* agree up to b with the history the stored keys extend it to, and no entry
\* that was complete at a changes.
LEMMA PagedForward ==
  ASSUME TypeOK, NEW r \in Slots, NEW n \in Nat, NEW a \in Nat, NEW b \in Nat,
         NEW key \in [Positions -> Key],
         n <= a, a <= b, b <= MaxLen, b <= n + Width,
         \A p \in Positions : GroupStart(n) <= p /\ p < a
                                => ring[r][RingRow(p)] = key[p],
         \A p \in Positions : a <= p /\ p < b => key[p] = NewKey(r, p),
         \A g \in Groups : \A k \in Members :
           At(g, Ratio) <= a => comp[r][g][k] = key[At(g, k)]
  PROVE  LET R == Stored(r, a..(b - 1))
             C == PagedComp(r, R, a, b) IN
         /\ R \in [RingRows -> Key]
         /\ C \in [Groups -> [Members -> Key]]
         /\ \A p \in Positions : GroupStart(n) <= p /\ p < b
                                   => R[RingRow(p)] = key[p]
         /\ \A g \in Groups : \A k \in Members :
              At(g, Ratio) <= b => C[g][k] = key[At(g, k)]
         /\ \A g \in Groups : At(g, Ratio) <= a => C[g] = comp[r][g]
<1> DEFINE s  == GroupStart(n)
           ps == a..(b - 1)
           R  == Stored(r, ps)
           C  == PagedComp(r, R, a, b)
<1>0. /\ Ratio \in Nat /\ Ratio >= 2
      /\ RingSize \in Nat \ {0} /\ MaxLen \in Nat /\ Width \in Nat
      /\ Width + Ratio - 1 <= RingSize
  BY RatioAssumption, SizeAssumption, RingAssumption
<1>1. s \in Nat /\ s <= n /\ n < s + Ratio BY GroupStartBound
<1>2. b <= s + RingSize BY <1>0, <1>1
<1>3. ps \in SUBSET (s..(s + RingSize - 1)) BY <1>0, <1>1, <1>2
<1>4. R \in [RingRows -> Key]
  <2>1. ps \in SUBSET Nat OBVIOUS
  <2> QED BY <2>1, StoredType
<1>5. ASSUME NEW p \in Positions, s <= p, p < b
      PROVE  R[RingRow(p)] = key[p]
  <2>1. p \in s..(s + RingSize - 1) BY <1>0, <1>1, <1>2, <1>5, SMTT(30) DEF Positions
  <2>2. R[RingRow(p)] = IF p \in ps THEN NewKey(r, p) ELSE ring[r][RingRow(p)]
    BY <1>1, <1>3, <2>1, StoredRows
  <2>3. CASE a <= p
    <3>1. p \in ps BY <1>0, <1>5, <2>3 DEF Positions
    <3> QED BY <1>5, <2>2, <2>3, <3>1
  <2>4. CASE ~(a <= p)
    <3>1. p \notin ps BY <1>0, <2>4 DEF Positions
    <3>2. p < a BY <1>0, <2>4 DEF Positions
    <3> QED BY <1>5, <2>2, <3>1, <3>2
  <2> QED BY <2>3, <2>4
<1>6. ASSUME NEW g \in Groups, At(g, Ratio) <= a
      PROVE  C[g] = comp[r][g]
  <2>0. ~ (a < At(g, Ratio))
    <3>1. At(g, Ratio) \in Nat BY <1>0, MemberPosition, 0 \in Members DEF Members
    <3> QED BY <1>6, <3>1
  <2>1. g \notin CompletedIn(a, b) BY <2>0 DEF CompletedIn
  <2> QED BY <2>1 DEF PagedComp
<1>7. ASSUME NEW g \in Groups, NEW k \in Members, At(g, Ratio) <= b
      PROVE  C[g][k] = key[At(g, k)]
  <2>0. /\ At(g, k) \in Positions
        /\ At(g, 0) <= At(g, k) /\ At(g, k) < At(g, Ratio)
        /\ At(g, 0) \in Nat /\ At(g, Ratio) \in Nat
        /\ At(g, k) \in Nat
    BY MemberPosition, SizeAssumption DEF Positions
  <2>1. CASE At(g, Ratio) <= a BY <1>6, <2>1
  <2>2. CASE a < At(g, Ratio)
    <3>1. g \in CompletedIn(a, b) BY <1>7, <2>2 DEF CompletedIn
    <3>2. C[g][k] = R[RingRow(At(g, k))]
      BY <3>1 DEF PagedComp, GroupRow
    <3>3. s <= At(g, 0)
      <4>1. n < At(g, Ratio) BY <2>0, <2>2
      <4>2. g \in Nat BY DEF Groups
      <4> QED BY <4>1, <4>2, GroupStartBound
    <3>4. s <= At(g, k) /\ At(g, k) < b BY <1>1, <1>7, <2>0, <3>3
    <3> QED BY <1>5, <2>0, <3>2, <3>4
  <2> QED BY <2>0, <2>1, <2>2
<1>8. C \in [Groups -> [Members -> Key]]
  <2>1. \A g \in Groups : \A k \in Members : R[GroupRow(g, k)] \in Key
    <3>1. \A g \in Groups : \A k \in Members : GroupRow(g, k) \in RingRows
      <4>1. \A p \in Nat : RingRow(p) \in RingRows BY <1>0 DEF RingRow, RingRows
      <4>2. \A g \in Groups : \A k \in Members : At(g, k) \in Nat
        BY MemberPosition, SizeAssumption DEF Positions
      <4> QED BY <4>1, <4>2 DEF GroupRow
    <3> QED BY <1>4, <3>1
  <2>2. comp[r] \in [Groups -> [Members -> Key]] BY DEF TypeOK
  <2>3. \A g \in Groups :
          (IF g \in CompletedIn(a, b) THEN [k \in Members |-> R[GroupRow(g, k)]]
           ELSE comp[r][g]) \in [Members -> Key]
    BY <2>1, <2>2
  <2> QED BY <2>3 DEF PagedComp
<1> QED BY <1>4, <1>5, <1>6, <1>7, <1>8

\* A window keeps the invariant, and the entries that were complete.
LEMMA WindowInv ==
  ASSUME IInv, ~HostLayout,
         NEW B \in SUBSET Slots, NEW w \in {1, Width},
         NEW accept \in [B -> 1..w], NEW pad \in Padding,
         Window(B, w, accept, pad)
  PROVE  /\ IInv'
         /\ \A r \in Slots : \A g \in Groups :
              At(g, Ratio) <= len[r] => comp'[r][g] = comp[r][g]
<1> USE DEF IInv
<1>0. /\ Width \in Nat \ {0} /\ MaxLen \in Nat
  BY SizeAssumption
<1>1. ASSUME NEW r \in Slots, r \notin B
      PROVE  /\ phase'[r] = phase[r] /\ len'[r] = len[r] /\ tok'[r] = tok[r]
             /\ spec'[r] = spec[r] /\ ring'[r] = ring[r]
             /\ comp'[r] = comp[r] /\ view'[r] = view[r]
  BY <1>1 DEF Window
<1>2. ASSUME NEW r \in B
      PROVE  /\ r \in Slots
             /\ len[r] \in Nat /\ len[r] + w <= MaxLen
             /\ w \in Nat /\ w <= Width
             /\ accept[r] \in Nat /\ 1 <= accept[r] /\ accept[r] <= w
  <2>1. r \in Slots /\ len[r] \in Nat BY <1>0 DEF TypeOK
  <2>2. accept[r] \in 1..w /\ w \in Nat /\ w <= Width BY <1>0
  <2>3. len[r] + w <= MaxLen BY DEF Window, Fits
  <2> QED BY <2>1, <2>2, <2>3
<1>2a. ASSUME NEW r \in B
       PROVE  /\ phase[r] = "decode" /\ phase'[r] = "decode"
              /\ len'[r] = len[r] + accept[r]
              /\ tok'[r] = Extended(r, tok[r], len[r], len[r] + accept[r])
              /\ spec'[r] = 0
  BY DEF Window
<1>2b. ASSUME NEW r \in B
       PROVE  /\ ring'[r] = Stored(r, len[r]..((len[r] + w) - 1))
              /\ comp'[r] = PagedComp(r, ring'[r], len[r], len[r] + w)
  <2>1. r \in Slots OBVIOUS
  <2>2. /\ ring'[r] = PagedRing(r, len[r]..((len[r] + w) - 1), pad, PadSlot(B, w))
        /\ comp'[r] = PagedComp(r, ring'[r], len[r], len[r] + w)
    BY <2>1 DEF Window
  <2> QED BY <2>1, <2>2, PaddingInert
<1>2c. ASSUME NEW r \in B
       PROVE  /\ view'[r].len = len[r] + w
              /\ view'[r].key = Extended(r, tok[r], len[r], len[r] + w)
  BY DEF Window
\* What PagedForward says of a slot of the batch.
<1>3. ASSUME NEW r \in B
      PROVE  /\ ring'[r] \in [RingRows -> Key]
             /\ comp'[r] \in [Groups -> [Members -> Key]]
             /\ view'[r].key \in [Positions -> Key]
             /\ tok'[r] \in [Positions -> Key]
             /\ \A p \in Positions : GroupStart(len[r]) <= p /\ p < len[r] + w
                                       => ring'[r][RingRow(p)] = view'[r].key[p]
             /\ \A g \in Groups : \A k \in Members :
                  At(g, Ratio) <= len[r] + w => comp'[r][g][k] = view'[r].key[At(g, k)]
             /\ \A g \in Groups : At(g, Ratio) <= len[r] => comp'[r][g] = comp[r][g]
             /\ \A p \in Positions :
                  p < len[r] + accept[r] => tok'[r][p] = view'[r].key[p]
  <2> DEFINE n   == len[r]
             b   == len[r] + w
             key == Extended(r, tok[r], n, b)
  <2>0. /\ r \in Slots /\ n \in Nat /\ b \in Nat /\ n <= b
        /\ b <= MaxLen /\ b <= n + Width
        /\ n + accept[r] \in Nat /\ n + accept[r] <= b
    BY <1>0, <1>2
  <2>1. tok[r] \in [Positions -> Key] BY <2>0 DEF TypeOK
  <2>2. key \in [Positions -> Key] BY <2>0, <2>1, ExtendedType
  <2>3. tok'[r] \in [Positions -> Key] BY <1>2a, <2>0, <2>1, ExtendedType
  <2>4. \A p \in Positions : p < n => key[p] = tok[r][p]
    BY <2>0, SizeAssumption DEF Extended, Positions
  <2>5. \A p \in Positions : n <= p /\ p < b => key[p] = NewKey(r, p)
    BY DEF Extended
  <2>6. \A p \in Positions : p < n + accept[r] => tok'[r][p] = key[p]
    <3> DEFINE m == n + accept[r]
    <3>1. tok'[r] = Extended(r, tok[r], n, m) BY <1>2a
    <3>2. m \in Nat /\ n <= m /\ m <= b BY <1>2, <2>0
    <3>3. \A p \in Positions : p < n => tok'[r][p] = tok[r][p]
      BY <2>0, <3>1, <3>2, SizeAssumption DEF Extended, Positions
    <3>4. \A p \in Positions : n <= p /\ p < m => tok'[r][p] = NewKey(r, p)
      BY <3>1 DEF Extended
    <3> HIDE DEF key
    <3> QED BY <2>0, <2>4, <2>5, <3>2, <3>3, <3>4, SizeAssumption DEF Positions
  <2>7. SlotInv(r) BY <2>0
  <2>8. \A p \in Positions : GroupStart(n) <= p /\ p < n
                               => ring[r][RingRow(p)] = key[p]
    BY <1>2a, <2>4, <2>7 DEF SlotInv
  <2>9. \A g \in Groups : \A k \in Members :
          At(g, Ratio) <= n => comp[r][g][k] = key[At(g, k)]
    <3> SUFFICES ASSUME NEW g \in Groups, NEW k \in Members, At(g, Ratio) <= n
                 PROVE  comp[r][g][k] = key[At(g, k)]
      OBVIOUS
    <3>1. comp[r][g][k] = tok[r][At(g, k)] BY <2>7 DEF SlotInv
    <3>2. At(g, k) \in Positions /\ At(g, k) < At(g, Ratio) /\ At(g, Ratio) \in Nat
      BY MemberPosition
    <3>3. At(g, k) < n BY <2>0, <3>2, SizeAssumption DEF Positions
    <3> QED BY <2>4, <3>1, <3>2, <3>3
  <2> HIDE DEF key
  <2>10. /\ ring'[r] \in [RingRows -> Key]
         /\ comp'[r] \in [Groups -> [Members -> Key]]
         /\ \A p \in Positions : GroupStart(n) <= p /\ p < b
                                   => ring'[r][RingRow(p)] = key[p]
         /\ \A g \in Groups : \A k \in Members :
              At(g, Ratio) <= b => comp'[r][g][k] = key[At(g, k)]
         /\ \A g \in Groups : At(g, Ratio) <= n => comp'[r][g] = comp[r][g]
    <3>1. ring'[r] = Stored(r, n..(b - 1)) /\ comp'[r] = PagedComp(r, ring'[r], n, b)
      BY <1>2b
    <3>2. TypeOK /\ n <= n BY <2>0
    <3> HIDE DEF n, b
    <3> DEFINE R == Stored(r, n..(b - 1))
               C == PagedComp(r, R, n, b)
    <3>3. /\ R \in [RingRows -> Key]
          /\ C \in [Groups -> [Members -> Key]]
          /\ \A p \in Positions : GroupStart(n) <= p /\ p < b => R[RingRow(p)] = key[p]
          /\ \A g \in Groups : \A k \in Members :
               At(g, Ratio) <= b => C[g][k] = key[At(g, k)]
          /\ \A g \in Groups : At(g, Ratio) <= n => C[g] = comp[r][g]
      BY <2>0, <2>2, <2>5, <2>8, <2>9, <3>2, PagedForward, SMTT(60)
    <3>4. ring'[r] = R /\ comp'[r] = C BY <3>1
    <3> HIDE DEF R, C
    <3> QED BY <3>3, <3>4
  <2>11. view'[r].key = key BY <1>2c DEF key
  <2> QED BY <2>2, <2>3, <2>6, <2>10, <2>11
<1>4. TypeOK'
  <2>1. ASSUME NEW r \in B PROVE view'[r] \in Context
    <3>1. /\ view'[r].len \in Nat
          /\ view'[r].key \in [Positions -> Key]
      BY <1>2, <1>2c, <1>3
    <3>2. view'[r] = [len |-> len[r] + w,
                      key |-> Extended(r, tok[r], len[r], len[r] + w)]
      BY DEF Window
    <3> QED BY <3>1, <3>2 DEF Context
  <2>2. \A r \in B : len'[r] \in 0..MaxLen BY <1>0, <1>2, <1>2a
  <2>3. \A r \in Slots \ B : tok[r] \in [Positions -> Key]
    BY DEF TypeOK
  <2>4. len' \in [Slots -> 0..MaxLen]
    BY <1>1, <2>2 DEF Window, TypeOK
  <2>5. tok' \in [Slots -> [Positions -> Key]]
    BY <1>1, <1>3, <2>3 DEF Window
  <2>6. spec' \in [Slots -> 0..Width] /\ phase' \in [Slots -> {"free", "prefill", "decode"}]
    BY <1>0 DEF Window, TypeOK
  <2>7. turn' \in [Slots -> Nat] BY SMTT(30) DEF Window, TypeOK
  <2>8. ring' \in [Slots -> [RingRows -> Key]]
    BY <1>1, <1>3 DEF Window, TypeOK
  <2>9. comp' \in [Slots -> [Groups -> [Members -> Key]]]
    BY <1>1, <1>3 DEF Window, TypeOK
  <2>10. view' \in [Slots -> Context]
    BY <1>1, <2>1 DEF Window, TypeOK
  <2> QED BY <2>4, <2>5, <2>6, <2>7, <2>8, <2>9, <2>10 DEF TypeOK
<1>5. ASSUME NEW r \in B PROVE SlotInv(r)'
  <2>0. /\ r \in Slots /\ len[r] \in Nat /\ len'[r] \in Nat /\ w \in Nat
        /\ len[r] <= len'[r] /\ len'[r] <= len[r] + w
    BY <1>2, <1>2a
  <2>1. \A g \in Groups : \A k \in Members :
          At(g, Ratio) <= len'[r] => comp'[r][g][k] = tok'[r][At(g, k)]
    <3> SUFFICES ASSUME NEW g \in Groups, NEW k \in Members,
                        At(g, Ratio) <= len'[r]
                 PROVE  comp'[r][g][k] = tok'[r][At(g, k)]
      OBVIOUS
    <3>1. /\ At(g, k) \in Positions /\ At(g, k) \in Nat
          /\ At(g, k) < At(g, Ratio) /\ At(g, Ratio) \in Nat
      BY MemberPosition, SizeAssumption DEF Positions
    <3>2. At(g, Ratio) <= len[r] + w /\ At(g, k) < len'[r] BY <2>0, <3>1
    <3> QED BY <1>2a, <1>3, <3>1, <3>2
  <2>2. \A p \in Positions : GroupStart(len'[r]) <= p /\ p < len'[r]
                               => ring'[r][RingRow(p)] = tok'[r][p]
    <3> SUFFICES ASSUME NEW p \in Positions, GroupStart(len'[r]) <= p, p < len'[r]
                 PROVE  ring'[r][RingRow(p)] = tok'[r][p]
      OBVIOUS
    <3>1. GroupStart(len[r]) <= GroupStart(len'[r]) BY <2>0, GroupStartMonotone
    <3>2. GroupStart(len[r]) \in Nat /\ GroupStart(len'[r]) \in Nat
      BY <2>0, GroupStartBound
    <3>3. p \in Nat BY SizeAssumption DEF Positions
    <3>4. GroupStart(len[r]) <= p /\ p < len[r] + w BY <2>0, <3>1, <3>2, <3>3
    <3> QED BY <1>2a, <1>3, <3>4
  <2>3. view'[r].len = len[r] + w BY <1>2c
  <2> QED BY <1>2a, <1>3, <2>1, <2>2, <2>3 DEF SlotInv
<1>6. ASSUME NEW r \in Slots PROVE SlotInv(r)'
  <2>1. CASE r \in B BY <1>5, <2>1
  <2>2. CASE r \notin B BY <1>1, <2>2, SlotUntouched
  <2> QED BY <2>1, <2>2
<1>7. ASSUME NEW r \in Slots, NEW g \in Groups, At(g, Ratio) <= len[r]
      PROVE  comp'[r][g] = comp[r][g]
  BY <1>1, <1>3, <1>7
<1> QED BY <1>4, <1>6, <1>7

\* So does a draft step: the batch's histories grow by one row past what was
\* drafted, and nothing is committed.
LEMMA DraftStepInv ==
  ASSUME IInv, ~HostLayout,
         NEW B \in SUBSET Slots, NEW pad \in Padding, DraftStep(B, pad)
  PROVE  /\ IInv'
         /\ \A r \in Slots : \A g \in Groups :
              At(g, Ratio) <= len[r] => comp'[r][g] = comp[r][g]
<1> USE DEF IInv
<1> DEFINE at(r)   == len[r] + spec[r]
           base(r) == IF spec[r] = 0 THEN tok[r] ELSE view[r].key
           key(r)  == Extended(r, base(r), at(r), at(r) + 1)
<1>0. Width \in Nat \ {0} /\ MaxLen \in Nat BY SizeAssumption
<1>1. ASSUME NEW r \in Slots
      PROVE  /\ phase'[r] = phase[r] /\ len'[r] = len[r] /\ tok'[r] = tok[r]
             /\ r \notin B => /\ spec'[r] = spec[r] /\ ring'[r] = ring[r]
                              /\ comp'[r] = comp[r] /\ view'[r] = view[r]
  BY DEF DraftStep
<1>2. ASSUME NEW r \in B
      PROVE  /\ r \in Slots /\ len[r] \in Nat /\ spec[r] \in Nat /\ at(r) \in Nat
             /\ spec[r] + 2 < Width /\ at(r) + 1 <= MaxLen
  <2>1. r \in Slots /\ len[r] \in Nat /\ spec[r] \in Nat BY <1>0 DEF TypeOK
  <2>2. spec[r] + 2 < Width /\ at(r) + 1 <= MaxLen BY DEF DraftStep, Fits
  <2> QED BY <2>1, <2>2
<1>2a. ASSUME NEW r \in B
       PROVE  phase[r] = "decode" /\ spec'[r] = spec[r] + 1
  BY DEF DraftStep
<1>2b. ASSUME NEW r \in B
       PROVE  /\ ring'[r] = Stored(r, at(r)..((at(r) + 1) - 1))
              /\ comp'[r] = PagedComp(r, ring'[r], at(r), at(r) + 1)
  <2>1. r \in Slots OBVIOUS
  <2>2. /\ ring'[r] = PagedRing(r, {at(r)}, pad, PadSlot(B, 1))
        /\ comp'[r] = PagedComp(r, ring'[r], at(r), at(r) + 1)
    BY <2>1 DEF DraftStep
  <2>3. at(r)..((at(r) + 1) - 1) = {at(r)} BY <1>2
  <2>4. ring'[r] = Stored(r, {at(r)}) BY <2>1, <2>2, PaddingInert
  <2> QED BY <2>2, <2>3, <2>4
<1>2c. ASSUME NEW r \in B
       PROVE  view'[r].len = at(r) + 1 /\ view'[r].key = key(r)
  BY DEF DraftStep
\* The history a draft step extends.
<1>3. ASSUME NEW r \in B
      PROVE  /\ base(r) \in [Positions -> Key]
             /\ key(r) \in [Positions -> Key]
             /\ \A p \in Positions : p < at(r) => key(r)[p] = base(r)[p]
             /\ \A p \in Positions : at(r) <= p /\ p < at(r) + 1
                                       => key(r)[p] = NewKey(r, p)
             /\ \A p \in Positions : p < len[r] => base(r)[p] = tok[r][p]
             /\ \A p \in Positions : GroupStart(len[r]) <= p /\ p < at(r)
                                       => ring[r][RingRow(p)] = base(r)[p]
             /\ \A g \in Groups : \A k \in Members :
                  At(g, Ratio) <= at(r) => comp[r][g][k] = base(r)[At(g, k)]
  <2>0. r \in Slots /\ at(r) \in Nat /\ at(r) + 1 \in Nat BY <1>2
  <2>1. /\ tok[r] \in [Positions -> Key] /\ view[r].key \in [Positions -> Key]
    BY <2>0 DEF TypeOK, Context
  <2>2. base(r) \in [Positions -> Key] BY <2>1
  <2>3. key(r) \in [Positions -> Key] BY <2>0, <2>2, ExtendedType
  <2>4. \A p \in Positions : p < at(r) => key(r)[p] = base(r)[p]
    <3> HIDE DEF at, base
    <3> QED BY <2>0, SizeAssumption DEF Extended, Positions
  <2>5. \A p \in Positions : at(r) <= p /\ p < at(r) + 1
                               => key(r)[p] = NewKey(r, p)
    BY DEF Extended
  <2>6. SlotInv(r) BY <2>0
  <2>7. CASE spec[r] = 0
    <3>1. base(r) = tok[r] /\ at(r) = len[r] BY <1>2, <2>7
    <3>2. /\ \A p \in Positions : GroupStart(len[r]) <= p /\ p < len[r]
                                    => ring[r][RingRow(p)] = tok[r][p]
          /\ \A g \in Groups : \A k \in Members :
               At(g, Ratio) <= len[r] => comp[r][g][k] = tok[r][At(g, k)]
      BY <1>2a, <2>6 DEF SlotInv
    <3> HIDE DEF at, base, key
    <3> QED BY <2>2, <2>3, <2>4, <2>5, <3>1, <3>2
  <2>8. CASE spec[r] # 0
    <3>1. base(r) = view[r].key /\ spec[r] > 0 BY <1>2, <2>8
    <3>2. /\ view[r].len = at(r)
          /\ \A p \in Positions : p < len[r] => view[r].key[p] = tok[r][p]
          /\ \A p \in Positions : GroupStart(len[r]) <= p /\ p < at(r)
                                    => ring[r][RingRow(p)] = view[r].key[p]
          /\ \A g \in Groups : \A k \in Members :
               At(g, Ratio) <= view[r].len => comp[r][g][k] = view[r].key[At(g, k)]
      BY <2>6, <3>1 DEF SlotInv
    <3> HIDE DEF at, base, key
    <3> QED BY <2>2, <2>3, <2>4, <2>5, <3>1, <3>2
  <2> QED BY <2>7, <2>8
\* What PagedForward says of a slot of the batch.
<1>4. ASSUME NEW r \in B
      PROVE  /\ ring'[r] \in [RingRows -> Key]
             /\ comp'[r] \in [Groups -> [Members -> Key]]
             /\ \A p \in Positions : GroupStart(len[r]) <= p /\ p < at(r) + 1
                                       => ring'[r][RingRow(p)] = key(r)[p]
             /\ \A g \in Groups : \A k \in Members :
                  At(g, Ratio) <= at(r) + 1 => comp'[r][g][k] = key(r)[At(g, k)]
             /\ \A g \in Groups : At(g, Ratio) <= at(r) => comp'[r][g] = comp[r][g]
  <2> DEFINE n == len[r]
             a == at(r)
             b == at(r) + 1
             h == key(r)
  <2>0. /\ r \in Slots /\ n \in Nat /\ a \in Nat /\ b \in Nat
        /\ n <= a /\ a <= b /\ b <= MaxLen /\ b <= n + Width
    BY <1>0, <1>2
  <2>1. /\ h \in [Positions -> Key]
        /\ \A p \in Positions : a <= p /\ p < b => h[p] = NewKey(r, p)
    BY <1>3
  <2>2. \A p \in Positions : GroupStart(n) <= p /\ p < a
                               => ring[r][RingRow(p)] = h[p]
    <3> HIDE DEF at, base, key
    <3> QED BY <1>3
  <2>3. \A g \in Groups : \A k \in Members :
          At(g, Ratio) <= a => comp[r][g][k] = h[At(g, k)]
    <3> SUFFICES ASSUME NEW g \in Groups, NEW k \in Members, At(g, Ratio) <= a
                 PROVE  comp[r][g][k] = h[At(g, k)]
      OBVIOUS
    <3>1. /\ At(g, k) \in Positions /\ At(g, k) \in Nat
          /\ At(g, k) < At(g, Ratio) /\ At(g, Ratio) \in Nat
      BY MemberPosition, SizeAssumption DEF Positions
    <3>2. At(g, k) < a BY <2>0, <3>1
    <3> HIDE DEF at, base, key
    <3> QED BY <1>3, <3>1, <3>2
  <2>4. ring'[r] = Stored(r, a..(b - 1)) /\ comp'[r] = PagedComp(r, ring'[r], a, b)
    BY <1>2b
  <2>5. TypeOK OBVIOUS
  <2> HIDE DEF n, a, b, h
  <2>6. LET R == Stored(r, a..(b - 1))
            C == PagedComp(r, R, a, b) IN
         /\ R \in [RingRows -> Key]
         /\ C \in [Groups -> [Members -> Key]]
         /\ \A p \in Positions : GroupStart(n) <= p /\ p < b
                                   => R[RingRow(p)] = h[p]
         /\ \A g \in Groups : \A k \in Members :
              At(g, Ratio) <= b => C[g][k] = h[At(g, k)]
         /\ \A g \in Groups : At(g, Ratio) <= a => C[g] = comp[r][g]
    BY <2>0, <2>1, <2>2, <2>3, <2>5, PagedForward, SMTT(60)
  <2> QED BY <2>4, <2>6 DEF n, a, b, h
<1>5. ASSUME NEW r \in B PROVE view'[r] \in Context
  <2>1. key(r) \in [Positions -> Key] /\ at(r) + 1 \in Nat BY <1>2, <1>3
  <2>2. view'[r] = [len |-> at(r) + 1, key |-> key(r)] BY DEF DraftStep
  <2> HIDE DEF at, key
  <2> QED BY <2>1, <2>2 DEF Context
<1> HIDE DEF key, base
<1>6. TypeOK'
  <2>1. spec' \in [Slots -> 0..Width]
    <3>1. \A r \in B : spec'[r] \in 0..Width BY <1>0, <1>2, <1>2a
    <3> QED BY <1>1, <3>1 DEF DraftStep, TypeOK
  <2>2. turn' \in [Slots -> Nat] BY DEF DraftStep, TypeOK
  <2>3. ring' \in [Slots -> [RingRows -> Key]]
    BY <1>1, <1>4 DEF DraftStep, TypeOK
  <2>4. comp' \in [Slots -> [Groups -> [Members -> Key]]]
    BY <1>1, <1>4 DEF DraftStep, TypeOK
  <2>5. view' \in [Slots -> Context] BY <1>1, <1>5 DEF DraftStep, TypeOK
  <2> QED BY <2>1, <2>2, <2>3, <2>4, <2>5 DEF DraftStep, TypeOK
<1>7. ASSUME NEW r \in B PROVE SlotInv(r)'
  <2>0. /\ r \in Slots /\ len[r] \in Nat /\ spec[r] \in Nat
        /\ spec'[r] + 2 <= Width /\ at(r) + 1 = len[r] + spec'[r]
        /\ len[r] <= at(r)
    BY <1>0, <1>2, <1>2a
  <2>1. SlotInv(r) BY <2>0
  <2>2. /\ len'[r] = len[r] /\ tok'[r] = tok[r] /\ phase'[r] = "decode"
        /\ view'[r].len = at(r) + 1 /\ view'[r].key = key(r)
    BY <1>1, <1>2a, <1>2c, <2>0
  <2>3. \A g \in Groups : \A k \in Members :
          At(g, Ratio) <= len[r] => comp'[r][g][k] = tok[r][At(g, k)]
    <3> SUFFICES ASSUME NEW g \in Groups, NEW k \in Members, At(g, Ratio) <= len[r]
                 PROVE  comp'[r][g][k] = tok[r][At(g, k)]
      OBVIOUS
    <3>1. At(g, Ratio) \in Nat BY MemberPosition
    <3>2. At(g, Ratio) <= at(r) BY <2>0, <3>1
    <3>3. comp'[r][g] = comp[r][g] BY <1>4, <3>2
    <3> QED BY <2>1, <3>3 DEF SlotInv
  <2>4. \A p \in Positions : p < len[r] => key(r)[p] = tok[r][p]
    <3>1. \A p \in Positions : p < len[r] => p < at(r)
      BY <2>0, SizeAssumption DEF Positions
    <3> QED BY <1>3, <3>1
  <2>5. \A p \in Positions : GroupStart(len[r]) <= p /\ p < len[r]
                               => ring'[r][RingRow(p)] = tok[r][p]
    <3>1. \A p \in Positions : p < len[r] => p < at(r) + 1
      BY <2>0, SizeAssumption DEF Positions
    <3> QED BY <1>4, <2>4, <3>1
  <2>6. /\ \A p \in Positions : GroupStart(len[r]) <= p /\ p < len[r] + spec'[r]
                                  => ring'[r][RingRow(p)] = key(r)[p]
        /\ \A g \in Groups : \A k \in Members :
             At(g, Ratio) <= view'[r].len => comp'[r][g][k] = key(r)[At(g, k)]
    BY <1>4, <2>0, <2>2
  <2> HIDE DEF at
  <2> QED BY <2>0, <2>2, <2>3, <2>4, <2>5, <2>6 DEF SlotInv
<1>8. ASSUME NEW r \in Slots PROVE SlotInv(r)'
  <2>1. CASE r \in B BY <1>7, <2>1
  <2>2. CASE r \notin B BY <1>1, <2>2, SlotUntouched
  <2> QED BY <2>1, <2>2
<1>9. ASSUME NEW r \in Slots, NEW g \in Groups, At(g, Ratio) <= len[r]
      PROVE  comp'[r][g] = comp[r][g]
  <2>1. CASE r \notin B BY <1>1, <2>1
  <2>2. CASE r \in B
    <3>1. At(g, Ratio) \in Nat
      BY MemberPosition, RatioAssumption, 0 \in Members DEF Members
    <3>2. At(g, Ratio) <= at(r) BY <1>2, <1>9, <2>2, <3>1
    <3> QED BY <1>4, <2>2, <3>2
  <2> QED BY <2>1, <2>2
<1> QED BY <1>6, <1>8, <1>9

-----------------------------------------------------------------------------
(* Admission, prefill and release.                                         *)

\* Admission shares whole pages, so whole groups, all complete.
LEMMA AdmitInv ==
  ASSUME IInv, NEW r \in Slots, NEW n \in 0..MaxLen, Admit(r, n)
  PROVE  IInv'
<1> USE DEF IInv
<1> DEFINE prefix == Extended(r, tok[r], 0, n)
<1>0. n \in Nat /\ MaxLen \in Nat BY SizeAssumption
<1>1. prefix \in [Positions -> Key]
  <2>1. tok[r] \in [Positions -> Key] BY DEF TypeOK
  <2> QED BY <1>0, <2>1, ExtendedType
<1>2. /\ phase[r] = "free" /\ phase' = [phase EXCEPT ![r] = "prefill"]
      /\ len' = [len EXCEPT ![r] = n] /\ tok' = [tok EXCEPT ![r] = prefix]
      /\ turn' = [turn EXCEPT ![r] = @ + 1]
      /\ view' = [view EXCEPT ![r] = [len |-> n, key |-> prefix]]
      /\ spec' = spec /\ ring' = ring
  BY DEF Admit
<1>3. n % Ratio = 0 BY <1>0, PagesAligned DEF Admit
<1>4. comp' = [comp EXCEPT ![r] =
                 [g \in Groups |-> IF At(g, Ratio) <= n
                                   THEN [k \in Members |-> prefix[At(g, k)]]
                                   ELSE comp[r][g]]]
  BY DEF Admit
<1> HIDE DEF prefix
<1>5. TypeOK'
  <2>1. [len |-> n, key |-> prefix] \in Context BY <1>0, <1>1 DEF Context
  <2>2. \A g \in Groups :
          (IF At(g, Ratio) <= n THEN [k \in Members |-> prefix[At(g, k)]]
           ELSE comp[r][g]) \in [Members -> Key]
    <3>1. \A g \in Groups : \A k \in Members : prefix[At(g, k)] \in Key
      BY <1>1, MemberPosition
    <3>2. \A g \in Groups : comp[r][g] \in [Members -> Key] BY DEF TypeOK
    <3> QED BY <3>1, <3>2
  <2>3. comp' \in [Slots -> [Groups -> [Members -> Key]]]
    BY <1>4, <2>2 DEF TypeOK
  <2>4. phase' \in [Slots -> {"free", "prefill", "decode"}] /\ turn' \in [Slots -> Nat]
    BY <1>2 DEF TypeOK
  <2>5. len' \in [Slots -> 0..MaxLen] /\ tok' \in [Slots -> [Positions -> Key]]
    BY <1>1, <1>2 DEF TypeOK
  <2>6. view' \in [Slots -> Context] BY <1>2, <2>1 DEF TypeOK
  <2> QED BY <1>2, <2>3, <2>4, <2>5, <2>6 DEF TypeOK
<1>6. SlotInv(r)'
  <2>1. SlotInv(r) /\ spec[r] \in Nat BY SizeAssumption DEF TypeOK
  <2>2. spec'[r] = 0 BY <1>2, <2>1 DEF SlotInv
  <2>3. \A g \in Groups : \A k \in Members :
          At(g, Ratio) <= n => comp'[r][g][k] = prefix[At(g, k)]
    BY <1>4 DEF TypeOK
  <2>4. /\ phase'[r] = "prefill" /\ len'[r] = n /\ tok'[r] = prefix
        /\ view'[r].len = n /\ view'[r].key = prefix /\ ring'[r] = ring[r]
    BY <1>2 DEF TypeOK
  <2> QED BY <1>3, <2>1, <2>2, <2>3, <2>4 DEF SlotInv
<1>7. ASSUME NEW q \in Slots, q # r PROVE SlotInv(q)'
  BY <1>2, <1>4, <1>7, SlotUntouched DEF TypeOK
<1> QED BY <1>5, <1>6, <1>7

\* A chunk compresses its own keys; what it leaves incomplete is in the ring.
LEMMA ExtendInv ==
  ASSUME IInv, NEW r \in Slots, NEW m \in 1..MaxLen, NEW final \in BOOLEAN,
         Extend(r, m, final)
  PROVE  /\ IInv'
         /\ \A q \in Slots : \A g \in Groups :
              At(g, Ratio) <= len[q] => comp'[q][g] = comp[q][g]
<1> USE DEF IInv
<1> DEFINE n    == len[r]
           e    == n + m
           keys == Extended(r, tok[r], n, e)
           ps   == PendingTail(e)
           made == [g \in Groups |-> IF g \in CompletedIn(n, e)
                                     THEN [k \in Members |-> keys[At(g, k)]]
                                     ELSE comp[r][g]]
<1>0. /\ MaxLen \in Nat /\ n \in Nat /\ e \in Nat /\ n <= e
      /\ Ratio \in Nat /\ Ratio >= 2 /\ Width \in Nat \ {0}
      /\ RingSize \in Nat \ {0} /\ Width + Ratio - 1 <= RingSize
  BY SizeAssumption, RatioAssumption, RingAssumption DEF TypeOK
<1>1. /\ phase[r] = "prefill" /\ n % Ratio = 0 /\ e <= MaxLen
      /\ ~final => e % PageSize = 0
  BY DEF Extend, Fits
<1>2. /\ phase' = [phase EXCEPT ![r] = IF final THEN "decode" ELSE "prefill"]
      /\ len' = [len EXCEPT ![r] = e] /\ tok' = [tok EXCEPT ![r] = keys]
      /\ turn' = [turn EXCEPT ![r] = @ + 1]
      /\ ring' = [ring EXCEPT ![r] = Stored(r, ps)]
      /\ comp' = [comp EXCEPT ![r] = made]
      /\ view' = [view EXCEPT ![r] = [len |-> e, key |-> keys]]
      /\ spec' = spec
  BY DEF Extend
<1>3. keys \in [Positions -> Key]
  <2>1. tok[r] \in [Positions -> Key] BY DEF TypeOK
  <2> QED BY <1>0, <2>1, ExtendedType
<1>4. /\ \A p \in Positions : p < n => keys[p] = tok[r][p]
      /\ \A p \in Positions : n <= p /\ p < e => keys[p] = NewKey(r, p)
  <2> HIDE DEF n, e
  <2>1. \A p \in Positions : p < n => keys[p] = tok[r][p]
    BY <1>0, SizeAssumption DEF Extended, Positions
  <2>2. \A p \in Positions : n <= p /\ p < e => keys[p] = NewKey(r, p)
    BY DEF Extended
  <2> QED BY <2>1, <2>2
<1>5. SlotInv(r) OBVIOUS
<1>6. /\ GroupStart(e) \in Nat /\ n <= GroupStart(e)
      /\ GroupStart(e) <= e /\ e < GroupStart(e) + Ratio
  <2>1. GroupStart(n) = n BY <1>0, <1>1, AlignedStart
  <2>2. GroupStart(n) <= GroupStart(e) BY <1>0, GroupStartMonotone
  <2> HIDE DEF n, e
  <2> QED BY <1>0, <2>1, <2>2, GroupStartBound
<1>7. \A p \in Positions : GroupStart(e) <= p /\ p < e
                             => Stored(r, ps)[RingRow(p)] = keys[p]
  <2> SUFFICES ASSUME NEW p \in Positions, GroupStart(e) <= p, p < e
               PROVE  Stored(r, ps)[RingRow(p)] = keys[p]
    OBVIOUS
  <2>1. p \in Nat BY SizeAssumption DEF Positions
  <2>2. ps \in SUBSET (GroupStart(e)..(GroupStart(e) + RingSize - 1))
    <3> HIDE DEF e
    <3> QED BY <1>0, <1>6, SizeAssumption DEF PendingTail, Positions
  <2>3. p \in ps BY DEF PendingTail
  <2> HIDE DEF ps
  <2>4. p \in GroupStart(e)..(GroupStart(e) + RingSize - 1) BY <2>2, <2>3
  <2>5. Stored(r, ps)[RingRow(p)] = NewKey(r, p)
    BY <1>6, <2>2, <2>3, <2>4, StoredRows
  <2>6. n <= p BY <1>0, <1>6, <2>1
  <2> QED BY <1>4, <2>5, <2>6
<1>8. \A g \in Groups : At(g, Ratio) <= n => made[g] = comp[r][g]
  <2> SUFFICES ASSUME NEW g \in Groups, At(g, Ratio) <= n
               PROVE  made[g] = comp[r][g]
    OBVIOUS
  <2>1. At(g, Ratio) \in Nat
    BY <1>0, MemberPosition, 0 \in Members DEF Members
  <2>2. ~(n < At(g, Ratio)) BY <1>0, <2>1
  <2> QED BY <2>2 DEF CompletedIn
<1>9. \A g \in Groups : \A k \in Members :
        At(g, Ratio) <= e => made[g][k] = keys[At(g, k)]
  <2> SUFFICES ASSUME NEW g \in Groups, NEW k \in Members, At(g, Ratio) <= e
               PROVE  made[g][k] = keys[At(g, k)]
    OBVIOUS
  <2>1. /\ At(g, k) \in Positions /\ At(g, k) \in Nat
        /\ At(g, k) < At(g, Ratio) /\ At(g, Ratio) \in Nat
    BY MemberPosition, SizeAssumption DEF Positions
  <2>2. CASE At(g, Ratio) <= n
    <3>0. made[g] = comp[r][g] BY <1>8, <2>2
    <3>1. comp[r][g][k] = tok[r][At(g, k)] BY <1>5, <2>2 DEF SlotInv
    <3> HIDE DEF made, keys
    <3>2. At(g, k) < n BY <1>0, <2>1, <2>2
    <3> QED BY <1>4, <2>1, <3>0, <3>1, <3>2
  <2>3. CASE n < At(g, Ratio) BY <2>3 DEF CompletedIn
  <2> QED BY <1>0, <2>1, <2>2, <2>3
<1>10. made \in [Groups -> [Members -> Key]]
  <2>1. \A g \in Groups : \A k \in Members : keys[At(g, k)] \in Key
    BY <1>3, MemberPosition
  <2>2. \A g \in Groups : comp[r][g] \in [Members -> Key] BY DEF TypeOK
  <2> QED BY <2>1, <2>2
<1>11. Stored(r, ps) \in [RingRows -> Key]
  <2>1. ps \in SUBSET Nat BY SizeAssumption DEF PendingTail, Positions
  <2>2. TypeOK OBVIOUS
  <2> HIDE DEF ps
  <2> QED BY <2>1, <2>2, StoredType
<1> HIDE DEF made, keys, ps
<1>12. TypeOK'
  <2>1. [len |-> e, key |-> keys] \in Context BY <1>0, <1>3 DEF Context
  <2>2. e \in 0..MaxLen BY <1>0, <1>1
  <2> QED BY <1>2, <1>3, <1>10, <1>11, <2>1, <2>2 DEF TypeOK
<1>13. SlotInv(r)'
  <2>1. spec'[r] = 0
    <3>1. spec[r] \in Nat BY SizeAssumption DEF TypeOK
    <3> QED BY <1>1, <1>2, <1>5, <3>1 DEF SlotInv
  <2>2. phase'[r] = "prefill" => e % Ratio = 0
    <3>1. phase'[r] = "prefill" => ~final BY <1>2 DEF TypeOK
    <3> QED BY <1>0, <1>1, <3>1, PagesAligned
  <2>3. /\ len'[r] = e /\ tok'[r] = keys /\ ring'[r] = Stored(r, ps)
        /\ comp'[r] = made /\ view'[r].len = e /\ view'[r].key = keys
    BY <1>2 DEF TypeOK
  <2> QED BY <1>7, <1>9, <2>1, <2>2, <2>3 DEF SlotInv
<1>14. ASSUME NEW q \in Slots, q # r
       PROVE  comp'[q] = comp[q] /\ SlotInv(q)'
  BY <1>2, <1>14, SlotUntouched DEF TypeOK
<1>15. comp'[r] = made BY <1>2 DEF TypeOK
<1> QED BY <1>8, <1>12, <1>13, <1>14, <1>15

\* A released slot promises nothing.
LEMMA ReleaseInv ==
  ASSUME IInv, NEW r \in Slots, Release(r)
  PROVE  IInv'
<1> USE DEF IInv
<1> DEFINE none == [p \in Positions |-> NoKey]
<1>1. none \in [Positions -> Key] BY DEF NoKey, Key
<1>2. /\ phase' = [phase EXCEPT ![r] = "free"] /\ len' = [len EXCEPT ![r] = 0]
      /\ tok' = [tok EXCEPT ![r] = none] /\ spec' = [spec EXCEPT ![r] = 0]
      /\ view' = [view EXCEPT ![r] = [len |-> 0, key |-> none]]
      /\ turn' = turn /\ ring' = ring /\ comp' = comp
  BY DEF Release
<1> HIDE DEF none
<1>3. TypeOK'
  <2>1. [len |-> 0, key |-> none] \in Context BY <1>1 DEF Context
  <2> QED BY <1>1, <1>2, <2>1, SizeAssumption DEF TypeOK
<1>4. SlotInv(r)'
  <2>1. SlotInv(r) OBVIOUS
  <2>2. /\ phase'[r] = "free" /\ len'[r] = 0 /\ spec'[r] = 0
        /\ view'[r].len = 0 /\ ring'[r] = ring[r]
    BY <1>2 DEF TypeOK
  <2>3. \A g \in Groups : \A k \in Members : ~(At(g, Ratio) <= 0)
    BY MemberPosition, SizeAssumption DEF Positions
  <2> QED BY <2>1, <2>2, <2>3 DEF SlotInv
<1>5. ASSUME NEW q \in Slots, q # r PROVE SlotInv(q)'
  BY <1>2, <1>5, SlotUntouched DEF TypeOK
<1> QED BY <1>3, <1>4, <1>5

-----------------------------------------------------------------------------
(* The theorems.                                                           *)

\* Every step keeps the invariant, and no step of a live request changes an
\* entry that was complete.
LEMMA NextInv ==
  ASSUME ~HostLayout, IInv, [Next]_vars
  PROVE  /\ IInv'
         /\ \A r \in Slots : \A g \in Groups :
              phase[r] # "free" /\ phase'[r] # "free" /\ At(g, Ratio) <= len[r]
                => comp'[r][g] = comp[r][g]
<1>1. CASE UNCHANGED vars
  <2>1. \A r \in Slots : SlotInv(r)'
    BY <1>1, SlotUntouched DEF vars, IInv
  <2>2. TypeOK' BY <1>1 DEF vars, IInv, TypeOK
  <2>3. comp' = comp BY <1>1 DEF vars
  <2> QED BY <2>1, <2>2, <2>3 DEF IInv
<1>2. ASSUME NEW r \in Slots, NEW n \in 0..MaxLen, Admit(r, n)
      PROVE  /\ IInv'
             /\ \A q \in Slots : phase[q] # "free" => comp'[q] = comp[q]
  BY <1>2, AdmitInv DEF Admit, IInv, TypeOK
<1>3. ASSUME NEW r \in Slots, NEW m \in 1..MaxLen, NEW final \in BOOLEAN,
             Extend(r, m, final)
      PROVE  /\ IInv'
             /\ \A q \in Slots : \A g \in Groups :
                  At(g, Ratio) <= len[q] => comp'[q][g] = comp[q][g]
  BY <1>3, ExtendInv
<1>4. ASSUME NEW B \in SUBSET Slots, NEW pad \in Padding, DraftStep(B, pad)
      PROVE  /\ IInv'
             /\ \A q \in Slots : \A g \in Groups :
                  At(g, Ratio) <= len[q] => comp'[q][g] = comp[q][g]
  BY <1>4, DraftStepInv
<1>5. ASSUME NEW B \in SUBSET Slots, NEW w \in {1, Width}, NEW pad \in Padding,
             NEW accept \in [B -> 1..w], Window(B, w, accept, pad)
      PROVE  /\ IInv'
             /\ \A q \in Slots : \A g \in Groups :
                  At(g, Ratio) <= len[q] => comp'[q][g] = comp[q][g]
  BY <1>5, WindowInv
<1>6. ASSUME NEW r \in Slots, Release(r)
      PROVE  IInv' /\ comp' = comp
  BY <1>6, ReleaseInv DEF Release
<1> QED BY <1>1, <1>2, <1>3, <1>4, <1>5, <1>6 DEF Next

\* IInv is an invariant of the pool.
LEMMA Invariance ==
  ASSUME ~HostLayout
  PROVE  Spec => []IInv
<1>1. Init => IInv BY InitInv
<1>2. IInv /\ [Next]_vars => IInv' BY NextInv
<1> QED BY <1>1, <1>2, PTL DEF Spec

\* Types, whatever the sizes.
THEOREM TypeCorrect ==
  ASSUME ~HostLayout
  PROVE  Spec => []TypeOK
<1>1. IInv => TypeOK BY DEF IInv
<1> QED BY <1>1, Invariance, PTL

\* A forward's rows attend true history: no group is ever pooled from the key
\* of a rejected draft, of another request or of the slot's previous owner.
THEOREM HistorySeen ==
  ASSUME ~HostLayout
  PROVE  Spec => []RowsSeeHistory
<1>1. IInv => RowsSeeHistory BY DEF IInv, SlotInv, RowsSeeHistory
<1> QED BY <1>1, Invariance, PTL

\* Rejecting drafts loses no committed key of the incomplete group.
THEOREM RollbackSafe ==
  ASSUME ~HostLayout
  PROVE  Spec => []PendingGroupKept
<1>1. IInv => PendingGroupKept BY DEF IInv, SlotInv, PendingGroupKept
<1> QED BY <1>1, Invariance, PTL

\* The compressed entry of a committed group is never rewritten while its
\* request lives.
THEOREM EntriesFinal ==
  ASSUME ~HostLayout
  PROVE  Spec => CommittedGroupsFinal
<1>1. IInv /\ [Next]_vars
        => [\A r \in Slots : \A g \in Groups :
              (phase[r] # "free" /\ phase'[r] # "free" /\ At(g, Ratio) <= len[r])
                => comp'[r][g] = comp[r][g]]_vars
  BY NextInv
<1> QED BY <1>1, Invariance, PTL DEF Spec, CommittedGroupsFinal

-----------------------------------------------------------------------------
(* Numbers                                                                   *)

\* The constants are positive numbers.
LEMMA PoolSizes ==
  /\ NumPages \in Nat \ {0} /\ TreeTopk \in Nat \ {0} /\ Steps \in Nat \ {0}
  /\ DraftTokens \in Nat \ {0} /\ Steps < DraftTokens
  /\ Cap \in Nat \ {0} /\ ChunkSize \in Nat \ {0}
  /\ PageSlots \in Nat \ {0, 1} /\ Reqs \subseteq Nat /\ IsFiniteSet(Reqs)
BY KVAssumption

\* A set of naturals with a member has a smallest one.
LEMMA Smallest ==
  ASSUME NEW S \in SUBSET Nat, S # {}
  PROVE  \E x \in S : \A y \in S : x <= y
<1>1. PICK x \in S : \A y \in S : ~ (<<y, x>> \in OpToRel(<, Nat))
  BY WFMin, NatLessThanWellFounded
<1>2. \A y \in S : x <= y
  <2> SUFFICES ASSUME NEW y \in S, y < x
               PROVE  FALSE
    OBVIOUS
  <2>1. <<y, x>> \in {ss \in Nat \X Nat : ss[1] < ss[2]}
    OBVIOUS
  <2> QED
    BY <1>1, <2>1 DEF OpToRel
<1> QED
  BY <1>2

\* Least picks a member.
LEMMA LeastIs ==
  ASSUME NEW S \in SUBSET Nat, S # {}
  PROVE  Least(S) \in S
<1>1. \E x \in S : \A y \in S : x <= y
  BY Smallest
<1> QED
  BY <1>1 DEF Least

\* A number is its quotient times the divisor, plus its remainder.
LEMMA Divides ==
  ASSUME NEW n \in Nat, NEW w \in Nat \ {0}
  PROVE  /\ n \div w \in Nat /\ n % w \in 0..(w - 1) /\ n % w \in Nat
         /\ n = (n \div w) * w + (n % w)
<1> DEFINE d == n \div w
<1>1. d \in Nat /\ n % w \in 0..(w - 1) /\ n = w * d + (n % w)
  OBVIOUS
<1>2. w * d = d * w
  BY <1>1
<1> HIDE DEF d
<1> QED
  BY <1>1, <1>2 DEF d

\* A multiple of w, and what is less than w besides it.
LEMMA Divided ==
  ASSUME NEW q \in Nat, NEW w \in Nat \ {0}, NEW x \in 0..(w - 1)
  PROVE  (q * w + x) \div w = q /\ (q * w + x) % w = x
<1> DEFINE n == q * w + x
           d == n \div w
<1>0. n \in Nat
  OBVIOUS
<1>1. d \in Nat /\ n % w \in 0..(w - 1) /\ n = w * d + (n % w)
  BY <1>0
<1>2. CASE d <= q - 1
  <2>1. w * d <= w * (q - 1) /\ w * (q - 1) = w * q - w
    BY <1>1, <1>2
  <2> QED
    BY <1>1, <2>1
<1>3. CASE q + 1 <= d
  <2>1. w * (q + 1) <= w * d /\ w * (q + 1) = w * q + w
    BY <1>1, <1>3
  <2> QED
    BY <1>1, <2>1
<1>4. CASE d = q
  BY <1>1, <1>4
<1> QED
  BY <1>1, <1>2, <1>3, <1>4

\* Quotient and remainder are determined.
LEMMA SamePlace ==
  ASSUME NEW w \in Nat \ {0}, NEW i \in Nat, NEW k \in Nat, NEW x \in 0..(w - 1), NEW y \in 0..(w - 1),
         i * w + x = k * w + y
  PROVE  i = k /\ x = y
BY Divided

\* Multiplying keeps order, and a larger factor adds at least one more.
LEMMA Products ==
  ASSUME NEW a \in Nat, NEW b \in Nat, NEW w \in Nat, a <= b
  PROVE  /\ a * w \in Nat /\ b * w \in Nat /\ a * w <= b * w
         /\ (a + 1) * w = a * w + w /\ (a < b => a * w + w <= b * w)
<1>1. a * w \in Nat /\ b * w \in Nat
  OBVIOUS
<1>2. PICK c \in Nat : b = a + c
  BY b - a \in Nat
<1>3. b * w = a * w + c * w /\ c * w \in Nat
  BY <1>2
<1>4. (a + 1) * w = a * w + w
  OBVIOUS
<1>5. ASSUME a < b PROVE a * w + w <= b * w
  <2>1. PICK e \in Nat : b = a + 1 + e
    BY <1>5, b - a - 1 \in Nat
  <2>2. b * w = a * w + w + e * w /\ e * w \in Nat
    BY <2>1
  <2> QED
    BY <1>1, <2>2
<1> QED
  BY <1>1, <1>3, <1>4, <1>5

\* The pages n slots take.
LEMMA PagesForIs ==
  ASSUME NEW n \in Nat
  PROVE  /\ PagesFor(n) \in Nat /\ PagesFor(n) * PageSlots \in Nat
         /\ n <= PagesFor(n) * PageSlots /\ PagesFor(n) * PageSlots < n + PageSlots
         /\ n > 0 => PagesFor(n) > 0
<1> DEFINE p == PagesFor(n)
           m == n + PageSlots - 1
<1>1. PageSlots \in Nat /\ PageSlots > 1
  BY PoolSizes
<1>2. m \in Nat
  BY <1>1
<1>0. p = m \div PageSlots
  BY DEF PagesFor
<1>7. m = n + PageSlots - 1
  OBVIOUS
<1> HIDE DEF p, m
<1>3. p \in Nat /\ m % PageSlots \in 0..(PageSlots - 1) /\ m = p * PageSlots + (m % PageSlots)
  <2>1. PageSlots \in Nat \ {0}
    BY PoolSizes
  <2>2. m \div PageSlots \in Nat /\ m % PageSlots \in 0..(PageSlots - 1)
        /\ m = (m \div PageSlots) * PageSlots + (m % PageSlots)
    BY <1>2, <2>1, Divides
  <2> QED
    BY <1>0, <2>2
<1>4. p * PageSlots \in Nat
  BY <1>1, <1>3
<1>5. p = 0 => p * PageSlots = 0
  BY <1>1
<1>6. n <= p * PageSlots /\ p * PageSlots < n + PageSlots
  BY <1>1, <1>3, <1>4, <1>7
<1> QED
  BY <1>3, <1>4, <1>5, <1>6 DEF p

\* Whole pages first.
LEMMA PagesForJoin ==
  ASSUME NEW a \in Nat, NEW n \in Nat
  PROVE  PagesFor(a * PageSlots + n) = a + PagesFor(n)
<1> DEFINE m == n + PageSlots - 1
           p == m \div PageSlots
           x == m % PageSlots
<1>1. PageSlots \in Nat \ {0}
  BY PoolSizes
<1>2. m \in Nat
  BY <1>1
<1>3. p \in Nat /\ x \in 0..(PageSlots - 1) /\ m = p * PageSlots + x
  BY <1>1, <1>2, Divides
<1>4. a * PageSlots + n + PageSlots - 1 = (a + p) * PageSlots + x
  <2>1. (a + p) * PageSlots = a * PageSlots + p * PageSlots
    BY <1>1, <1>3
  <2>2. a * PageSlots \in Nat /\ p * PageSlots \in Nat
    BY <1>1, <1>3
  <2>3. n + PageSlots - 1 = p * PageSlots + x
    BY <1>3
  <2> HIDE DEF p, x, m
  <2> QED
    BY <1>1, <1>3, <2>1, <2>2, <2>3
<1>5. ((a + p) * PageSlots + x) \div PageSlots = a + p
  <2>1. a + p \in Nat
    BY <1>3
  <2> QED
    BY <1>1, <1>3, <2>1, Divided
<1> QED
  BY <1>4, <1>5 DEF PagesFor

-----------------------------------------------------------------------------
(* Slots of a list of pages                                                  *)

Places(list) == 0..Len(list) * PageSlots - 1

\* A place in a list of pages is an offset in one of them.
LEMMA PlaceIs ==
  ASSUME NEW list \in Seq(1..NumPages), NEW i \in Places(list)
  PROVE  /\ i \in Nat /\ i \div PageSlots \in Nat /\ i % PageSlots \in 0..(PageSlots - 1)
         /\ i = (i \div PageSlots) * PageSlots + (i % PageSlots)
         /\ i \div PageSlots + 1 \in DOMAIN list
         /\ list[i \div PageSlots + 1] \in 1..NumPages
<1> DEFINE d == i \div PageSlots
<1>1. PageSlots \in Nat \ {0} /\ Len(list) \in Nat /\ Len(list) * PageSlots \in Nat
  BY PoolSizes
<1>2. i \in Nat /\ i < Len(list) * PageSlots
  BY <1>1 DEF Places
<1>3. d \in Nat /\ i % PageSlots \in 0..(PageSlots - 1) /\ i = d * PageSlots + (i % PageSlots)
  BY <1>1, <1>2, Divides
<1>4. d < Len(list)
  <2> HIDE DEF d
  <2> SUFFICES ASSUME Len(list) <= d PROVE FALSE
    BY <1>1, <1>3
  <2>1. Len(list) * PageSlots <= d * PageSlots
    BY <1>1, <1>3, Products
  <2>2. d * PageSlots \in Nat
    BY <1>1, <1>3
  <2> QED
    BY <1>1, <1>2, <1>3, <2>1, <2>2
<1> HIDE DEF d
<1>5. d + 1 \in DOMAIN list /\ list[d + 1] \in 1..NumPages
  <2>1. d \in Nat /\ Len(list) \in Nat
    BY <1>3
  <2>2. d + 1 \in 1..Len(list)
    BY <1>4, <2>1
  <2>3. list \in [1..Len(list) -> 1..NumPages]
    BY LenProperties
  <2> QED
    BY <2>2, <2>3
<1> QED
  BY <1>2, <1>3, <1>5 DEF d

\* Its slot is one of the pool.
LEMMA SlotIs ==
  ASSUME NEW list \in Seq(1..NumPages), NEW i \in Places(list)
  PROVE  SlotOf(list, i) \in Locs
<1> DEFINE p == list[i \div PageSlots + 1]
           x == i % PageSlots
<1>1. PageSlots \in Nat \ {0} /\ NumPages \in Nat
  BY PoolSizes
<1>2. p \in Nat /\ p <= NumPages /\ x \in 0..(PageSlots - 1)
  BY <1>1, PlaceIs
<1>3. SlotOf(list, i) = p * PageSlots + x
  BY DEF SlotOf
<1> HIDE DEF p, x
<1>4. p * PageSlots \in Nat /\ p * PageSlots <= NumPages * PageSlots
      /\ NumPages * PageSlots \in Nat /\ (NumPages + 1) * PageSlots = NumPages * PageSlots + PageSlots
  BY <1>1, <1>2, Products
<1> QED
  BY <1>1, <1>2, <1>3, <1>4 DEF Locs

\* Two places have the same slot only if they have the same page.
LEMMA SlotsApart ==
  ASSUME NEW list \in Seq(1..NumPages), NEW other \in Seq(1..NumPages),
         NEW i \in Places(list), NEW j \in Places(other), SlotOf(list, i) = SlotOf(other, j)
  PROVE  \E a \in DOMAIN list, b \in DOMAIN other : list[a] = other[b] /\ (a = b => i = j)
<1> DEFINE a == i \div PageSlots + 1
           b == j \div PageSlots + 1
<1>1. PageSlots \in Nat \ {0}
  BY PoolSizes
<1>2. a \in DOMAIN list /\ list[a] \in 1..NumPages /\ i % PageSlots \in 0..(PageSlots - 1)
      /\ i = (a - 1) * PageSlots + (i % PageSlots)
  BY PlaceIs
<1>3. b \in DOMAIN other /\ other[b] \in 1..NumPages /\ j % PageSlots \in 0..(PageSlots - 1)
      /\ j = (b - 1) * PageSlots + (j % PageSlots)
  BY PlaceIs
<1>4. list[a] * PageSlots + (i % PageSlots) = other[b] * PageSlots + (j % PageSlots)
  BY DEF SlotOf
<1> HIDE DEF a, b
<1>5. list[a] = other[b] /\ i % PageSlots = j % PageSlots
  <2> DEFINE p == list[a]
             q == other[b]
             x == i % PageSlots
             y == j % PageSlots
  <2>1. p \in Nat /\ q \in Nat /\ x \in 0..(PageSlots - 1) /\ y \in 0..(PageSlots - 1)
        /\ p * PageSlots + x = q * PageSlots + y
    BY <1>2, <1>3, <1>4
  <2> HIDE DEF p, q, x, y
  <2>2. p = q /\ x = y
    BY <1>1, <2>1, SamePlace
  <2> QED
    BY <2>2 DEF p, q, x, y
<1>6. a = b => i = j
  BY <1>2, <1>3, <1>5
<1> QED
  BY <1>2, <1>3, <1>5, <1>6

-----------------------------------------------------------------------------
(* Recursive functions                                                       *)

\* A function given by a first value and by each value from the one before.
LEMMA StepByStep ==
  ASSUME NEW S, NEW b \in S, NEW n \in Nat, NEW G \in [1..n -> [S -> S]]
  PROVE  \E f \in [0..n -> S] : f[0] = b /\ \A k \in 1..n : f[k] = G[k][f[k - 1]]
<1> DEFINE Sat(f, m) == /\ f \in [0..m -> S]
                        /\ \A k \in 0..m : f[k] = IF k = 0 THEN b ELSE G[k][f[k - 1]]
           Bad == {m \in 0..n : ~\E f : Sat(f, m)}
<1>1. Bad = {}
  <2> SUFFICES ASSUME Bad # {} PROVE FALSE
    OBVIOUS
  <2>1. PICK m \in Bad : \A y \in Bad : m <= y
    <3>1. Bad \in SUBSET Nat
      OBVIOUS
    <3> QED
      BY <3>1, Smallest
  <2>2. m # 0
    <3>1. Sat([k \in 0..0 |-> b], 0)
      OBVIOUS
    <3> QED
      BY <3>1
  <2>3. m \in 1..n /\ m - 1 \in 0..n /\ m - 1 \notin Bad
    <3>1. m \in 0..n
      BY <2>1
    <3>2. m - 1 \in 0..n /\ ~(m <= m - 1)
      BY <2>2, <3>1
    <3> HIDE DEF Bad
    <3> QED
      BY <2>1, <2>2, <3>1, <3>2
  <2>4. PICK g : Sat(g, m - 1)
    BY <2>3
  <2> DEFINE h == [k \in 0..m |-> IF k = m THEN G[m][g[m - 1]] ELSE g[k]]
  <2>5. ASSUME NEW k \in 0..m
        PROVE  h[k] \in S /\ h[k] = IF k = 0 THEN b ELSE G[k][h[k - 1]]
    <3>1. CASE k = m
      <4>1. m - 1 \in 0..m - 1 /\ m - 1 \in 0..m /\ m - 1 # m /\ g[m - 1] \in S
        BY <2>3, <2>4
      <4>2. h[m - 1] = g[m - 1] /\ h[m] = G[m][g[m - 1]]
        BY <4>1
      <4>3. G[m][g[m - 1]] \in S
        BY <2>3, <4>1
      <4> HIDE DEF h
      <4> QED
        BY <2>2, <3>1, <4>2, <4>3
    <3>2. CASE k # m
      <4>1. k \in 0..m - 1
        BY <2>3, <3>2
      <4>2. h[k] = g[k] /\ g[k] \in S /\ g[k] = IF k = 0 THEN b ELSE G[k][g[k - 1]]
        BY <2>4, <3>2, <4>1
      <4>3. k # 0 => k - 1 \in 0..m /\ k - 1 # m
        BY <2>3, <4>1
      <4>4. k # 0 => h[k - 1] = g[k - 1]
        BY <4>3
      <4> QED
        BY <4>2, <4>4
    <3> QED
      BY <3>1, <3>2
  <2>6. Sat(h, m)
    <3>1. h \in [0..m -> S]
      <4>1. h = [k \in 0..m |-> h[k]]
        OBVIOUS
      <4> HIDE DEF h
      <4> QED
        BY <2>5, <4>1
    <3> HIDE DEF h
    <3> QED
      BY <2>5, <3>1
  <2> QED
    BY <2>1, <2>6
<1>2. PICK f : Sat(f, n)
  <2>1. n \in 0..n
    OBVIOUS
  <2> QED
    BY <1>1, <2>1
<1>3. f[0] = b
  <2>1. 0 \in 0..n
    OBVIOUS
  <2> QED
    BY <1>2, <2>1
<1>4. \A k \in 1..n : f[k] = G[k][f[k - 1]]
  <2> TAKE k \in 1..n
  <2>1. k \in 0..n /\ k # 0
    OBVIOUS
  <2> QED
    BY <1>2, <2>1
<1> QED
  BY <1>2, <1>3, <1>4

-----------------------------------------------------------------------------
(* Pieces                                                                    *)

\* A piece is the part of the sequence it stands for; only the last may be short.
LEMMA PieceIs ==
  ASSUME NEW S, NEW s \in Seq(S), NEW n \in Nat \ {0}, NEW k \in 1..Pieces(s, n)
  PROVE  /\ (k - 1) * n \in Nat /\ k * n = (k - 1) * n + n
         /\ Piece(s, k, n) \in Seq(S)
         /\ Len(Piece(s, k, n)) = IF k * n < Len(s) THEN n ELSE Len(s) - (k - 1) * n
         /\ Len(Piece(s, k, n)) \in 1..n
         /\ \A j \in 1..Len(Piece(s, k, n)) :
              (k - 1) * n + j \in 1..Len(s) /\ Piece(s, k, n)[j] = s[(k - 1) * n + j]
<1> DEFINE N  == Len(s)
           m  == N + n - 1
           P  == Pieces(s, n)
           lo == (k - 1) * n
           hi == IF k * n < N THEN k * n ELSE N
<1>1. N \in Nat /\ s \in [1..N -> S]
  BY LenProperties
<1>2. m \in Nat /\ P = m \div n
  BY <1>1 DEF Pieces
<1>3. P \in Nat /\ m = P * n + (m % n) /\ m % n \in 0..(n - 1) /\ m = N + n - 1
  <2> HIDE DEF P
  <2>1. m = N + n - 1
    OBVIOUS
  <2> HIDE DEF m
  <2> QED
    BY <1>2, <2>1, Divides
<1>4. k \in Nat /\ k - 1 \in Nat /\ k <= P /\ k >= 1
  <2> HIDE DEF P, m
  <2>1. k \in 1..P
    BY DEF P
  <2> QED
    BY <1>3, <2>1
<1>5. lo \in Nat /\ k * n = lo + n /\ lo + n <= P * n /\ P * n \in Nat
  <2>1. (k - 1) + 1 = k /\ k - 1 < P
    BY <1>3, <1>4
  <2> HIDE DEF P
  <2> QED
    BY <1>3, <1>4, <2>1, Products
<1> HIDE DEF m, P
<1>6. k * n - n + 1 = lo + 1 /\ k * n \in Int
  BY <1>5
<1> HIDE DEF lo
<1>7. lo < N
  <2>1. P * n <= N + n - 1
    BY <1>1, <1>3, <1>5
  <2> QED
    BY <1>1, <1>5, <2>1
<1>8. hi \in Int /\ lo + 1 <= hi /\ hi <= N /\ hi - lo \in 1..n
      /\ hi - lo = IF k * n < N THEN n ELSE N - lo
  BY <1>1, <1>5, <1>7
<1>9. Piece(s, k, n) = SubSeq(s, lo + 1, hi)
  BY <1>6 DEF Piece
<1> HIDE DEF hi, N
<1>15. lo \in Nat /\ hi \in Int /\ lo + 1 <= hi /\ hi <= N
  BY <1>5, <1>8
<1>10. \A i \in lo + 1..hi : s[i] \in S
  <2> TAKE i \in lo + 1..hi
  <2>1. i \in 1..N
    BY <1>1, <1>15
  <2> QED
    BY <1>1, <2>1
<1>11. /\ SubSeq(s, lo + 1, hi) \in Seq(S)
       /\ Len(SubSeq(s, lo + 1, hi)) = IF lo + 1 <= hi THEN hi - (lo + 1) + 1 ELSE 0
       /\ \A i \in 1..hi - (lo + 1) + 1 : SubSeq(s, lo + 1, hi)[i] = s[lo + 1 + i - 1]
  <2>1. lo + 1 \in Int
    BY <1>15
  <2> QED
    BY <1>10, <1>15, <2>1, SubSeqProperties
<1>12. hi - (lo + 1) + 1 = hi - lo
  BY <1>15
<1>13. Len(Piece(s, k, n)) = hi - lo
  BY <1>8, <1>9, <1>11, <1>12
<1>14. ASSUME NEW j \in 1..hi - lo
       PROVE  lo + j \in 1..N /\ Piece(s, k, n)[j] = s[lo + j]
  <2>1. lo + j \in 1..N /\ lo + 1 + j - 1 = lo + j
    BY <1>1, <1>15
  <2> QED
    BY <1>9, <1>11, <1>12, <2>1
<1> QED
  BY <1>5, <1>8, <1>9, <1>11, <1>13, <1>14 DEF lo, N

\* Every element is in one of them.
LEMMA PieceOf ==
  ASSUME NEW S, NEW s \in Seq(S), NEW n \in Nat \ {0}, NEW i \in 1..Len(s)
  PROVE  \E k \in 1..Pieces(s, n) : \E j \in 1..Len(Piece(s, k, n)) : i = (k - 1) * n + j
<1> DEFINE N == Len(s)
           P == Pieces(s, n)
           m == N + n - 1
           d == (i - 1) \div n
           x == (i - 1) % n
<1>1. N \in Nat /\ i - 1 \in Nat
  BY LenProperties
<1>2. d \in Nat /\ x \in 0..(n - 1) /\ i - 1 = d * n + x
  BY <1>1, Divides
<1>3. P \in Nat /\ m = P * n + (m % n) /\ m % n \in 0..(n - 1) /\ m = N + n - 1
  <2>1. m = N + n - 1 /\ m \in Nat /\ P = m \div n
    BY <1>1 DEF Pieces
  <2> HIDE DEF m, P
  <2> QED
    BY <2>1, Divides
<1> HIDE DEF m, P, d, x
<1>4. d < P
  <2> SUFFICES ASSUME P <= d PROVE FALSE
    BY <1>2, <1>3
  <2>1. P * n \in Nat /\ d * n \in Nat /\ P * n <= d * n
    BY <1>2, <1>3, Products
  <2> QED
    BY <1>1, <1>2, <1>3, <2>1
<1>5. d + 1 \in 1..P /\ (d + 1) - 1 = d
  BY <1>2, <1>3, <1>4
<1>6. /\ (d + 1) * n = d * n + n /\ d * n \in Nat
      /\ Len(Piece(s, d + 1, n)) = IF (d + 1) * n < N THEN n ELSE N - d * n
  <2> DEFINE k == d + 1
  <2>1. k \in 1..Pieces(s, n) /\ k - 1 = d
    BY <1>5 DEF P
  <2> HIDE DEF k
  <2>2. (k - 1) * n \in Nat /\ k * n = (k - 1) * n + n
        /\ Len(Piece(s, k, n)) = IF k * n < Len(s) THEN n ELSE Len(s) - (k - 1) * n
    BY <2>1, PieceIs
  <2> QED
    BY <2>1, <2>2 DEF k
<1>7. x + 1 \in 1..Len(Piece(s, d + 1, n))
  <2>1. d * n + x < N
    BY <1>1, <1>2
  <2> QED
    BY <1>1, <1>2, <1>6, <2>1
<1>8. i = d * n + (x + 1)
  BY <1>1, <1>2
<1> QED
  BY <1>5, <1>7, <1>8 DEF P

\* The pieces cover the sequence.
LEMMA PiecesCover ==
  ASSUME NEW S, NEW s \in Seq(S), NEW n \in Nat \ {0}
  PROVE  Pieces(s, n) \in Nat /\ Pieces(s, n) * n \in Nat /\ Len(s) <= Pieces(s, n) * n
<1> DEFINE N == Len(s)
           P == Pieces(s, n)
           m == N + n - 1
<1>1. N \in Nat
  BY LenProperties
<1>2. m = N + n - 1 /\ m \in Nat /\ P = m \div n
  BY <1>1 DEF Pieces
<1> HIDE DEF m, P, N
<1>3. P \in Nat /\ m = P * n + (m % n) /\ m % n \in 0..(n - 1)
  BY <1>2, Divides
<1>4. P * n \in Nat
  BY <1>3
<1>5. N <= P * n
  BY <1>1, <1>2, <1>3, <1>4
<1> QED
  BY <1>3, <1>4, <1>5 DEF P, N

-----------------------------------------------------------------------------
(* Writes to a buffer                                                        *)

Distinct(s) == \A i, j \in 1..Len(s) : s[i] = s[j] => i = j

\* out is buf with the slots in `to' set to what val lists.
Lands(out, buf, to, val) ==
  /\ \A i \in 1..Len(to) : out[to[i]] = val[i]
  /\ \A s \in Locs : (\A i \in 1..Len(to) : to[i] # s) => out[s] = buf[s]

\* One assignment to distinct slots lands.
LEMMA PutIs ==
  ASSUME NEW buf, NEW new, NEW to \in Seq(Locs), Distinct(to)
  PROVE  Lands(Put(buf, to, new), buf, to, new)
<1> DEFINE out == Put(buf, to, new)
<1>1. ASSUME NEW i \in 1..Len(to) PROVE out[to[i]] = new[i]
  <2>1. to[i] \in Locs
    BY ElementOfSeq
  <2>2. (CHOOSE k \in 1..Len(to) : to[k] = to[i]) = i
    BY DEF Distinct
  <2> QED
    BY <2>1, <2>2 DEF Put
<1>2. ASSUME NEW s \in Locs, \A i \in 1..Len(to) : to[i] # s PROVE out[s] = buf[s]
  BY <1>2 DEF Put
<1> QED
  BY <1>1, <1>2 DEF Lands

\* f[k] is buf after k pieces, of which piece k writes c[k]; it carries the right
\* values if the slots no earlier piece wrote are as they were.
InPieces(f, c, buf, to, w) ==
  /\ f[0] = buf
  /\ \A k \in 1..Pieces(to, w) : f[k] = Put(f[k - 1], Piece(to, k, w), c[k])
Carries(f, c, buf, to, w, val) ==
  \A k \in 1..Pieces(to, w) :
    (\A s \in Locs : (\A i \in 1..Len(to) : i <= (k - 1) * w => to[i] # s) => f[k - 1][s] = buf[s])
    => \A j \in 1..Len(Piece(to, k, w)) : c[k][j] = val[(k - 1) * w + j]

\* So does one piece after another, if each carries what it should as long as the
\* pieces before it touched none of what it reads.
LEMMA PiecesLand ==
  ASSUME NEW buf, NEW val, NEW to \in Seq(Locs), Distinct(to), NEW w \in Nat \ {0},
         NEW f, NEW c, InPieces(f, c, buf, to, w), Carries(f, c, buf, to, w, val)
  PROVE  Lands(f[Pieces(to, w)], buf, to, val)
<1> DEFINE n == Pieces(to, w)
           N == Len(to)
           P(k) == /\ \A i \in 1..N : i <= k * w => f[k][to[i]] = val[i]
                   /\ \A s \in Locs : (\A i \in 1..N : i <= k * w => to[i] # s) => f[k][s] = buf[s]
           Bad == {k \in 0..n : ~P(k)}
<1>1. N \in Nat /\ to \in [1..N -> Locs]
  BY LenProperties
<1>2. n \in Nat
  <2>1. N + w - 1 \in Nat
    BY <1>1
  <2> QED
    BY <2>1, Divides DEF Pieces
<1>3. P(0)
  <2>2. f[0] = buf
    BY DEF InPieces
  <2>1. \A i \in 1..N : ~(i <= 0 * w)
    BY <1>1
  <2> QED
    BY <2>1, <2>2
<1>4. ASSUME NEW k \in 1..n, P(k - 1) PROVE P(k)
  <2> DEFINE p  == Piece(to, k, w)
             lo == (k - 1) * w
             m  == Len(p)
  <2>1. /\ lo \in Nat /\ k * w = lo + w /\ p \in Seq(Locs) /\ m \in 1..w
        /\ m = IF k * w < N THEN w ELSE N - lo
        /\ \A j \in 1..m : lo + j \in 1..N /\ p[j] = to[lo + j]
    BY PieceIs
  <2>2. f[k] = Put(f[k - 1], p, c[k])
    BY DEF InPieces
  <2>3. \A j \in 1..m : c[k][j] = val[lo + j]
    BY <1>4 DEF Carries
  <2>4. /\ \A i \in 1..N : i <= lo => f[k - 1][to[i]] = val[i]
        /\ \A s \in Locs : (\A i \in 1..N : i <= lo => to[i] # s) => f[k - 1][s] = buf[s]
    BY <1>4
  <2> HIDE DEF p, lo, m
  <2>5. Distinct(p)
    <3> SUFFICES ASSUME NEW i \in 1..m, NEW j \in 1..m, p[i] = p[j] PROVE i = j
      BY DEF Distinct, m
    <3>1. lo + i = lo + j
      BY <2>1 DEF Distinct
    <3> QED
      BY <2>1, <3>1
  <2>6. Lands(f[k], f[k - 1], p, c[k])
    BY <2>1, <2>2, <2>5, PutIs
  <2>7. /\ \A j \in 1..m : f[k][to[lo + j]] = val[lo + j]
        /\ \A s \in Locs : (\A j \in 1..m : to[lo + j] # s) => f[k][s] = f[k - 1][s]
    <3>1. /\ \A j \in 1..m : f[k][p[j]] = c[k][j]
          /\ \A s \in Locs : (\A j \in 1..m : p[j] # s) => f[k][s] = f[k - 1][s]
      BY <2>6 DEF Lands, m
    <3>2. \A j \in 1..m : p[j] = to[lo + j]
      BY <2>1
    <3>3. \A j \in 1..m : f[k][to[lo + j]] = val[lo + j]
      BY <2>3, <3>1, <3>2
    <3> QED
      BY <3>1, <3>2, <3>3
  <2>10. /\ lo \in Nat /\ N \in Nat /\ w \in Nat /\ m \in 0..w /\ \A j \in 1..m : lo + j \in 1..N
         /\ m = w \/ m = N - lo
    <3> HIDE DEF N
    <3>1. \A j \in 1..m : lo + j \in 1..N
      BY <2>1 DEF N
    <3>2. w \in Nat /\ m \in 0..w
      BY <2>1
    <3>3. m = w \/ m = N - lo
      BY <2>1
    <3> QED
      BY <1>1, <2>1, <3>1, <3>2, <3>3
  <2> HIDE DEF N
  <2>8. ASSUME NEW i \in 1..N, i <= lo + w PROVE f[k][to[i]] = val[i]
    <3>1. CASE i <= lo
      <4>1. \A j \in 1..m : to[lo + j] # to[i]
        <5> TAKE j \in 1..m
        <5>1. lo + j \in 1..N /\ lo + j # i
          BY <2>10, <3>1
        <5> QED
          BY <5>1 DEF Distinct, N
      <4>2. to[i] \in Locs
        BY <1>1
      <4> QED
        BY <2>4, <2>7, <3>1, <4>1, <4>2
    <3>2. CASE i > lo
      <4>1. i - lo \in 1..m /\ lo + (i - lo) = i
        BY <2>8, <2>10, <3>2
      <4> QED
        BY <2>7, <4>1
    <3> QED
      BY <2>10, <3>1, <3>2
  <2>9. ASSUME NEW s \in Locs, \A i \in 1..N : i <= lo + w => to[i] # s PROVE f[k][s] = buf[s]
    <3>1. \A j \in 1..m : to[lo + j] # s
      <4> TAKE j \in 1..m
      <4>1. lo + j \in 1..N /\ lo + j <= lo + w
        BY <2>10
      <4> QED
        BY <2>9, <4>1
    <3>2. \A i \in 1..N : i <= lo => to[i] # s
      <4> TAKE i \in 1..N
      <4> HAVE i <= lo
      <4>1. i <= lo + w
        BY <2>10
      <4> QED
        BY <2>9, <4>1
    <3> QED
      BY <2>4, <2>7, <3>1, <3>2
  <2> QED
    BY <2>1, <2>8, <2>9 DEF N
<1>5. Bad = {}
  <2> SUFFICES ASSUME Bad # {} PROVE FALSE
    OBVIOUS
  <2>1. PICK k \in Bad : \A y \in Bad : k <= y
    <3>1. Bad \in SUBSET Nat
      OBVIOUS
    <3> QED
      BY <3>1, Smallest
  <2>2. k \in 0..n /\ ~P(k)
    BY <2>1
  <2> HIDE DEF P
  <2>3. k # 0
    BY <1>3, <2>2
  <2>4. k \in 1..n /\ k - 1 \in 0..n /\ ~(k <= k - 1)
    BY <1>2, <2>2, <2>3
  <2>5. P(k - 1)
    BY <2>1, <2>4
  <2> QED
    BY <1>4, <2>2, <2>4, <2>5
<1>6. P(n)
  <2> HIDE DEF P
  <2>1. n \in 0..n
    BY <1>2
  <2> QED
    BY <1>5, <2>1
<1>7. \A i \in 1..N : i <= n * w
  <2>1. N <= n * w /\ n * w \in Nat
    BY PiecesCover
  <2> QED
    BY <1>1, <2>1
<1> QED
  BY <1>6, <1>7 DEF Lands

\* An assignment keeps the kind of what a buffer holds.
LEMMA PutType ==
  ASSUME NEW V, NEW buf, NEW to, NEW new,
         \A s \in Locs : buf[s] \in V, \A i \in 1..Len(to) : new[i] \in V
  PROVE  Put(buf, to, new) \in [Locs -> V]
<1>1. ASSUME NEW s \in Locs
      PROVE  (IF \E i \in 1..Len(to) : to[i] = s
              THEN new[CHOOSE i \in 1..Len(to) : to[i] = s] ELSE buf[s]) \in V
  OBVIOUS
<1> QED
  BY <1>1 DEF Put

\* The copy kernel moves a buffer as one assignment does, if no slot is written
\* before it is read.
MovedFn(buf, tgt, src) ==
  CHOOSE f : f = [k \in 0..Pieces(tgt, Cap) |->
    IF k = 0 THEN buf
    ELSE Put(f[k - 1], Piece(tgt, k, Cap), Get(f[k - 1], Piece(src, k, Cap)))]

\* The kernel's buffers, chunk after chunk, exist and are these.
LEMMA MovedFnIs ==
  ASSUME NEW buf, NEW tgt, NEW src, tgt \in Seq(Locs), src \in Seq(Locs), Len(src) = Len(tgt)
  PROVE  /\ MovedFn(buf, tgt, src)[0] = buf
         /\ \A k \in 1..Pieces(tgt, Cap) :
              MovedFn(buf, tgt, src)[k] =
                Put(MovedFn(buf, tgt, src)[k - 1], Piece(tgt, k, Cap),
                    Get(MovedFn(buf, tgt, src)[k - 1], Piece(src, k, Cap)))
<1> DEFINE V == {buf[s] : s \in Locs}
           S == [Locs -> V] \cup {buf}
           n == Pieces(tgt, Cap)
           Next1(x, k) == Put(x, Piece(tgt, k, Cap), Get(x, Piece(src, k, Cap)))
           G == [k \in 1..n |-> [x \in S |-> Next1(x, k)]]
           Sat(f) == f = [k \in 0..n |-> IF k = 0 THEN buf ELSE Next1(f[k - 1], k)]
<1>1. Cap \in Nat \ {0} /\ n \in Nat
  BY PoolSizes, PiecesCover
<1>2. ASSUME NEW k \in 1..n, NEW x \in S PROVE Next1(x, k) \in [Locs -> V]
  <2> DEFINE to == Piece(tgt, k, Cap)
             from == Piece(src, k, Cap)
  <2>1. k \in 1..Pieces(src, Cap)
    BY DEF Pieces
  <2>2. Len(to) = IF k * Cap < Len(tgt) THEN Cap ELSE Len(tgt) - (k - 1) * Cap
    BY <1>1, PieceIs
  <2>3. from \in Seq(Locs) /\ Len(from) = IF k * Cap < Len(src) THEN Cap ELSE Len(src) - (k - 1) * Cap
    BY <1>1, <2>1, PieceIs
  <2>4. Len(to) = Len(from)
    BY <2>2, <2>3
  <2> HIDE DEF to, from
  <2>5. \A s \in Locs : x[s] \in V
    OBVIOUS
  <2>6. \A i \in 1..Len(to) : from[i] \in Locs
    BY <2>3, <2>4, ElementOfSeq
  <2>7. \A i \in 1..Len(to) : Get(x, from)[i] \in V
    BY <2>4, <2>5, <2>6 DEF Get
  <2>8. Put(x, to, Get(x, from)) \in [Locs -> V]
    BY <2>5, <2>7, PutType
  <2> QED
    BY <2>8 DEF to, from
<1>3. G \in [1..n -> [S -> S]]
  <2> HIDE DEF Next1, n
  <2>1. \A k \in 1..n : \A x \in S : Next1(x, k) \in S
    BY <1>2
  <2> QED
    BY <2>1
<1>4. buf \in S
  OBVIOUS
<1>5. PICK g \in [0..n -> S] : g[0] = buf /\ \A k \in 1..n : g[k] = G[k][g[k - 1]]
  <2> HIDE DEF G, S, n, V, Next1, Sat
  <2>1. n \in Nat /\ buf \in S /\ G \in [1..n -> [S -> S]]
    BY <1>1, <1>3, <1>4
  <2> QED
    BY ONLY <2>1, StepByStep
<1>6. \A k \in 0..n : g[k] = IF k = 0 THEN buf ELSE Next1(g[k - 1], k)
  <2> TAKE k \in 0..n
  <2>1. CASE k = 0
    <3> HIDE DEF G, Next1, S, V
    <3>1. g[0] = buf
      BY <1>5
    <3> QED
      BY <2>1, <3>1
  <2>2. CASE k # 0
    <3>1. k \in 1..n /\ k - 1 \in 0..n
      BY <1>1, <2>2
    <3>2. g[k - 1] \in S
      BY <3>1
    <3>3. g[k] = G[k][g[k - 1]]
      <4> HIDE DEF G, Next1, S, V
      <4> QED
        BY <1>5, <3>1
    <3> HIDE DEF Next1, S
    <3> QED
      BY <2>2, <3>1, <3>2, <3>3
  <2> QED
    BY <2>1, <2>2
<1>7. Sat(g)
  <2> DEFINE H == [k \in 0..n |-> IF k = 0 THEN buf ELSE Next1(g[k - 1], k)]
  <2>1. \A k \in 0..n : g[k] = H[k]
    BY <1>6
  <2>2. g = [k \in 0..n |-> g[k]] /\ H = [k \in 0..n |-> H[k]]
    OBVIOUS
  <2> HIDE DEF H
  <2>3. g = H
    BY <2>1, <2>2
  <2> QED
    BY <2>3 DEF H
<1>8. MovedFn(buf, tgt, src) = CHOOSE f : Sat(f)
  BY DEF MovedFn
<1>9. Sat(CHOOSE f : Sat(f))
  BY <1>7
<1>10. MovedFn(buf, tgt, src) = [k \in 0..n |-> IF k = 0 THEN buf ELSE Next1(MovedFn(buf, tgt, src)[k - 1], k)]
  BY <1>8, <1>9
<1> HIDE DEF Next1, n
<1>11. 0 \in 0..n /\ \A k \in 1..n : k \in 0..n /\ k # 0
  BY <1>1
<1>12. MovedFn(buf, tgt, src)[0] = buf
       /\ \A k \in 1..n : MovedFn(buf, tgt, src)[k] = Next1(MovedFn(buf, tgt, src)[k - 1], k)
  BY <1>10, <1>11
<1> QED
  BY <1>12 DEF Next1, n

\* Hence a move lands, by either strategy.
LEMMA MoveIs ==
  ASSUME NEW buf, NEW tgt \in Seq(Locs), NEW src \in Seq(Locs), Len(src) = Len(tgt), Distinct(tgt),
         \A i, j \in 1..Len(tgt) : tgt[i] = src[j] => j <= i
  PROVE  Lands(MoveBuffer(buf, tgt, src), buf, tgt, Get(buf, src))
<1> DEFINE n == Pieces(tgt, Cap)
           f == MovedFn(buf, tgt, src)
           val == Get(buf, src)
           c == [k \in 1..n |-> Get(f[k - 1], Piece(src, k, Cap))]
<1>1. MoveBuffer(buf, tgt, src) = IF native THEN Put(buf, tgt, val) ELSE f[n]
  BY DEF MoveBuffer, MovedFn
<1>2. Lands(Put(buf, tgt, val), buf, tgt, val)
  BY PutIs
<1>3. Lands(f[n], buf, tgt, val)
  <2>1. f[0] = buf /\ \A k \in 1..n : f[k] = Put(f[k - 1], Piece(tgt, k, Cap), Get(f[k - 1], Piece(src, k, Cap)))
    BY MovedFnIs
  <2> HIDE DEF f
  <2>2. \A k \in 1..n : c[k] = Get(f[k - 1], Piece(src, k, Cap))
    OBVIOUS
  <2>3. ASSUME NEW k \in 1..n,
               \A s \in Locs : (\A i \in 1..Len(tgt) : i <= (k - 1) * Cap => tgt[i] # s) => f[k - 1][s] = buf[s],
               NEW j \in 1..Len(Piece(tgt, k, Cap))
        PROVE  c[k][j] = val[(k - 1) * Cap + j]
    <3> DEFINE lo == (k - 1) * Cap
               p  == Piece(src, k, Cap)
    <3>1. k \in 1..Pieces(tgt, Cap) /\ k \in 1..Pieces(src, Cap) /\ Cap \in Nat \ {0}
      BY PoolSizes DEF Pieces
    <3> HIDE <2>3
    <3>2. lo \in Nat /\ Len(Piece(tgt, k, Cap)) = IF k * Cap < Len(tgt) THEN Cap ELSE Len(tgt) - lo
      <4> HIDE DEF c, f, val
      <4>1. tgt \in Seq(Locs) /\ k \in 1..Pieces(tgt, Cap) /\ Cap \in Nat \ {0}
        BY <3>1
      <4>2. /\ (k - 1) * Cap \in Nat
            /\ Len(Piece(tgt, k, Cap)) = IF k * Cap < Len(tgt) THEN Cap ELSE Len(tgt) - (k - 1) * Cap
        BY ONLY <4>1, PieceIs
      <4> QED
        BY <4>2
    <3>3. /\ Len(p) = IF k * Cap < Len(src) THEN Cap ELSE Len(src) - lo
          /\ \A i \in 1..Len(p) : lo + i \in 1..Len(src) /\ p[i] = src[lo + i]
      <4> HIDE DEF c, f, val
      <4>1. src \in Seq(Locs) /\ k \in 1..Pieces(src, Cap) /\ Cap \in Nat \ {0}
        BY <3>1
      <4>2. /\ Len(Piece(src, k, Cap)) = IF k * Cap < Len(src) THEN Cap ELSE Len(src) - (k - 1) * Cap
            /\ \A i \in 1..Len(Piece(src, k, Cap)) :
                 (k - 1) * Cap + i \in 1..Len(src) /\ Piece(src, k, Cap)[i] = src[(k - 1) * Cap + i]
        BY ONLY <4>1, PieceIs
      <4> QED
        BY <4>2
    <3>4. Len(p) = Len(Piece(tgt, k, Cap))
      BY <3>2, <3>3
    <3>11. Len(tgt) \in Nat /\ Len(src) \in Nat
      BY LenProperties
    <3> HIDE DEF p, c, val
    <3>5. j \in 1..Len(p) /\ lo + j \in 1..Len(src) /\ p[j] = src[lo + j] /\ lo + j > lo
      <4> HIDE DEF lo
      <4>1. j \in 1..Len(p)
        BY <3>4
      <4>2. lo + j \in 1..Len(src) /\ p[j] = src[lo + j]
        BY <3>3, <4>1
      <4>3. lo + j > lo
        <5>1. j \in Nat /\ j > 0
          BY <2>3
        <5> QED
          BY <3>2, <5>1
      <4> QED
        BY <4>1, <4>2, <4>3
    <3>6. c[k][j] = f[k - 1][src[lo + j]]
      <4>1. c[k] = Get(f[k - 1], p)
        BY <2>2 DEF p
      <4>2. Get(f[k - 1], p)[j] = f[k - 1][p[j]]
        BY <3>5 DEF Get
      <4> QED
        BY <3>5, <4>1, <4>2
    <3>7. src[lo + j] \in Locs
      BY <3>5, ElementOfSeq
    <3>8. \A i \in 1..Len(tgt) : i <= lo => tgt[i] # src[lo + j]
      <4> HIDE DEF lo
      <4> TAKE i \in 1..Len(tgt)
      <4> HAVE i <= lo
      <4>1. ~(lo + j <= i) /\ lo + j \in 1..Len(tgt)
        BY <3>2, <3>5
      <4> QED
        BY <4>1
    <3>9. f[k - 1][src[lo + j]] = buf[src[lo + j]]
      BY <2>3, <3>7, <3>8
    <3>10. val[lo + j] = buf[src[lo + j]]
      BY <3>5 DEF Get, val
    <3> QED
      BY <3>6, <3>9, <3>10
  <2>4. Cap \in Nat \ {0}
    BY PoolSizes
  <2>5. \A k \in 1..n : f[k] = Put(f[k - 1], Piece(tgt, k, Cap), c[k])
    BY <2>1, <2>2
  <2> HIDE DEF c, val
  <2>6. Carries(f, c, buf, tgt, Cap, val)
    BY <2>3 DEF Carries
  <2>7. InPieces(f, c, buf, tgt, Cap)
    BY <2>1, <2>5 DEF InPieces
  <2> QED
    BY <2>4, <2>6, <2>7, PiecesLand
<1> QED
  BY <1>1, <1>2, <1>3

\* Loading a copy, chunk by chunk.
LoadedFn(buf, copy, to) ==
  CHOOSE f : f = [k \in 0..Pieces(to, ChunkSize) |->
    IF k = 0 THEN buf ELSE Put(f[k - 1], Piece(to, k, ChunkSize), copy[k])]

\* So with the host copy, chunk after chunk.
LEMMA LoadedFnIs ==
  ASSUME NEW buf, NEW copy, NEW to, to \in Seq(Locs)
  PROVE  /\ LoadedFn(buf, copy, to)[0] = buf
         /\ \A k \in 1..Pieces(to, ChunkSize) :
              LoadedFn(buf, copy, to)[k] =
                Put(LoadedFn(buf, copy, to)[k - 1], Piece(to, k, ChunkSize), copy[k])
<1> DEFINE n == Pieces(to, ChunkSize)
           V == {buf[s] : s \in Locs} \cup UNION {{copy[k][j] : j \in 1..ChunkSize} : k \in 1..n}
           S == [Locs -> V] \cup {buf}
           Next1(x, k) == Put(x, Piece(to, k, ChunkSize), copy[k])
           G == [k \in 1..n |-> [x \in S |-> Next1(x, k)]]
           Sat(f) == f = [k \in 0..n |-> IF k = 0 THEN buf ELSE Next1(f[k - 1], k)]
<1>1. ChunkSize \in Nat \ {0} /\ n \in Nat
  BY PoolSizes, PiecesCover
<1>2. ASSUME NEW k \in 1..n, NEW x \in S PROVE Next1(x, k) \in [Locs -> V]
  <2> DEFINE p == Piece(to, k, ChunkSize)
  <2>1. Len(p) \in 1..ChunkSize
    BY <1>1, PieceIs
  <2> HIDE DEF p
  <2>2. \A s \in Locs : x[s] \in V
    OBVIOUS
  <2>3. \A j \in 1..Len(p) : copy[k][j] \in V
    <3> HIDE DEF n
    <3>1. \A j \in 1..Len(p) : j \in 1..ChunkSize
      BY <1>1, <2>1
    <3> QED
      BY <3>1
  <2>4. Put(x, p, copy[k]) \in [Locs -> V]
    BY <2>2, <2>3, PutType
  <2> QED
    BY <2>4 DEF p
<1>3. G \in [1..n -> [S -> S]]
  <2> HIDE DEF Next1, n
  <2>1. \A k \in 1..n : \A x \in S : Next1(x, k) \in S
    BY <1>2
  <2> QED
    BY <2>1
<1>4. buf \in S
  OBVIOUS
<1>5. PICK g \in [0..n -> S] : g[0] = buf /\ \A k \in 1..n : g[k] = G[k][g[k - 1]]
  <2> HIDE DEF G, S, n, V, Next1, Sat
  <2>1. n \in Nat /\ buf \in S /\ G \in [1..n -> [S -> S]]
    BY <1>1, <1>3, <1>4
  <2> QED
    BY ONLY <2>1, StepByStep
<1>6. \A k \in 0..n : g[k] = IF k = 0 THEN buf ELSE Next1(g[k - 1], k)
  <2> TAKE k \in 0..n
  <2>1. CASE k = 0
    <3> HIDE DEF G, Next1, S, V
    <3>1. g[0] = buf
      BY <1>5
    <3> QED
      BY <2>1, <3>1
  <2>2. CASE k # 0
    <3>1. k \in 1..n /\ k - 1 \in 0..n
      BY <1>1, <2>2
    <3>2. g[k - 1] \in S
      BY <3>1
    <3>3. g[k] = G[k][g[k - 1]]
      <4> HIDE DEF G, Next1, S, V
      <4> QED
        BY <1>5, <3>1
    <3> HIDE DEF Next1, S
    <3> QED
      BY <2>2, <3>1, <3>2, <3>3
  <2> QED
    BY <2>1, <2>2
<1>7. Sat(g)
  <2> DEFINE H == [k \in 0..n |-> IF k = 0 THEN buf ELSE Next1(g[k - 1], k)]
  <2>1. \A k \in 0..n : g[k] = H[k]
    BY <1>6
  <2>2. g = [k \in 0..n |-> g[k]] /\ H = [k \in 0..n |-> H[k]]
    OBVIOUS
  <2> HIDE DEF H
  <2>3. g = H
    BY <2>1, <2>2
  <2> HIDE DEF Next1
  <2> QED
    BY <2>3 DEF H
<1>8. LoadedFn(buf, copy, to) = CHOOSE f : Sat(f)
  BY DEF LoadedFn
<1> HIDE DEF Next1
<1>9. Sat(CHOOSE f : Sat(f))
  BY <1>7
<1>10. LoadedFn(buf, copy, to) = [k \in 0..n |-> IF k = 0 THEN buf ELSE Next1(LoadedFn(buf, copy, to)[k - 1], k)]
  BY <1>8, <1>9
<1> HIDE DEF n
<1>11. 0 \in 0..n /\ \A k \in 1..n : k \in 0..n /\ k # 0
  BY <1>1
<1>12. LoadedFn(buf, copy, to)[0] = buf
       /\ \A k \in 1..n : LoadedFn(buf, copy, to)[k] = Next1(LoadedFn(buf, copy, to)[k - 1], k)
  BY <1>10, <1>11
<1> QED
  BY <1>12 DEF Next1, n

\* A load lands what the chunks hold.
LEMMA LoadIs ==
  ASSUME NEW buf, NEW copy, NEW to \in Seq(Locs), Distinct(to), NEW val,
         \A k \in 1..Pieces(to, ChunkSize) : \A j \in 1..Len(Piece(to, k, ChunkSize)) :
           copy[k][j] = val[(k - 1) * ChunkSize + j]
  PROVE  Lands(LoadBuffer(buf, copy, to), buf, to, val)
<1> DEFINE n == Pieces(to, ChunkSize)
           f == LoadedFn(buf, copy, to)
<1>1. LoadBuffer(buf, copy, to) = f[n]
  BY DEF LoadBuffer, LoadedFn
<1>2. f[0] = buf /\ \A k \in 1..n : f[k] = Put(f[k - 1], Piece(to, k, ChunkSize), copy[k])
  BY LoadedFnIs
<1>3. ChunkSize \in Nat \ {0}
  BY PoolSizes
<1> HIDE DEF f
<1>4. Carries(f, copy, buf, to, ChunkSize, val)
  BY DEF Carries
<1>5. InPieces(f, copy, buf, to, ChunkSize)
  BY <1>2 DEF InPieces
<1> QED
  BY <1>1, <1>3, <1>4, <1>5, PiecesLand

-----------------------------------------------------------------------------
(* Batches                                                                   *)

\* A function on 1..n is a sequence of n.
LEMMA ListIs ==
  ASSUME NEW S, NEW n \in Nat, NEW s \in [1..n -> S]
  PROVE  s \in Seq(S) /\ Len(s) = n /\ DOMAIN s = 1..n
OBVIOUS

\* A batch lists a set of requests, each once.
LEMMA BatchIs ==
  ASSUME NEW T \in SUBSET Reqs, NEW B \in SetToSeqs(T)
  PROVE  /\ Len(B) \in Nat /\ DOMAIN B = 1..Len(B) /\ Len(B) = Cardinality(T)
         /\ \A i \in 1..Len(B) : B[i] \in T /\ B[i] \in Reqs
         /\ \A i, k \in 1..Len(B) : B[i] = B[k] => i = k
         /\ \A r \in T : \E i \in 1..Len(B) : B[i] = r
<1> DEFINE n == Cardinality(T)
<1>1. IsFiniteSet(T) /\ n \in Nat
  BY PoolSizes, FS_Subset, FS_CardinalityType
<1>2. B \in [1..n -> T] /\ \A i, k \in 1..n : i # k => B[i] # B[k]
  BY DEF SetToSeqs
<1> HIDE DEF n
<1>3. Cardinality(1..n) = n
  <2>1. Cardinality(1..n) = IF 1 > n THEN 0 ELSE n - 1 + 1
    BY <1>1, FS_Interval
  <2> QED
    BY <1>1, <2>1
<1>4. B \in Injection(1..n, T)
  BY <1>2 DEF Injection, IsInjective
<1>5. B \in Surjection(1..n, T)
  BY <1>1, <1>3, <1>4, FS_Injection DEF n
<1>6. \A r \in T : \E i \in 1..n : B[i] = r
  BY <1>5 DEF Surjection
<1>7. Len(B) = n /\ DOMAIN B = 1..n
  BY <1>1, <1>2
<1> QED
  BY <1>1, <1>2, <1>6, <1>7 DEF n

\* Running totals.
SumsFn(w) == CHOOSE s : s = [i \in 0..Len(w) |-> IF i = 0 THEN 0 ELSE s[i - 1] + w[i]]

\* The running sums exist and are these.
LEMMA SumsAre ==
  ASSUME NEW w, NEW n, n \in Nat, Len(w) = n, \A i \in 1..n : w[i] \in Nat
  PROVE  /\ Sums(w) \in [0..n -> Nat] /\ Sums(w)[0] = 0
         /\ \A i \in 1..n : Sums(w)[i] = Sums(w)[i - 1] + w[i]
<1> DEFINE G == [k \in 1..n |-> [x \in Nat |-> x + w[k]]]
           Sat(f) == f = [i \in 0..n |-> IF i = 0 THEN 0 ELSE f[i - 1] + w[i]]
<1>1. G \in [1..n -> [Nat -> Nat]]
  OBVIOUS
<1>2. PICK g \in [0..n -> Nat] : g[0] = 0 /\ \A k \in 1..n : g[k] = G[k][g[k - 1]]
  <2> DEFINE z == 0
             NN == Nat
  <2> HIDE DEF G, Sat
  <2>1. n \in Nat /\ z \in NN /\ G \in [1..n -> [NN -> NN]]
    BY <1>1
  <2> HIDE DEF z, NN
  <2>2. \E g \in [0..n -> NN] : g[0] = z /\ \A k \in 1..n : g[k] = G[k][g[k - 1]]
    BY ONLY <2>1, StepByStep
  <2> QED
    BY <2>2 DEF z, NN
<1>3. ASSUME NEW k \in 1..n PROVE g[k] = g[k - 1] + w[k]
  <2>1. k - 1 \in 0..n /\ g[k - 1] \in Nat
    OBVIOUS
  <2>2. g[k] = G[k][g[k - 1]]
    <3> HIDE DEF G
    <3> QED
      BY <1>2
  <2>3. G[k][g[k - 1]] = g[k - 1] + w[k]
    BY <2>1
  <2> QED
    BY <2>2, <2>3
<1>4. g[0] = 0
  <2> HIDE DEF G
  <2> QED
    BY <1>2
<1>5. Sat(g)
  <2> DEFINE H == [i \in 0..n |-> IF i = 0 THEN 0 ELSE g[i - 1] + w[i]]
  <2>1. ASSUME NEW i \in 0..n PROVE g[i] = H[i]
    <3>1. CASE i = 0
      BY <1>4, <3>1
    <3>2. CASE i # 0
      <4>1. i \in 1..n
        BY <3>2
      <4> QED
        BY <1>3, <3>2, <4>1
    <3> QED
      BY <3>1, <3>2
  <2>2. g = [i \in 0..n |-> g[i]] /\ H = [i \in 0..n |-> H[i]]
    OBVIOUS
  <2> HIDE DEF H
  <2>3. g = H
    BY <2>1, <2>2
  <2> QED
    BY <2>3 DEF H
<1>6. Sums(w) = CHOOSE f : Sat(f)
  <2>1. SumsFn(w) = CHOOSE f : Sat(f)
    BY DEF SumsFn
  <2> QED
    BY <2>1 DEF Sums, SumsFn
<1>7. Sat(CHOOSE f : Sat(f))
  BY <1>5
<1>8. Sums(w) = [i \in 0..n |-> IF i = 0 THEN 0 ELSE Sums(w)[i - 1] + w[i]]
  BY <1>6, <1>7
<1>9. Sums(w) = g
  <2> DEFINE s == Sums(w)
             Bad == {i \in 0..n : s[i] # g[i]}
  <2>1. s[0] = 0 /\ \A i \in 1..n : s[i] = s[i - 1] + w[i]
    <3> HIDE DEF s
    <3>1. s = [i \in 0..n |-> IF i = 0 THEN 0 ELSE s[i - 1] + w[i]]
      BY <1>8 DEF s
    <3>2. 0 \in 0..n /\ \A i \in 1..n : i \in 0..n /\ i # 0
      OBVIOUS
    <3> QED
      BY <3>1, <3>2
  <2>5. s = [i \in 0..n |-> s[i]] /\ g = [i \in 0..n |-> g[i]]
    BY <1>8
  <2> HIDE DEF s
  <2>2. Bad = {}
    <3> SUFFICES ASSUME Bad # {} PROVE FALSE
      OBVIOUS
    <3>1. PICK i \in Bad : \A y \in Bad : i <= y
      <4>1. Bad \in SUBSET Nat
        OBVIOUS
      <4> QED
        BY <4>1, Smallest
    <3>2. i \in 0..n /\ s[i] # g[i]
      BY <3>1
    <3>3. i # 0
      BY <1>4, <2>1, <3>2
    <3>4. i \in 1..n /\ i - 1 \in 0..n /\ ~(i <= i - 1)
      BY <3>2, <3>3
    <3>5. s[i - 1] = g[i - 1]
      BY <3>1, <3>4
    <3> QED
      BY <1>3, <2>1, <3>2, <3>4, <3>5
  <2>3. \A i \in 0..n : s[i] = g[i]
    BY <2>2
  <2>4. s = g
    BY <2>3, <2>5
  <2> QED
    BY <2>4 DEF s
<1> HIDE DEF G
<1> QED
  BY <1>3, <1>4, <1>9

\* They grow.
LEMMA SumsGrow ==
  ASSUME NEW w, NEW n, n \in Nat, Len(w) = n, \A i \in 1..n : w[i] \in Nat,
         NEW i \in 0..n, NEW k \in 0..n, i <= k
  PROVE  Sums(w)[i] <= Sums(w)[k]
<1> DEFINE s == Sums(w)
           Bad == {x \in i..k : ~(s[i] <= s[x])}
<1>1. s \in [0..n -> Nat] /\ \A x \in 1..n : s[x] = s[x - 1] + w[x]
  BY SumsAre
<1> HIDE DEF s
<1>2. Bad = {}
  <2> SUFFICES ASSUME Bad # {} PROVE FALSE
    OBVIOUS
  <2>1. PICK x \in Bad : \A y \in Bad : x <= y
    <3>1. Bad \in SUBSET Nat
      OBVIOUS
    <3> QED
      BY <3>1, Smallest
  <2>2. x \in i..k /\ ~(s[i] <= s[x])
    BY <2>1
  <2>3. x # i
    BY <1>1, <2>2
  <2>4. x \in 1..n /\ x - 1 \in 0..n /\ x - 1 \in i..k /\ ~(x <= x - 1)
    BY <2>2, <2>3
  <2>5. s[i] <= s[x - 1]
    BY <2>1, <2>4
  <2>6. s[x - 1] <= s[x]
    <3>1. s[x] = s[x - 1] + w[x] /\ s[x - 1] \in Nat /\ w[x] \in Nat
      BY <1>1, <2>4
    <3> QED
      BY <3>1
  <2>7. s[i] \in Nat /\ s[x - 1] \in Nat /\ s[x] \in Nat
    BY <1>1, <2>4
  <2> QED
    BY <2>2, <2>5, <2>6, <2>7
<1>3. k \in i..k
  OBVIOUS
<1>4. s[i] <= s[k]
  BY <1>2, <1>3
<1> QED
  BY <1>4 DEF s

\* Each number up to the total is in the share of exactly one.
LEMMA ShareOf ==
  ASSUME NEW w, NEW n, n \in Nat, Len(w) = n, \A i \in 1..n : w[i] \in Nat
  PROVE  /\ \A k \in 1..Sums(w)[n] : \E i \in 1..n : k \in Sums(w)[i - 1] + 1..Sums(w)[i]
         /\ \A i, j \in 1..n : \A k : k \in Sums(w)[i - 1] + 1..Sums(w)[i] /\ k \in Sums(w)[j - 1] + 1..Sums(w)[j]
                => i = j
<1> DEFINE s == Sums(w)
<1>1. s \in [0..n -> Nat] /\ s[0] = 0
  BY SumsAre
<1>2. \A i, k \in 0..n : i <= k => s[i] <= s[k]
  BY SumsGrow
<1> HIDE DEF s
<1>3. ASSUME NEW k \in 1..s[n] PROVE \E i \in 1..n : k \in s[i - 1] + 1..s[i]
  <2> DEFINE T == {i \in 0..n : k <= s[i]}
  <2>1. T \in SUBSET Nat /\ n \in T
    OBVIOUS
  <2>2. PICK i \in T : \A y \in T : i <= y
    <3>1. T # {}
      BY <2>1
    <3> HIDE DEF T
    <3> QED
      BY <2>1, <3>1, Smallest
  <2>3. i \in 0..n /\ k <= s[i] /\ k >= 1 /\ k \in Nat
    BY <1>1, <2>2
  <2>4. i # 0
    BY <1>1, <2>3
  <2>5. i \in 1..n /\ i - 1 \in 0..n /\ ~(i <= i - 1)
    BY <2>3, <2>4
  <2>6. ~(k <= s[i - 1])
    BY <2>2, <2>5
  <2>7. s[i - 1] \in Nat /\ s[i] \in Nat
    BY <1>1, <2>5
  <2> HIDE DEF T
  <2>8. k \in s[i - 1] + 1..s[i]
    BY <2>3, <2>6, <2>7
  <2> QED
    BY <2>5, <2>8
<1>4. ASSUME NEW i \in 1..n, NEW j \in 1..n, NEW k, k \in s[i - 1] + 1..s[i], k \in s[j - 1] + 1..s[j], i < j
      PROVE  FALSE
  <2>1. i \in 0..n /\ j - 1 \in 0..n /\ i <= j - 1 /\ i - 1 \in 0..n /\ j \in 0..n
    BY <1>4
  <2>2. s[i] <= s[j - 1] /\ s[i] \in Nat /\ s[j - 1] \in Nat /\ s[i - 1] \in Nat /\ s[j] \in Nat
    BY <1>1, <1>2, <2>1
  <2> QED
    BY <1>4, <2>2
<1>5. ASSUME NEW i \in 1..n, NEW j \in 1..n, NEW k, k \in s[i - 1] + 1..s[i] /\ k \in s[j - 1] + 1..s[j]
      PROVE  i = j
  <2>1. i < j \/ j < i \/ i = j
    OBVIOUS
  <2> QED
    BY <1>4, <1>5, <2>1
<1> QED
  BY <1>3, <1>5 DEF s

\* o is f[r] for each r of T, each from its own place.
InBatch(o, T, f, at) ==
  /\ Len(o) \in Nat /\ o = [k \in 1..Len(o) |-> o[k]]
  /\ \A r \in T : \A j \in 1..Len(f[r]) : at[r] + j \in 1..Len(o) /\ o[at[r] + j] = f[r][j]
  /\ \A k \in 1..Len(o) : \E r \in T : \E j \in 1..Len(f[r]) : k = at[r] + j /\ o[k] = f[r][j]

\* Where each request of the batch begins.
WidthOf(B, f) == [i \in 1..Len(B) |-> Len(f[B[i]])]
StartOf(T, B, w) == [r \in T |-> Sums(w)[(CHOOSE i \in 1..Len(B) : B[i] = r) - 1]]

\* A batch laid end to end has every request's share in one place, whatever the order.
LEMMA OverBatchIs ==
  ASSUME NEW T \in SUBSET Reqs, NEW B \in SetToSeqs(T), NEW f, \A r \in T : Len(f[r]) \in Nat
  PROVE  /\ InBatch(OverBatch(B, f), T, f, StartOf(T, B, WidthOf(B, f)))
         /\ \A r \in T : StartOf(T, B, WidthOf(B, f))[r] \in Nat
         /\ Len(OverBatch(B, f)) = Sums(WidthOf(B, f))[Len(B)]
<1> DEFINE n  == Len(B)
           w  == WidthOf(B, f)
           s  == Sums(w)
           at == StartOf(T, B, w)
           o  == OverBatch(B, f)
           Of(k) == CHOOSE i \in 1..n : k \in s[i - 1] + 1..s[i]
<1>1. /\ n \in Nat /\ \A i \in 1..n : B[i] \in T
      /\ \A i, k \in 1..n : B[i] = B[k] => i = k
      /\ \A r \in T : \E i \in 1..n : B[i] = r
  BY BatchIs
<1>2. w = [i \in 1..n |-> Len(f[B[i]])]
  BY DEF WidthOf
<1>3. o = [k \in 1..s[n] |-> f[B[Of(k)]][k - s[Of(k) - 1]]]
  BY DEF OverBatch, WidthOf
<1> HIDE DEF w, o, n
<1>4. Len(w) = n /\ \A i \in 1..n : w[i] = Len(f[B[i]]) /\ w[i] \in Nat
  BY <1>1, <1>2
<1>5. s \in [0..n -> Nat] /\ s[0] = 0 /\ \A i \in 1..n : s[i] = s[i - 1] + w[i]
  <2>1. n \in Nat /\ Len(w) = n /\ \A i \in 1..n : w[i] \in Nat
    BY <1>1, <1>4
  <2> QED
    BY ONLY <2>1, SumsAre
<1>6. /\ \A k \in 1..s[n] : \E i \in 1..n : k \in s[i - 1] + 1..s[i]
      /\ \A i, j \in 1..n : \A k : k \in s[i - 1] + 1..s[i] /\ k \in s[j - 1] + 1..s[j] => i = j
  <2>1. n \in Nat /\ Len(w) = n /\ \A i \in 1..n : w[i] \in Nat
    BY <1>1, <1>4
  <2>2. \A k \in 1..s[n] : \E i \in 1..n : k \in s[i - 1] + 1..s[i]
    BY ONLY <2>1, ShareOf
  <2>3. \A i, j \in 1..n : \A k : k \in s[i - 1] + 1..s[i] /\ k \in s[j - 1] + 1..s[j] => i = j
    BY ONLY <2>1, ShareOf
  <2> QED
    BY <2>2, <2>3
<1>7. \A i, k \in 0..n : i <= k => s[i] <= s[k]
  BY <1>1, <1>4, SumsGrow
<1>8. \A i \in 1..n : at[B[i]] = s[i - 1]
  <2> TAKE i \in 1..n
  <2>1. (CHOOSE j \in 1..n : B[j] = B[i]) = i
    BY <1>1
  <2>2. B[i] \in T
    BY <1>1
  <2> HIDE DEF s
  <2> QED
    BY <2>1, <2>2 DEF StartOf, n, s
<1> HIDE DEF s, at
<1>9. s[n] \in Nat /\ Len(o) = s[n] /\ o = [k \in 1..s[n] |-> o[k]]
  <2>1. s[n] \in Nat
    BY <1>1, <1>5
  <2> HIDE DEF Of
  <2> QED
    BY <1>3, <2>1
<1>10. ASSUME NEW i \in 1..n, NEW j \in 1..Len(f[B[i]])
       PROVE  s[i - 1] + j \in 1..s[n] /\ o[s[i - 1] + j] = f[B[i]][j]
  <2> DEFINE k == s[i - 1] + j
  <2>1. /\ i - 1 \in 0..n /\ i \in 0..n /\ s[i - 1] \in Nat /\ s[i] \in Nat /\ s[i] = s[i - 1] + w[i]
        /\ w[i] = Len(f[B[i]]) /\ w[i] \in Nat /\ s[i] <= s[n] /\ s[n] \in Nat
    BY <1>1, <1>4, <1>5, <1>7
  <2>2. j \in 1..w[i]
    BY <2>1
  <2>3. k \in s[i - 1] + 1..s[i] /\ k \in 1..s[n] /\ k - s[i - 1] = j
    BY <2>1, <2>2
  <2> HIDE DEF k
  <2>4. Of(k) = i
    BY <1>6, <2>3
  <2>5. o[k] = f[B[i]][k - s[i - 1]]
    <3> HIDE DEF Of
    <3> QED
      BY <1>3, <2>3, <2>4
  <2> QED
    BY <2>3, <2>5 DEF k
<1>11. ASSUME NEW k \in 1..s[n]
       PROVE  \E i \in 1..n : \E j \in 1..Len(f[B[i]]) : k = s[i - 1] + j
  <2>1. PICK i \in 1..n : k \in s[i - 1] + 1..s[i]
    BY <1>6
  <2>2. /\ i - 1 \in 0..n /\ s[i - 1] \in Nat /\ s[i] \in Nat /\ s[i] = s[i - 1] + w[i]
        /\ w[i] = Len(f[B[i]]) /\ w[i] \in Nat
    BY <1>1, <1>4, <1>5
  <2>3. k - s[i - 1] \in 1..w[i] /\ k = s[i - 1] + (k - s[i - 1])
    BY <2>1, <2>2
  <2> QED
    BY <2>2, <2>3
<1>12. \A r \in T : \A j \in 1..Len(f[r]) : at[r] + j \in 1..s[n] /\ o[at[r] + j] = f[r][j]
  <2> TAKE r \in T
  <2>1. PICK i \in 1..n : B[i] = r
    BY <1>1
  <2> QED
    BY <1>8, <1>10, <2>1
<1>13. \A k \in 1..s[n] : \E r \in T : \E j \in 1..Len(f[r]) : k = at[r] + j /\ o[k] = f[r][j]
  <2> TAKE k \in 1..s[n]
  <2>1. PICK i \in 1..n : \E j \in 1..Len(f[B[i]]) : k = s[i - 1] + j
    BY <1>11
  <2>2. PICK j \in 1..Len(f[B[i]]) : k = s[i - 1] + j
    BY <2>1
  <2>3. B[i] \in T /\ at[B[i]] = s[i - 1]
    BY <1>1, <1>8
  <2>4. o[k] = f[B[i]][j]
    BY <1>10, <2>2
  <2>5. k = at[B[i]] + j
    BY <2>2, <2>3
  <2> QED
    BY <2>3, <2>4, <2>5
<1>14. \A r \in T : at[r] \in Nat
  <2> TAKE r \in T
  <2>1. PICK i \in 1..n : B[i] = r
    BY <1>1
  <2>2. i - 1 \in 0..n
    BY <1>1
  <2> QED
    BY <1>5, <1>8, <2>1, <2>2
<1>15. InBatch(o, T, f, at)
  BY <1>9, <1>12, <1>13 DEF InBatch
<1> QED
  BY <1>9, <1>14, <1>15 DEF o, at, s, w, n

\* Two lists for every request of a batch, of the same lengths.
LEMMA TwoOverBatch ==
  ASSUME NEW T \in SUBSET Reqs, NEW B \in SetToSeqs(T), NEW f, NEW g,
         \A r \in T : Len(f[r]) \in Nat /\ Len(g[r]) = Len(f[r])
  PROVE  \E at : /\ InBatch(OverBatch(B, f), T, f, at) /\ InBatch(OverBatch(B, g), T, g, at)
                 /\ \A r \in T : at[r] \in Nat
                 /\ Len(OverBatch(B, g)) = Len(OverBatch(B, f))
<1>1. WidthOf(B, f) = WidthOf(B, g)
  <2>1. \A i \in 1..Len(B) : B[i] \in T
    BY BatchIs
  <2>2. \A i \in 1..Len(B) : Len(f[B[i]]) = Len(g[B[i]])
    BY <2>1
  <2> QED
    BY <2>2 DEF WidthOf
<1>2. /\ InBatch(OverBatch(B, f), T, f, StartOf(T, B, WidthOf(B, f)))
      /\ \A r \in T : StartOf(T, B, WidthOf(B, f))[r] \in Nat
      /\ Len(OverBatch(B, f)) = Sums(WidthOf(B, f))[Len(B)]
  BY OverBatchIs
<1>3. /\ InBatch(OverBatch(B, g), T, g, StartOf(T, B, WidthOf(B, g)))
      /\ Len(OverBatch(B, g)) = Sums(WidthOf(B, g))[Len(B)]
  BY OverBatchIs
<1> QED
  BY <1>1, <1>2, <1>3

\* out is buf with every slot of to[r] set to what val[r] lists there.
LandsAll(out, buf, T, to, val) ==
  /\ \A r \in T : \A j \in 1..Len(to[r]) : out[to[r][j]] = val[r][j]
  /\ \A s \in Locs : (\A r \in T : \A j \in 1..Len(to[r]) : to[r][j] # s) => out[s] = buf[s]

AllDistinct(T, to) ==
  \A r, q \in T : \A i \in 1..Len(to[r]), j \in 1..Len(to[q]) : to[r][i] = to[q][j] => r = q /\ i = j

\* The slots of a batch are as many as its requests list.
LEMMA BatchSlots ==
  ASSUME NEW T \in SUBSET Reqs, NEW f, NEW o, NEW at, InBatch(o, T, f, at),
         \A r \in T : at[r] \in Nat /\ f[r] \in Seq(Locs), AllDistinct(T, f)
  PROVE  o \in Seq(Locs) /\ Distinct(o)
<1> DEFINE n == Len(o)
<1>1. /\ n \in Nat /\ o = [k \in 1..n |-> o[k]]
      /\ \A r \in T : \A j \in 1..Len(f[r]) : at[r] + j \in 1..n /\ o[at[r] + j] = f[r][j]
      /\ \A k \in 1..n : \E r \in T : \E j \in 1..Len(f[r]) : k = at[r] + j /\ o[k] = f[r][j]
  BY DEF InBatch
<1> HIDE DEF n
<1>2. ASSUME NEW k \in 1..n PROVE o[k] \in Locs
  <2>1. PICK r \in T : \E j \in 1..Len(f[r]) : k = at[r] + j /\ o[k] = f[r][j]
    BY <1>1
  <2> QED
    BY <2>1, ElementOfSeq
<1>3. o \in [1..n -> Locs]
  BY <1>1, <1>2
<1>4. ASSUME NEW k \in 1..n, NEW l \in 1..n, o[k] = o[l] PROVE k = l
  <2>1. PICK r \in T : \E j \in 1..Len(f[r]) : k = at[r] + j /\ o[k] = f[r][j]
    BY <1>1
  <2>2. PICK i \in 1..Len(f[r]) : k = at[r] + i /\ o[k] = f[r][i]
    BY <2>1
  <2>3. PICK q \in T : \E j \in 1..Len(f[q]) : l = at[q] + j /\ o[l] = f[q][j]
    BY <1>1
  <2>4. PICK j \in 1..Len(f[q]) : l = at[q] + j /\ o[l] = f[q][j]
    BY <2>3
  <2>5. r = q /\ i = j
    BY <1>4, <2>2, <2>4 DEF AllDistinct
  <2> QED
    BY <2>2, <2>4, <2>5
<1>5. o \in Seq(Locs)
  BY <1>1, <1>3, ListIs
<1>6. Distinct(o)
  BY <1>4 DEF Distinct, n
<1> QED
  BY <1>5, <1>6

\* A store over a batch lands every request's share.
LEMMA StoreBatchIs ==
  ASSUME NEW T \in SUBSET Reqs, NEW B \in SetToSeqs(T), NEW buf, NEW f, NEW g,
         \A r \in T : f[r] \in Seq(Locs) /\ Len(g[r]) = Len(f[r]), AllDistinct(T, f)
  PROVE  LandsAll(Put(buf, OverBatch(B, f), OverBatch(B, g)), buf, T, f, g)
<1> DEFINE o == OverBatch(B, f)
           v == OverBatch(B, g)
           out == Put(buf, o, v)
<1>1. \A r \in T : Len(f[r]) \in Nat
  BY LenProperties
<1>2. PICK at : InBatch(o, T, f, at) /\ InBatch(v, T, g, at) /\ \A r \in T : at[r] \in Nat
  BY <1>1, TwoOverBatch
<1> HIDE DEF o, v
<1>3. o \in Seq(Locs) /\ Distinct(o)
  BY <1>2, BatchSlots
<1>4. Lands(out, buf, o, v)
  BY <1>3, PutIs
<1> HIDE DEF out
<1>5. ASSUME NEW r \in T, NEW j \in 1..Len(f[r]) PROVE out[f[r][j]] = g[r][j]
  <2> DEFINE k == at[r] + j
  <2>1. k \in 1..Len(o) /\ o[k] = f[r][j]
    BY <1>2 DEF InBatch
  <2>2. v[k] = g[r][j]
    BY <1>2 DEF InBatch
  <2> HIDE DEF k
  <2>3. out[o[k]] = v[k]
    BY <1>4, <2>1 DEF Lands
  <2>4. o[k] = f[r][j]
    BY <2>1
  <2> QED
    BY <2>2, <2>3, <2>4, Zenon
<1>6. ASSUME NEW s \in Locs, \A r \in T : \A j \in 1..Len(f[r]) : f[r][j] # s PROVE out[s] = buf[s]
  <2>1. \A k \in 1..Len(o) : o[k] # s
    <3> TAKE k \in 1..Len(o)
    <3>1. PICK r \in T : \E j \in 1..Len(f[r]) : k = at[r] + j /\ o[k] = f[r][j]
      BY <1>2 DEF InBatch
    <3> QED
      BY <1>6, <3>1
  <2> QED
    BY <1>4, <2>1 DEF Lands
<1>7. LandsAll(out, buf, T, f, g)
  BY <1>5, <1>6 DEF LandsAll
<1> QED
  BY <1>7 DEF out, o, v

\* A move lands if no slot is written that a later one of the same request reads,
\* or another request.
InOrder(T, f, g) ==
  \A r, q \in T : \A i \in 1..Len(f[r]), j \in 1..Len(f[q]) : f[r][i] = g[q][j] => r = q /\ j <= i

\* A move over a batch does too.
LEMMA MoveBatchIs ==
  ASSUME NEW T \in SUBSET Reqs, NEW B \in SetToSeqs(T), NEW buf, NEW f, NEW g,
         \A r \in T : f[r] \in Seq(Locs) /\ g[r] \in Seq(Locs) /\ Len(g[r]) = Len(f[r]),
         AllDistinct(T, f), InOrder(T, f, g)
  PROVE  LandsAll(MoveBuffer(buf, OverBatch(B, f), OverBatch(B, g)), buf, T, f, [r \in T |-> Get(buf, g[r])])
<1> DEFINE o == OverBatch(B, f)
           v == OverBatch(B, g)
           out == MoveBuffer(buf, o, v)
<1>1. \A r \in T : Len(f[r]) \in Nat
  BY LenProperties
<1>2. PICK at : InBatch(o, T, f, at) /\ InBatch(v, T, g, at) /\ (\A r \in T : at[r] \in Nat) /\ Len(v) = Len(o)
  BY <1>1, TwoOverBatch
<1> HIDE DEF o, v
<1>3. o \in Seq(Locs) /\ Distinct(o)
  BY <1>2, BatchSlots
<1>4. v \in Seq(Locs)
  <2> DEFINE n == Len(v)
  <2>1. /\ n \in Nat /\ v = [k \in 1..n |-> v[k]]
        /\ \A k \in 1..n : \E r \in T : \E j \in 1..Len(g[r]) : k = at[r] + j /\ v[k] = g[r][j]
    BY <1>2 DEF InBatch
  <2> HIDE DEF n
  <2>2. ASSUME NEW k \in 1..n PROVE v[k] \in Locs
    <3>1. PICK r \in T : \E j \in 1..Len(g[r]) : k = at[r] + j /\ v[k] = g[r][j]
      BY <2>1
    <3> QED
      BY <3>1, ElementOfSeq
  <2>3. v \in [1..n -> Locs]
    BY <2>1, <2>2
  <2> QED
    BY <2>1, <2>3, ListIs
<1>5. ASSUME NEW k \in 1..Len(o), NEW l \in 1..Len(o), o[k] = v[l] PROVE l <= k
  <2>1. PICK r \in T : \E j \in 1..Len(f[r]) : k = at[r] + j /\ o[k] = f[r][j]
    BY <1>2 DEF InBatch
  <2>2. PICK i \in 1..Len(f[r]) : k = at[r] + i /\ o[k] = f[r][i]
    BY <2>1
  <2>3. PICK q \in T : \E j \in 1..Len(g[q]) : l = at[q] + j /\ v[l] = g[q][j]
    BY <1>2 DEF InBatch
  <2>4. PICK j \in 1..Len(g[q]) : l = at[q] + j /\ v[l] = g[q][j]
    BY <2>3
  <2>5. Len(g[q]) = Len(f[q])
    OBVIOUS
  <2>6. r = q /\ j <= i
    BY <1>5, <2>2, <2>4, <2>5 DEF InOrder
  <2>7. at[r] \in Nat /\ Len(f[r]) \in Nat
    BY <1>1, <1>2
  <2> QED
    BY <2>2, <2>4, <2>5, <2>6, <2>7
<1>6. Lands(out, buf, o, Get(buf, v))
  BY <1>2, <1>3, <1>4, <1>5, MoveIs
<1> HIDE DEF out
<1>7. ASSUME NEW r \in T, NEW j \in 1..Len(f[r]) PROVE out[f[r][j]] = Get(buf, g[r])[j]
  <2> DEFINE k == at[r] + j
  <2>1. k \in 1..Len(o) /\ o[k] = f[r][j]
    BY <1>2 DEF InBatch
  <2>2. j \in 1..Len(g[r]) /\ v[k] = g[r][j]
    BY <1>2 DEF InBatch
  <2> HIDE DEF k
  <2>3. Get(buf, v)[k] = buf[v[k]]
    BY <1>2, <2>1 DEF Get
  <2>4. Get(buf, g[r])[j] = buf[g[r][j]]
    BY <2>2 DEF Get
  <2>5. out[o[k]] = Get(buf, v)[k]
    BY <1>6, <2>1 DEF Lands
  <2>6. o[k] = f[r][j] /\ v[k] = g[r][j]
    BY <2>1, <2>2
  <2> QED
    BY <2>3, <2>4, <2>5, <2>6, Zenon
<1>8. ASSUME NEW s \in Locs, \A r \in T : \A j \in 1..Len(f[r]) : f[r][j] # s PROVE out[s] = buf[s]
  <2>1. \A k \in 1..Len(o) : o[k] # s
    <3> TAKE k \in 1..Len(o)
    <3>1. PICK r \in T : \E j \in 1..Len(f[r]) : k = at[r] + j /\ o[k] = f[r][j]
      BY <1>2 DEF InBatch
    <3> QED
      BY <1>8, <3>1
  <2> QED
    BY <1>6, <2>1 DEF Lands
<1>9. LandsAll(out, buf, T, f, [r \in T |-> Get(buf, g[r])])
  BY <1>7, <1>8 DEF LandsAll
<1> QED
  BY <1>9 DEF out, o, v

-----------------------------------------------------------------------------
(* Free pages                                                                *)

TakenFn(n) ==
  CHOOSE t : t = [i \in 0..n |-> IF i = 0 THEN {} ELSE t[i - 1] \cup {Least(FreePages \ t[i - 1])}]

\* The pages taken so far exist and are these.
LEMMA TakenFnIs ==
  ASSUME NEW n, n \in Nat
  PROVE  /\ TakenFn(n)[0] = {}
         /\ \A i \in 1..n : TakenFn(n)[i] = TakenFn(n)[i - 1] \cup {Least(FreePages \ TakenFn(n)[i - 1])}
<1> DEFINE V == {Least(X) : X \in SUBSET FreePages}
           S == SUBSET V
           z == {}
           More(x) == x \cup {Least(FreePages \ x)}
           G == [k \in 1..n |-> [x \in S |-> More(x)]]
           Sat(t) == t = [i \in 0..n |-> IF i = 0 THEN {} ELSE More(t[i - 1])]
<1>1. \A x \in S : More(x) \in S
  <2> TAKE x \in S
  <2>1. FreePages \ x \in SUBSET FreePages
    OBVIOUS
  <2>2. Least(FreePages \ x) \in V
    BY <2>1
  <2> HIDE DEF V
  <2> QED
    BY <2>2
<1>2. G \in [1..n -> [S -> S]]
  <2> HIDE DEF More, S
  <2> QED
    BY <1>1
<1>3. z \in S
  OBVIOUS
<1>4. PICK g \in [0..n -> S] : g[0] = z /\ \A k \in 1..n : g[k] = G[k][g[k - 1]]
  <2>1. n \in Nat /\ z \in S /\ G \in [1..n -> [S -> S]]
    BY <1>2, <1>3
  <2> HIDE DEF S, G, z
  <2> QED
    BY ONLY <2>1, StepByStep
<1>5. \A k \in 0..n : g[k] = IF k = 0 THEN {} ELSE More(g[k - 1])
  <2> TAKE k \in 0..n
  <2>1. CASE k = 0
    <3> HIDE DEF G, S, More
    <3>1. g[0] = z
      BY <1>4
    <3> QED
      BY <2>1, <3>1
  <2>2. CASE k # 0
    <3>1. k \in 1..n /\ k - 1 \in 0..n
      BY <2>2
    <3>2. g[k - 1] \in S
      <4> HIDE DEF S
      <4> QED
        BY <3>1
    <3>3. g[k] = G[k][g[k - 1]]
      <4> HIDE DEF G, S, More
      <4> QED
        BY <1>4, <3>1
    <3> HIDE DEF More, S
    <3> QED
      BY <2>2, <3>1, <3>2, <3>3
  <2> QED
    BY <2>1, <2>2
<1>6. Sat(g)
  <2> DEFINE H == [k \in 0..n |-> IF k = 0 THEN {} ELSE More(g[k - 1])]
  <2> HIDE DEF More, S
  <2>1. \A k \in 0..n : g[k] = H[k]
    BY <1>5
  <2>2. g = [k \in 0..n |-> g[k]] /\ H = [k \in 0..n |-> H[k]]
    OBVIOUS
  <2> HIDE DEF H
  <2>3. g = H
    BY <2>1, <2>2
  <2> QED
    BY <2>3 DEF H
<1>7. TakenFn(n) = CHOOSE t : Sat(t)
  BY DEF TakenFn
<1> HIDE DEF More
<1>8. Sat(CHOOSE t : Sat(t))
  BY <1>6
<1>9. TakenFn(n) = [i \in 0..n |-> IF i = 0 THEN {} ELSE More(TakenFn(n)[i - 1])]
  BY <1>7, <1>8
<1>10. 0 \in 0..n /\ \A k \in 1..n : k \in 0..n /\ k # 0
  OBVIOUS
<1>11. TakenFn(n)[0] = {} /\ \A k \in 1..n : TakenFn(n)[k] = More(TakenFn(n)[k - 1])
  BY <1>9, <1>10
<1> QED
  BY <1>11 DEF More

\* The pages an allocation gives are free, and none is given twice.
LEMMA NextPagesIs ==
  ASSUME NEW n \in Nat, n <= Cardinality(FreePages)
  PROVE  /\ NextPages(n) \in Seq(1..NumPages) /\ Len(NextPages(n)) = n /\ Distinct(NextPages(n))
         /\ \A i \in 1..n : NextPages(n)[i] \in FreePages
<1> DEFINE F == FreePages
           t == TakenFn(n)
           new(k) == Least(F \ t[k - 1])
           P(i) == /\ t[i] \in SUBSET F /\ IsFiniteSet(t[i]) /\ Cardinality(t[i]) = i
                   /\ \A k \in 1..i : new(k) \in t[i] /\ new(k) \in F \ t[k - 1]
           Bad == {i \in 0..n : ~P(i)}
<1>1. F \in SUBSET (1..NumPages) /\ NumPages \in Nat
  BY PoolSizes DEF FreePages
<1>2. IsFiniteSet(F) /\ F \in SUBSET Nat
  <2>1. IsFiniteSet(1..NumPages)
    BY <1>1, FS_Interval
  <2> HIDE DEF F
  <2>2. IsFiniteSet(F)
    BY <1>1, <2>1, FS_Subset
  <2>3. F \in SUBSET Nat
    BY <1>1
  <2> QED
    BY <2>2, <2>3
<1>3. t[0] = {} /\ \A i \in 1..n : t[i] = t[i - 1] \cup {new(i)}
  BY TakenFnIs
<1>4. NextPages(n) = [i \in 1..n |-> new(i)]
  BY DEF NextPages, TakenFn
<1>5. n <= Cardinality(F)
  OBVIOUS
<1> HIDE DEF t, F
<1>6. P(0)
  BY <1>3, FS_EmptySet
<1>7. ASSUME NEW i \in 1..n, P(i - 1) PROVE P(i)
  <2>1. t[i - 1] \in SUBSET F /\ IsFiniteSet(t[i - 1]) /\ Cardinality(t[i - 1]) = i - 1
    BY <1>7
  <2>2. F \ t[i - 1] # {}
    <3> SUFFICES ASSUME F \ t[i - 1] = {} PROVE FALSE
      OBVIOUS
    <3>1. t[i - 1] = F
      BY <2>1
    <3>2. Cardinality(F) = i - 1
      BY <2>1, <3>1
    <3> QED
      BY <1>5, <3>2
  <2>3. new(i) \in F \ t[i - 1]
    <3>1. F \ t[i - 1] \in SUBSET Nat
      BY <1>2
    <3> QED
      BY <2>2, <3>1, LeastIs
  <2>4. \A k \in 1..i - 1 : new(k) \in t[i - 1] /\ new(k) \in F \ t[k - 1]
    BY <1>7
  <2> HIDE DEF new
  <2>5. t[i] = t[i - 1] \cup {new(i)}
    BY <1>3
  <2>6. t[i] \in SUBSET F /\ IsFiniteSet(t[i]) /\ Cardinality(t[i]) = i
    <3>1. IsFiniteSet(t[i - 1] \cup {new(i)})
          /\ Cardinality(t[i - 1] \cup {new(i)}) = IF new(i) \in t[i - 1] THEN i - 1 ELSE i - 1 + 1
      BY <2>1, FS_AddElement
    <3> QED
      BY <2>1, <2>3, <2>5, <3>1
  <2>7. ASSUME NEW k \in 1..i PROVE new(k) \in t[i] /\ new(k) \in F \ t[k - 1]
    <3>1. CASE k = i
      BY <2>3, <2>5, <3>1
    <3>2. CASE k # i
      <4>1. k \in 1..i - 1
        BY <3>2
      <4> QED
        BY <2>4, <2>5, <4>1
    <3> QED
      BY <3>1, <3>2
  <2> QED
    BY <2>6, <2>7
<1> HIDE DEF new, P
<1>8. Bad = {}
  <2> SUFFICES ASSUME Bad # {} PROVE FALSE
    OBVIOUS
  <2>1. PICK i \in Bad : \A y \in Bad : i <= y
    <3>1. Bad \in SUBSET Nat
      OBVIOUS
    <3> QED
      BY <3>1, Smallest
  <2>2. i \in 0..n /\ ~P(i)
    BY <2>1
  <2>3. i # 0
    BY <1>6, <2>2
  <2>4. i \in 1..n /\ i - 1 \in 0..n /\ ~(i <= i - 1)
    BY <2>2, <2>3
  <2>5. P(i - 1)
    BY <2>1, <2>4
  <2> QED
    BY <1>7, <2>2, <2>4, <2>5
<1>9. \A i \in 0..n : P(i)
  BY <1>8
<1>10. \A i \in 1..n : new(i) \in F \ t[i - 1] /\ \A k \in 1..i - 1 : new(k) \in t[i - 1]
  <2> TAKE i \in 1..n
  <2>1. i \in 0..n /\ i - 1 \in 0..n /\ i \in 1..i
    OBVIOUS
  <2> QED
    BY <1>9, <2>1 DEF P
<1>11. ASSUME NEW i \in 1..n, NEW k \in 1..n, new(i) = new(k), i < k PROVE FALSE
  <2>1. i \in 1..k - 1
    BY <1>11
  <2> QED
    BY <1>10, <1>11, <2>1
<1>12. NextPages(n) \in [1..n -> 1..NumPages]
  BY <1>1, <1>4, <1>10
<1>13. NextPages(n) \in Seq(1..NumPages) /\ Len(NextPages(n)) = n
  BY <1>12, ListIs
<1>14. Distinct(NextPages(n))
  <2> SUFFICES ASSUME NEW i \in 1..n, NEW k \in 1..n, NextPages(n)[i] = NextPages(n)[k] PROVE i = k
    BY <1>13 DEF Distinct
  <2>1. new(i) = new(k)
    BY <1>4
  <2>2. i < k \/ k < i \/ i = k
    OBVIOUS
  <2> QED
    BY <1>11, <2>1, <2>2
<1>15. \A i \in 1..n : NextPages(n)[i] \in FreePages
  BY <1>4, <1>10 DEF F
<1> QED
  BY <1>13, <1>14, <1>15

-----------------------------------------------------------------------------
(* The inductive invariant                                                   *)

AnyToken == Reqs \X Nat \X Int

PoolTypes ==
  /\ kind \in Kinds /\ drafted \in BOOLEAN
  /\ DOMAIN cells = Models /\ \A m \in Models : DOMAIN cells[m] = pool.slot
  /\ DOMAIN rowbuf = pool.row /\ \A b \in pool.row : DOMAIN rowbuf[b] = Rows
  /\ rowfree \in Seq(Rows) /\ row \in [Reqs -> Rows \cup {NoRow}]
  /\ pages \in [Reqs -> Seq(1..NumPages)] /\ toks \in [Reqs -> Seq(AnyToken)]
  /\ status \in [Reqs -> {"waiting", "running", "retracted", "finished"}]
  /\ lost \in [Reqs -> Nat] /\ DOMAIN host = Reqs

\* Every running request has a row, its own and not a free one.
Homed ==
  /\ \A r \in Running : row[r] \in Rows /\ \A i \in 1..Len(rowfree) : rowfree[i] # row[r]
  /\ \A r, q \in Running : row[r] = row[q] => r = q
  /\ Distinct(rowfree)

\* No page is in two places.
PagesApart ==
  \A r, q \in Reqs : \A i \in DOMAIN pages[r], j \in DOMAIN pages[q] :
    pages[r][i] = pages[q][j] => r = q /\ i = j

\* Its pages hold a request's tokens, and a round's when one is out.
Roomy ==
  \A r \in Running :
    /\ SeqLen(r) > 0 /\ SeqLen(r) <= Len(pages[r]) * PageSlots
    /\ drafted => NeededPages(r) <= Len(pages[r])

\* What a retracted request has on the host.
Copied ==
  \A r \in Reqs : status[r] = "retracted" =>
    /\ kind \in Offloaded /\ SeqLen(r) > 0
    /\ \A b \in pool.saved : \A k \in 1..Pieces(toks[r], ChunkSize) :
         \A j \in 1..Len(Piece(toks[r], k, ChunkSize)) :
           host[r].kv[b][k][j] = toks[r][(k - 1) * ChunkSize + j]
    /\ \A b \in pool.kept : host[r].row[b] = Last(toks[r])

PoolInv ==
  /\ PoolTypes /\ Homed /\ PagesApart /\ Roomy /\ Copied
  /\ Whole /\ BranchesWhole

\* A round drafts at least one branch.
LEMMA TopkIs == Topk \in Nat \ {0}
BY PoolSizes DEF Topk

\* Lengths and room are numbers.
LEMMA SeqLenIs ==
  ASSUME PoolTypes, NEW r \in Reqs
  PROVE  SeqLen(r) \in Nat /\ Len(pages[r]) \in Nat /\ Len(pages[r]) * PageSlots \in Nat
         /\ pages[r] \in Seq(1..NumPages) /\ toks[r] \in Seq(AnyToken)
<1>1. pages[r] \in Seq(1..NumPages) /\ toks[r] \in Seq(AnyToken)
  BY DEF PoolTypes
<1>2. Len(pages[r]) \in Nat /\ Len(toks[r]) \in Nat
  BY <1>1, LenProperties
<1>3. PageSlots \in Nat
  BY PoolSizes
<1> QED
  BY <1>1, <1>2, <1>3 DEF SeqLen

\* Slots of requests.
LEMMA LocIs ==
  ASSUME PoolTypes, NEW r \in Reqs, NEW i \in Places(pages[r])
  PROVE  Loc(r, i) \in Locs
<1>1. pages[r] \in Seq(1..NumPages)
  BY SeqLenIs
<1> QED
  BY <1>1, SlotIs DEF Loc

\* Slots of different places differ, in one request and between two.
LEMMA LocApart ==
  ASSUME PoolTypes, PagesApart, NEW r \in Reqs, NEW q \in Reqs,
         NEW i \in Places(pages[r]), NEW j \in Places(pages[q]), Loc(r, i) = Loc(q, j)
  PROVE  r = q /\ i = j
<1>1. pages[r] \in Seq(1..NumPages) /\ pages[q] \in Seq(1..NumPages)
  BY SeqLenIs
<1>2. SlotOf(pages[r], i) = SlotOf(pages[q], j)
  BY DEF Loc
<1>3. PICK a \in DOMAIN pages[r], b \in DOMAIN pages[q] : pages[r][a] = pages[q][b] /\ (a = b => i = j)
  BY <1>1, <1>2, SlotsApart
<1>4. r = q /\ a = b
  BY <1>3 DEF PagesApart
<1> QED
  BY <1>3, <1>4

\* A range of places that fits the pages has its slots.
LEMMA LocsAtIs ==
  ASSUME PoolTypes, NEW r \in Reqs, NEW lo \in Nat, NEW n \in Nat, lo + n <= Len(pages[r]) * PageSlots
  PROVE  /\ LocsAt(r, lo, n) \in Seq(Locs) /\ Len(LocsAt(r, lo, n)) = n
         /\ \A i \in 1..n : LocsAt(r, lo, n)[i] = Loc(r, lo + i - 1) /\ lo + i - 1 \in Places(pages[r])
<1>1. Len(pages[r]) * PageSlots \in Nat
  BY SeqLenIs
<1>2. \A i \in 1..n : lo + i - 1 \in Places(pages[r])
  BY <1>1 DEF Places
<1>3. \A i \in 1..n : Loc(r, lo + i - 1) \in Locs
  BY <1>2, LocIs
<1>4. LocsAt(r, lo, n) \in [1..n -> Locs]
  BY <1>3 DEF LocsAt
<1>5. \A i \in 1..n : LocsAt(r, lo, n)[i] = Loc(r, lo + i - 1)
  BY DEF LocsAt
<1> QED
  BY <1>2, <1>4, <1>5, ListIs

\* Max of two numbers.
LEMMA GreaterOf ==
  ASSUME NEW a \in Int, NEW b \in Int
  PROVE  Max({a, b}) \in {a, b} /\ a <= Max({a, b}) /\ b <= Max({a, b})
<1>1. \E x \in {a, b} : \A y \in {a, b} : x >= y
  <2>1. a >= b \/ b >= a
    OBVIOUS
  <2> QED
    BY <2>1
<1> QED
  BY <1>1 DEF Max

-----------------------------------------------------------------------------
(* The branches of a tree                                                    *)

\* Branch t of a request is a stretch of `wide' slots, the first of which hold
\* the tail of the prefix.
LEMMA BranchIs ==
  ASSUME PoolTypes, NEW r \in Reqs
  PROVE  /\ LastPage(r) \in Nat /\ PrefixBase(r) \in Nat /\ PrefixBase(r) + LastPage(r) = SeqLen(r)
         /\ \E wide \in Nat \ {0} :
              /\ LastPage(r) + Steps <= wide
              /\ \A t \in Nat : t * wide \in Nat /\ BranchBase(r, t) = PrefixBase(r) + t * wide
<1> DEFINE n == SeqLen(r)
           L == LastPage(r)
           wide == NewPages(r) * PageSlots
<1>1. n \in Nat /\ PageSlots \in Nat \ {0} /\ Steps \in Nat \ {0}
  BY SeqLenIs, PoolSizes
<1>2. L = n % PageSlots /\ PrefixBase(r) = n - L
  BY DEF LastPage, PrefixBase
<1> HIDE DEF n, L
<1>3. n % PageSlots \in 0..(PageSlots - 1) /\ n \div PageSlots \in Nat
      /\ n = (n \div PageSlots) * PageSlots + (n % PageSlots)
  BY <1>1, Divides
<1>4. (n \div PageSlots) * PageSlots \in Nat
  BY <1>1, <1>3
<1>5. L \in Nat /\ n - L \in Nat
  BY <1>2, <1>3, <1>4
<1>6. NewPages(r) = PagesFor(L + Steps)
  BY DEF NewPages, PagesFor, L
<1>7. L + Steps \in Nat /\ L + Steps > 0
  BY <1>1, <1>5
<1>8. PagesFor(L + Steps) \in Nat /\ PagesFor(L + Steps) * PageSlots \in Nat
      /\ L + Steps <= PagesFor(L + Steps) * PageSlots
  BY <1>7, PagesForIs
<1>9. wide \in Nat /\ L + Steps <= wide
  BY <1>6, <1>8
<1>10. \A t \in Nat : BranchBase(r, t) = PrefixBase(r) + t * wide
  <2> TAKE t \in Nat
  <2>1. NewPages(r) \in Nat
    BY <1>6, <1>8
  <2>2. t * NewPages(r) * PageSlots = t * (NewPages(r) * PageSlots)
    BY <1>1, <2>1
  <2> QED
    BY <2>2 DEF BranchBase
<1> HIDE DEF wide
<1>11. \A t \in Nat : t * wide \in Nat
  BY <1>9
<1>12. wide # 0
  BY <1>1, <1>5, <1>9
<1>13. PrefixBase(r) \in Nat /\ PrefixBase(r) + L = n
  BY <1>1, <1>2, <1>5
<1> QED
  BY <1>5, <1>9, <1>10, <1>11, <1>12, <1>13 DEF n, L

\* The places of a tree are apart from one another and, but for the first
\* branch's tail, after the committed tokens.
LEMMA TreePlaces ==
  ASSUME PoolTypes, NEW r \in Reqs
  PROVE  /\ BranchBase(r, 0) = PrefixBase(r)
         /\ \A t \in Nat : BranchBase(r, t) \in Nat
         /\ \A t, u \in Nat : \A x, y \in 0..LastPage(r) + Steps - 1 :
              BranchBase(r, t) + x = BranchBase(r, u) + y => t = u /\ x = y
         /\ \A t \in Nat \ {0} : SeqLen(r) + Steps <= BranchBase(r, t)
         /\ \A t, u \in Nat : t < u => BranchBase(r, t) + LastPage(r) + Steps <= BranchBase(r, u)
<1> DEFINE L == LastPage(r)
           P == PrefixBase(r)
           n == SeqLen(r)
<1>1. /\ L \in Nat /\ P \in Nat /\ P + L = n
      /\ \E wide \in Nat \ {0} :
           /\ L + Steps <= wide
           /\ \A t \in Nat : t * wide \in Nat /\ BranchBase(r, t) = P + t * wide
  BY BranchIs
<1>2. PICK wide \in Nat \ {0} :
        /\ L + Steps <= wide
        /\ \A t \in Nat : t * wide \in Nat /\ BranchBase(r, t) = P + t * wide
  BY <1>1
<1>3. Steps \in Nat \ {0}
  BY PoolSizes
<1> HIDE DEF L, P, n
<1>4. BranchBase(r, 0) = P
  <2>1. 0 * wide = 0
    BY <1>2
  <2> QED
    BY <1>1, <1>2, <2>1
<1>5. \A t \in Nat : BranchBase(r, t) \in Nat
  <2> TAKE t \in Nat
  <2>1. t * wide \in Nat /\ BranchBase(r, t) = P + t * wide
    BY <1>2
  <2> QED
    BY <1>1, <2>1
<1>6. ASSUME NEW t \in Nat, NEW u \in Nat, NEW x \in 0..L + Steps - 1, NEW y \in 0..L + Steps - 1,
             BranchBase(r, t) + x = BranchBase(r, u) + y
      PROVE  t = u /\ x = y
  <2>1. t * wide \in Nat /\ u * wide \in Nat
        /\ BranchBase(r, t) = P + t * wide /\ BranchBase(r, u) = P + u * wide
    BY <1>2
  <2>2. x \in 0..wide - 1 /\ y \in 0..wide - 1
    BY <1>1, <1>2, <1>3
  <2>3. t * wide + x = u * wide + y
    BY <1>1, <1>6, <2>1, <2>2
  <2> QED
    BY <1>2, <2>2, <2>3, SamePlace
<1>7. ASSUME NEW t \in Nat, NEW u \in Nat, t < u
      PROVE  BranchBase(r, t) + L + Steps <= BranchBase(r, u)
  <2>1. t * wide \in Nat /\ u * wide \in Nat
        /\ BranchBase(r, t) = P + t * wide /\ BranchBase(r, u) = P + u * wide
    BY <1>2
  <2>2. t * wide + wide <= u * wide
    BY <1>2, <1>7, Products
  <2>3. L + Steps <= wide /\ wide \in Nat /\ L \in Nat /\ P \in Nat /\ Steps \in Nat
    BY <1>1, <1>2, <1>3
  <2> DEFINE p == t * wide
             q == u * wide
  <2>4. p \in Nat /\ q \in Nat /\ BranchBase(r, t) = P + p /\ BranchBase(r, u) = P + q /\ p + wide <= q
    BY <2>1, <2>2
  <2> HIDE DEF p, q
  <2>5. P + p + L + Steps <= P + q
    BY <2>3, <2>4
  <2> QED
    BY <2>4, <2>5
<1>8. \A t \in Nat \ {0} : n + Steps <= BranchBase(r, t)
  <2> TAKE t \in Nat \ {0}
  <2>1. 0 \in Nat /\ 0 < t
    OBVIOUS
  <2>2. BranchBase(r, 0) + L + Steps <= BranchBase(r, t)
    BY <1>7, <2>1
  <2> QED
    BY <1>1, <1>3, <1>4, <2>2
<1> QED
  BY <1>4, <1>5, <1>6, <1>7, <1>8 DEF L, P, n

\* What a round needs is there.
LEMMA RoundRoom ==
  ASSUME PoolTypes, NEW r \in Reqs, NeededPages(r) <= Len(pages[r])
  PROVE  /\ SeqLen(r) + DraftTokens <= Len(pages[r]) * PageSlots
         /\ Topk = 1 => SeqLen(r) + Steps <= Len(pages[r]) * PageSlots
         /\ Topk # 1 => BranchBase(r, Topk) <= Len(pages[r]) * PageSlots
<1> DEFINE n == IF Topk = 1 THEN SeqLen(r) + Steps ELSE BranchBase(r, Topk)
           m == SeqLen(r) + DraftTokens
           N == Len(pages[r])
<1>1. m \in Nat /\ N \in Nat /\ PageSlots \in Nat
  BY SeqLenIs, PoolSizes
<1>2. n \in Nat
  <2>1. SeqLen(r) + Steps \in Nat
    BY SeqLenIs, PoolSizes
  <2>2. BranchBase(r, Topk) \in Nat
    BY TopkIs, TreePlaces
  <2> QED
    BY <2>1, <2>2
<1> HIDE DEF n, m
<1>3. NeededPages(r) = Max({PagesFor(n), PagesFor(m)})
  BY DEF NeededPages, n, m
<1>4. /\ PagesFor(n) \in Nat /\ PagesFor(n) * PageSlots \in Nat /\ n <= PagesFor(n) * PageSlots
      /\ PagesFor(m) \in Nat /\ PagesFor(m) * PageSlots \in Nat /\ m <= PagesFor(m) * PageSlots
  BY <1>1, <1>2, PagesForIs
<1> DEFINE a == PagesFor(n)
           b == PagesFor(m)
<1>5. a \in Nat /\ b \in Nat /\ a \in Int /\ b \in Int
  BY <1>4
<1> HIDE DEF N, a, b
<1>6. a <= N /\ b <= N
  <2>1. Max({a, b}) \in {a, b} /\ a <= Max({a, b}) /\ b <= Max({a, b})
    BY <1>5, GreaterOf
  <2>2. Max({a, b}) <= N
    BY <1>3 DEF N, a, b
  <2> QED
    BY <1>1, <1>5, <2>1, <2>2
<1>7. a * PageSlots <= N * PageSlots /\ b * PageSlots <= N * PageSlots /\ N * PageSlots \in Nat
      /\ a * PageSlots \in Nat /\ b * PageSlots \in Nat
  BY <1>1, <1>5, <1>6, Products
<1>8. n <= N * PageSlots /\ m <= N * PageSlots
  <2>1. n <= a * PageSlots /\ m <= b * PageSlots
    BY <1>4 DEF a, b
  <2> QED
    BY <1>1, <1>2, <1>7, <2>1
<1> QED
  BY <1>8 DEF n, m, N

-----------------------------------------------------------------------------
(* Requests come and go                                                      *)

\* The running requests are those of that status.
LEMMA RunningIs ==
  Running \in SUBSET Reqs /\ \A r \in Reqs : r \in Running <=> status[r] = "running"
BY DEF Running

\* Two states of which the later has no tree out.
LEMMA WholeStep ==
  ASSUME kind' = kind, drafted' = FALSE,
         \A r \in Running' :
           /\ \A b \in pool.slot : \A i \in 1..Len(toks'[r]) :
                cells'["target"][b][SlotOf(pages'[r], i - 1)] = toks'[r][i]
           /\ \A b \in pool.row : rowbuf'[b][row'[r]] = Last(toks'[r])
           /\ \A b \in pool.slot : \A i \in lost'[r] + 1..Len(toks'[r]) :
                cells'["draft"][b][SlotOf(pages'[r], i - 1)] = toks'[r][i]
  PROVE  Whole' /\ BranchesWhole'
<1>1. pool' = pool
  BY DEF pool
<1>2. \A r : SeqLen(r)' = Len(toks'[r])
  BY DEF SeqLen
<1>3. \A r, i : Loc(r, i)' = SlotOf(pages'[r], i)
  BY DEF Loc
<1>4. Whole'
  BY <1>1, <1>2, <1>3 DEF Whole
<1>5. BranchesWhole'
  BY <1>1, <1>2, <1>3 DEF BranchesWhole
<1> QED
  BY <1>4, <1>5

\* The slots of a request that keeps its pages, or gets more.
LEMMA KeptPlaces ==
  ASSUME PoolTypes, NEW r \in Running, Roomy, NEW i \in 1..SeqLen(r)
  PROVE  i - 1 \in Places(pages[r]) /\ Loc(r, i - 1) \in Locs /\ i - 1 < SeqLen(r)
<1>1. r \in Reqs
  BY DEF Running
<1>2. SeqLen(r) \in Nat /\ Len(pages[r]) * PageSlots \in Nat /\ SeqLen(r) <= Len(pages[r]) * PageSlots
  BY <1>1, SeqLenIs DEF Roomy
<1>3. i - 1 \in Places(pages[r])
  BY <1>2 DEF Places
<1> QED
  BY <1>1, <1>2, <1>3, LocIs

\* New pages hold no slot of any request.
LEMMA NewSlots ==
  ASSUME PoolTypes, NEW n \in Nat, n <= Cardinality(FreePages), NEW m \in Nat, m <= n * PageSlots
  PROVE  LET to == NextPages(n) IN
         LET new == [i \in 1..m |-> SlotOf(to, i - 1)] IN
         /\ \A i \in 1..m : i - 1 \in Places(to) /\ new[i] = SlotOf(to, i - 1)
         /\ new \in Seq(Locs) /\ Len(new) = m /\ Distinct(new)
         /\ \A q \in Reqs : \A i \in DOMAIN pages[q], j \in DOMAIN to : pages[q][i] # to[j]
         /\ \A q \in Reqs : \A i \in Places(pages[q]) : \A j \in 1..m : new[j] # Loc(q, i)
<1> DEFINE to == NextPages(n)
           new == [i \in 1..m |-> SlotOf(to, i - 1)]
<1>1. to \in Seq(1..NumPages) /\ Len(to) = n /\ Distinct(to) /\ \A i \in 1..n : to[i] \in FreePages
  BY NextPagesIs
<1> HIDE DEF to
<1>2. DOMAIN to = 1..n
  BY <1>1, LenProperties
<1>3. \A i \in 1..m : i - 1 \in Places(to)
  <2>1. n * PageSlots \in Nat
    BY PoolSizes
  <2> QED
    BY <1>1, <2>1 DEF Places
<1>4. \A i \in 1..m : SlotOf(to, i - 1) \in Locs
  BY <1>1, <1>3, SlotIs
<1>5. new \in [1..m -> Locs]
  BY <1>4
<1>6. new \in Seq(Locs) /\ Len(new) = m
  <2> HIDE DEF new
  <2> QED
    BY <1>5, ListIs
<1>7. \A i \in 1..m : new[i] = SlotOf(to, i - 1)
  OBVIOUS
<1> HIDE DEF new
<1>8. ASSUME NEW i \in 1..m, NEW j \in 1..m, new[i] = new[j] PROVE i = j
  <2>1. i - 1 \in Places(to) /\ j - 1 \in Places(to) /\ SlotOf(to, i - 1) = SlotOf(to, j - 1)
    BY <1>3, <1>7, <1>8
  <2>2. PICK a \in DOMAIN to, b \in DOMAIN to : to[a] = to[b] /\ (a = b => i - 1 = j - 1)
    BY <1>1, <2>1, SlotsApart
  <2>3. a = b
    BY <1>1, <1>2, <2>2 DEF Distinct
  <2> QED
    BY <2>2, <2>3
<1>9. Distinct(new)
  BY <1>6, <1>8 DEF Distinct
<1>10. ASSUME NEW q \in Reqs, NEW i \in DOMAIN pages[q], NEW j \in DOMAIN to
       PROVE  pages[q][i] # to[j]
  <2>1. to[j] \in FreePages
    BY <1>1, <1>2
  <2>2. pages[q][i] \in ToSet(pages[q])
    BY DEF ToSet
  <2>3. pages[q][i] \in UNION {ToSet(pages[p]) : p \in Reqs}
    BY <2>2
  <2>4. pages[q][i] \notin FreePages
    BY <2>3 DEF FreePages
  <2> QED
    BY <2>1, <2>4
<1>11. ASSUME NEW q \in Reqs, NEW i \in Places(pages[q]), NEW j \in 1..m, new[j] = Loc(q, i)
       PROVE  FALSE
  <2>1. pages[q] \in Seq(1..NumPages)
    BY SeqLenIs
  <2>2. SlotOf(pages[q], i) = SlotOf(to, j - 1) /\ j - 1 \in Places(to)
    BY <1>3, <1>7, <1>11 DEF Loc
  <2>3. \E a \in DOMAIN pages[q], b \in DOMAIN to : pages[q][a] = to[b] /\ (a = b => i = j - 1)
    BY <1>1, <2>1, <2>2, SlotsApart
  <2> QED
    BY <1>10, <2>3
<1> QED
  BY <1>3, <1>6, <1>7, <1>9, <1>10, <1>11 DEF new, to

\* The row taken is nobody's, and the list loses it.
LEMMA FirstRows ==
  ASSUME PoolTypes, Homed, rowfree # <<>>
  PROVE  /\ LastRow \in Rows /\ RowTaken \in Seq(Rows) /\ Distinct(RowTaken)
         /\ \A i \in 1..Len(RowTaken) : RowTaken[i] # LastRow
         /\ \A x : (\A i \in 1..Len(rowfree) : rowfree[i] # x)
                     => x # LastRow /\ \A i \in 1..Len(RowTaken) : RowTaken[i] # x
<1> DEFINE n == Len(rowfree)
<1>1. rowfree \in Seq(Rows) /\ n \in Nat \ {0}
  BY EmptySeq DEF PoolTypes
<1>2. rowfree \in [1..n -> Rows]
  BY <1>1, LenProperties
<1>3. /\ SubSeq(rowfree, 1, n - 1) \in Seq(Rows)
      /\ Len(SubSeq(rowfree, 1, n - 1)) = IF 1 <= n - 1 THEN n - 1 - 1 + 1 ELSE 0
      /\ \A i \in 1..n - 1 - 1 + 1 : SubSeq(rowfree, 1, n - 1)[i] = rowfree[1 + i - 1]
  <2>1. 1 \in Int /\ n - 1 \in Int /\ \A i \in 1..n - 1 : rowfree[i] \in Rows
    BY <1>1, <1>2
  <2> HIDE DEF n
  <2> QED
    BY <2>1, SubSeqProperties
<1> HIDE DEF n
<1>4. Len(RowTaken) = n - 1 /\ \A i \in 1..n - 1 : RowTaken[i] = rowfree[i] /\ i \in 1..n /\ i # n
  <2>1. n - 1 - 1 + 1 = n - 1 /\ \A i \in 1..n - 1 : 1 + i - 1 = i /\ i \in 1..n /\ i # n
    BY <1>1
  <2>2. Len(SubSeq(rowfree, 1, n - 1)) = n - 1
    BY <1>1, <1>3, <2>1
  <2>3. \A i \in 1..n - 1 : SubSeq(rowfree, 1, n - 1)[i] = rowfree[i]
    <3> TAKE i \in 1..n - 1
    <3>1. SubSeq(rowfree, 1, n - 1)[i] = rowfree[1 + i - 1]
      BY <1>3, <2>1
    <3> QED
      BY <2>1, <3>1
  <2> QED
    BY <2>1, <2>2, <2>3 DEF RowTaken, n
<1>5. LastRow = rowfree[n] /\ n \in 1..n
  BY <1>1 DEF LastRow, n
<1>6. \A i, j \in 1..n : rowfree[i] = rowfree[j] => i = j
  BY DEF Homed, Distinct, n
<1>7. Distinct(RowTaken)
  BY <1>4, <1>6 DEF Distinct
<1>8. RowTaken \in Seq(Rows)
  BY <1>3 DEF RowTaken, n
<1>9. \A x : (\A i \in 1..n : rowfree[i] # x) => x # LastRow /\ \A i \in 1..n - 1 : RowTaken[i] # x
  BY <1>4, <1>5
<1> QED
  BY <1>2, <1>4, <1>5, <1>6, <1>7, <1>8, <1>9 DEF n

\* r begins to run in a free row and free pages.
LEMMA Joins ==
  ASSUME PoolInv, NEW r \in Reqs, r \notin Running, ~drafted, rowfree # <<>>,
         NEW m \in Nat \ {0}, PagesFor(m) <= Cardinality(FreePages),
         pages' = [pages EXCEPT ![r] = NextPages(PagesFor(m))],
         row' = [row EXCEPT ![r] = LastRow], rowfree' = RowTaken,
         status' = [status EXCEPT ![r] = "running"],
         toks' \in [Reqs -> Seq(AnyToken)], Len(toks'[r]) = m,
         \A q \in Reqs \ {r} : toks'[q] = toks[q],
         drafted' = drafted
  PROVE  /\ Running' = Running \cup {r} /\ r \notin Running
         /\ LastRow \in Rows /\ \A q \in Running : row[q] # LastRow
         /\ rowfree' \in Seq(Rows) /\ row' \in [Reqs -> Rows \cup {NoRow}]
         /\ pages' \in [Reqs -> Seq(1..NumPages)]
         /\ status' \in [Reqs -> {"waiting", "running", "retracted", "finished"}]
         /\ Homed' /\ PagesApart' /\ Roomy'
<1> DEFINE n == PagesFor(m)
           to == NextPages(n)
<1>0. PoolTypes /\ Homed /\ PagesApart /\ Roomy
  BY DEF PoolInv
<1>1. n \in Nat /\ m <= n * PageSlots /\ n * PageSlots \in Nat
  BY PagesForIs
<1>2. n <= Cardinality(FreePages)
  OBVIOUS
<1>3. to \in Seq(1..NumPages) /\ Len(to) = n /\ Distinct(to)
  <2> HIDE DEF n
  <2> QED
    BY <1>1, <1>2, NextPagesIs
<1>4. \A q \in Reqs : \A i \in DOMAIN pages[q], j \in DOMAIN to : pages[q][i] # to[j]
  <2> HIDE DEF n
  <2> QED
    BY <1>0, <1>1, <1>2, NewSlots
<1>5. pages' = [pages EXCEPT ![r] = to]
  OBVIOUS
<1> HIDE DEF n, to
<1>6. pages \in [Reqs -> Seq(1..NumPages)] /\ row \in [Reqs -> Rows \cup {NoRow}]
      /\ status \in [Reqs -> {"waiting", "running", "retracted", "finished"}]
  BY <1>0 DEF PoolTypes
<1>7. pages' \in [Reqs -> Seq(1..NumPages)] /\ pages'[r] = to /\ \A q \in Reqs \ {r} : pages'[q] = pages[q]
  BY <1>3, <1>5, <1>6
<1>8. /\ LastRow \in Rows /\ RowTaken \in Seq(Rows) /\ Distinct(RowTaken)
      /\ \A i \in 1..Len(RowTaken) : RowTaken[i] # LastRow
      /\ \A x : (\A i \in 1..Len(rowfree) : rowfree[i] # x)
                  => x # LastRow /\ \A i \in 1..Len(RowTaken) : RowTaken[i] # x
  BY <1>0, FirstRows
<1>9. row' \in [Reqs -> Rows \cup {NoRow}] /\ row'[r] = LastRow /\ \A q \in Reqs \ {r} : row'[q] = row[q]
  BY <1>6, <1>8
<1>10. status' \in [Reqs -> {"waiting", "running", "retracted", "finished"}]
  BY <1>6
<1>11. Running' = Running \cup {r}
  BY <1>6 DEF Running
<1>12. \A q \in Running : q \in Reqs /\ q # r
  BY DEF Running
<1>13. \A q \in Running : row[q] # LastRow /\ row[q] \in Rows /\ \A i \in 1..Len(RowTaken) : RowTaken[i] # row[q]
  BY <1>0, <1>8 DEF Homed
<1>14. Homed'
  <2>1. ASSUME NEW q \in Running \cup {r}
        PROVE  row'[q] \in Rows /\ \A i \in 1..Len(RowTaken) : RowTaken[i] # row'[q]
    BY <1>8, <1>9, <1>12, <1>13
  <2>2. ASSUME NEW q \in Running \cup {r}, NEW p \in Running \cup {r}, row'[q] = row'[p] PROVE q = p
    <3>1. \A x, y \in Running : row[x] = row[y] => x = y
      BY <1>0 DEF Homed
    <3> QED
      BY <1>9, <1>12, <1>13, <2>2, <3>1
  <2> QED
    BY <1>8, <1>11, <2>1, <2>2 DEF Homed
<1>15. PagesApart'
  <2> SUFFICES ASSUME NEW q \in Reqs, NEW p \in Reqs, NEW i \in DOMAIN pages'[q], NEW j \in DOMAIN pages'[p],
                      pages'[q][i] = pages'[p][j]
               PROVE  q = p /\ i = j
    BY DEF PagesApart
  <2>1. CASE q = r /\ p = r
    <3>1. DOMAIN to = 1..Len(to)
      BY <1>3, LenProperties
    <3> QED
      BY <1>3, <1>7, <2>1, <3>1 DEF Distinct
  <2>2. CASE q = r /\ p # r
    BY <1>4, <1>7, <2>2
  <2>3. CASE q # r /\ p = r
    BY <1>4, <1>7, <2>3
  <2>4. CASE q # r /\ p # r
    BY <1>0, <1>7, <2>4 DEF PagesApart
  <2> QED
    BY <2>1, <2>2, <2>3, <2>4
<1>16. Roomy'
  <2> SUFFICES ASSUME NEW q \in Running'
               PROVE  Len(toks'[q]) > 0 /\ Len(toks'[q]) <= Len(pages'[q]) * PageSlots
    BY DEF Roomy, SeqLen
  <2>1. CASE q = r
    BY <1>1, <1>3, <1>7, <2>1
  <2>2. CASE q # r
    <3>1. q \in Running /\ q \in Reqs
      BY <1>11, <1>12, <2>2
    <3>2. toks'[q] = toks[q] /\ pages'[q] = pages[q]
      BY <1>7, <2>2, <3>1
    <3>3. Len(toks[q]) > 0 /\ Len(toks[q]) <= Len(pages[q]) * PageSlots
      BY <1>0, <3>1 DEF Roomy, SeqLen
    <3> QED
      BY <3>2, <3>3
  <2> QED
    BY <2>1, <2>2
<1> QED
  BY <1>7, <1>8, <1>9, <1>10, <1>11, <1>12, <1>13, <1>14, <1>15, <1>16

\* The first m slots of new pages.
Fresh(m) == [i \in 1..m |-> SlotOf(NextPages(PagesFor(m)), i - 1)]

\* The slots of new pages are nobody's.
LEMMA FreshIs ==
  ASSUME PoolTypes, NEW m \in Nat, PagesFor(m) <= Cardinality(FreePages)
  PROVE  /\ Fresh(m) \in Seq(Locs) /\ Len(Fresh(m)) = m /\ Distinct(Fresh(m))
         /\ \A i \in 1..m : Fresh(m)[i] = SlotOf(NextPages(PagesFor(m)), i - 1)
         /\ \A q \in Reqs : \A i \in Places(pages[q]) : \A j \in 1..m : Fresh(m)[j] # Loc(q, i)
<1> DEFINE n == PagesFor(m)
           new == [i \in 1..m |-> SlotOf(NextPages(n), i - 1)]
<1>1. n \in Nat /\ m <= n * PageSlots /\ n <= Cardinality(FreePages)
  BY PagesForIs
<1>2. /\ new \in Seq(Locs) /\ Len(new) = m /\ Distinct(new)
      /\ \A q \in Reqs : \A i \in Places(pages[q]) : \A j \in 1..m : new[j] # Loc(q, i)
  <2> HIDE DEF n
  <2> QED
    BY <1>1, NewSlots
<1>3. Fresh(m) = new
  BY DEF Fresh
<1>4. \A i \in 1..m : new[i] = SlotOf(NextPages(n), i - 1)
  OBVIOUS
<1> QED
  BY <1>2, <1>3, <1>4

\* What lands in new pages leaves the slots of the running requests alone.
LEMMA NewBuffer ==
  ASSUME PoolInv, NEW m \in Nat, PagesFor(m) <= Cardinality(FreePages),
         NEW buf, NEW out, NEW val, Lands(out, buf, Fresh(m), val)
  PROVE  /\ \A i \in 1..m : out[SlotOf(NextPages(PagesFor(m)), i - 1)] = val[i]
         /\ \A q \in Running : \A i \in 1..SeqLen(q) : out[Loc(q, i - 1)] = buf[Loc(q, i - 1)]
<1>0. PoolTypes /\ Roomy
  BY DEF PoolInv
<1>1. /\ Fresh(m) \in Seq(Locs) /\ Len(Fresh(m)) = m
      /\ \A i \in 1..m : Fresh(m)[i] = SlotOf(NextPages(PagesFor(m)), i - 1)
      /\ \A q \in Reqs : \A i \in Places(pages[q]) : \A j \in 1..m : Fresh(m)[j] # Loc(q, i)
  BY <1>0, FreshIs
<1>2. \A i \in 1..m : out[SlotOf(NextPages(PagesFor(m)), i - 1)] = val[i]
  BY <1>1 DEF Lands
<1>3. ASSUME NEW q \in Running, NEW i \in 1..SeqLen(q) PROVE out[Loc(q, i - 1)] = buf[Loc(q, i - 1)]
  <2>1. i - 1 \in Places(pages[q]) /\ Loc(q, i - 1) \in Locs /\ q \in Reqs
    BY <1>0, KeptPlaces, RunningIs
  <2>2. \A j \in 1..Len(Fresh(m)) : Fresh(m)[j] # Loc(q, i - 1)
    BY <1>1, <2>1
  <2> QED
    BY <2>1, <2>2 DEF Lands
<1> QED
  BY <1>2, <1>3

\* Nothing happens to what was copied.
LEMMA StillCopied ==
  ASSUME Copied, kind' = kind,
         \A q \in Reqs : status'[q] = "retracted" =>
           status[q] = "retracted" /\ host'[q] = host[q] /\ toks'[q] = toks[q]
  PROVE  Copied'
<1>1. pool' = pool
  BY DEF pool
<1> QED
  BY <1>1 DEF Copied, SeqLen

\* A prefill keeps the invariant: it writes fresh slots and a free row.
LEMMA PrefillHolds ==
  ASSUME PoolInv, NEW r \in Reqs, Prefill(r)
  PROVE  PoolInv'
<1> DEFINE m == Prompt[r]
           n == PagesFor(m)
           to == NextPages(n)
           slots == Fresh(m)
           new == [i \in 1..m |-> Token(r, i - 1, 0)]
<1>0. PoolTypes /\ Homed /\ PagesApart /\ Roomy /\ Copied /\ Whole /\ BranchesWhole
  BY DEF PoolInv
<1>1. m \in Nat \ {0} /\ r \in Nat
  BY KVAssumption, PoolSizes
<1>2. /\ status[r] = "waiting" /\ ~drafted /\ rowfree # <<>> /\ n <= Cardinality(FreePages)
      /\ pages' = [pages EXCEPT ![r] = to] /\ row' = [row EXCEPT ![r] = LastRow] /\ rowfree' = RowTaken
      /\ cells' = [x \in Models |-> Store(cells[x], slots, new)]
      /\ rowbuf' = [b \in DOMAIN rowbuf |-> [rowbuf[b] EXCEPT ![LastRow] = Last(new)]]
      /\ toks' = [toks EXCEPT ![r] = new] /\ status' = [status EXCEPT ![r] = "running"]
      /\ kind' = kind /\ host' = host /\ drafted' = drafted /\ lost' = lost
  BY DEF Prefill, Fresh
<1>3. new \in Seq(AnyToken) /\ Len(new) = m
  <2>1. \A i \in 1..m : Token(r, i - 1, 0) \in AnyToken
    BY <1>1 DEF Token, AnyToken
  <2>2. new \in [1..m -> AnyToken]
    BY <2>1
  <2> HIDE DEF new
  <2> QED
    BY <1>1, <2>2, ListIs
<1>4. r \notin Running
  BY <1>2 DEF Running
<1> HIDE DEF m, new
<1>5. toks \in [Reqs -> Seq(AnyToken)]
  BY <1>0 DEF PoolTypes
<1>6. toks' \in [Reqs -> Seq(AnyToken)] /\ toks'[r] = new /\ \A q \in Reqs \ {r} : toks'[q] = toks[q]
  BY <1>2, <1>3, <1>5
<1>7. /\ Running' = Running \cup {r}
      /\ LastRow \in Rows /\ \A q \in Running : row[q] # LastRow
      /\ rowfree' \in Seq(Rows) /\ row' \in [Reqs -> Rows \cup {NoRow}]
      /\ pages' \in [Reqs -> Seq(1..NumPages)]
      /\ status' \in [Reqs -> {"waiting", "running", "retracted", "finished"}]
      /\ Homed' /\ PagesApart' /\ Roomy'
  BY <1>1, <1>2, <1>3, <1>4, <1>6, Joins
<1>8. /\ pool' = pool /\ DOMAIN cells = Models /\ \A x \in Models : DOMAIN cells[x] = pool.slot
      /\ DOMAIN rowbuf = pool.row /\ \A b \in pool.row : DOMAIN rowbuf[b] = Rows
  BY <1>0, <1>2 DEF PoolTypes, pool
<1>9. /\ DOMAIN cells' = Models /\ \A x \in Models : DOMAIN cells'[x] = pool.slot
      /\ \A x \in Models, b \in pool.slot : cells'[x][b] = Put(cells[x][b], slots, new)
  BY <1>2, <1>8 DEF Store
<1>10. /\ DOMAIN rowbuf' = pool.row
       /\ \A b \in pool.row :
            DOMAIN rowbuf'[b] = Rows /\ rowbuf'[b][LastRow] = Last(new) /\ \A w \in Rows \ {LastRow} : rowbuf'[b][w] = rowbuf[b][w]
  <2>1. \A b \in pool.row : rowbuf'[b] = [rowbuf[b] EXCEPT ![LastRow] = Last(new)]
    BY <1>2, <1>8
  <2>2. DOMAIN rowbuf' = pool.row
    BY <1>2, <1>8
  <2> QED
    BY <1>7, <1>8, <2>1, <2>2
<1>11. PoolTypes'
  BY <1>0, <1>2, <1>6, <1>7, <1>8, <1>9, <1>10 DEF PoolTypes
<1>12. Copied'
  <2>1. \A q \in Reqs : status'[q] = "retracted" => q # r /\ status[q] = "retracted"
    BY <1>0, <1>2 DEF PoolTypes
  <2> QED
    BY <1>0, <1>2, <1>6, <2>1, StillCopied
<1>13. ASSUME NEW x \in Models, NEW b \in pool.slot
       PROVE  /\ \A i \in 1..m : cells'[x][b][SlotOf(to, i - 1)] = new[i]
              /\ \A q \in Running : \A i \in 1..SeqLen(q) : cells'[x][b][Loc(q, i - 1)] = cells[x][b][Loc(q, i - 1)]
  <2>1. Lands(cells'[x][b], cells[x][b], slots, new)
    BY <1>0, <1>1, <1>2, <1>9, FreshIs, PutIs
  <2> QED
    BY <1>1, <1>2, <2>1, NewBuffer
<1>14. ASSUME NEW q \in Running'
       PROVE  /\ \A b \in pool.slot : \A i \in 1..Len(toks'[q]) :
                   cells'["target"][b][SlotOf(pages'[q], i - 1)] = toks'[q][i]
              /\ \A b \in pool.row : rowbuf'[b][row'[q]] = Last(toks'[q])
              /\ \A b \in pool.slot : \A i \in lost'[q] + 1..Len(toks'[q]) :
                   cells'["draft"][b][SlotOf(pages'[q], i - 1)] = toks'[q][i]
  <2>0. "target" \in Models /\ "draft" \in Models
    BY DEF Models
  <2>00. q \in Reqs /\ lost[q] \in Nat
    BY <1>0, <1>7, RunningIs DEF PoolTypes
  <2>1. CASE q = r
    <3>1. pages'[q] = to /\ row'[q] = LastRow /\ toks'[q] = new
      BY <1>0, <1>2, <1>6, <2>1 DEF PoolTypes
    <3>2. \A b \in pool.slot : \A i \in lost'[q] + 1..Len(toks'[q]) : i \in 1..m
      BY <1>1, <1>2, <1>3, <2>00, <3>1
    <3> QED
      BY <1>3, <1>10, <1>13, <2>0, <3>1, <3>2
  <2>2. CASE q # r
    <3>1. q \in Running
      BY <1>7, <2>2
    <3>2. pages'[q] = pages[q] /\ row'[q] = row[q] /\ toks'[q] = toks[q] /\ Len(toks[q]) = SeqLen(q) /\ lost'[q] = lost[q]
      BY <1>0, <1>2, <1>6, <2>00, <2>2 DEF PoolTypes, SeqLen
    <3>3. \A i : SlotOf(pages'[q], i) = Loc(q, i)
      BY <3>2 DEF Loc
    <3>4. row[q] \in Rows \ {LastRow}
      BY <1>0, <1>7, <3>1 DEF Homed
    <3>5. \A b \in pool.row : rowbuf[b][row[q]] = Last(toks[q])
      BY <1>0, <3>1 DEF Whole
    <3>6. \A b \in pool.slot : \A i \in 1..SeqLen(q) : cells["target"][b][Loc(q, i - 1)] = toks[q][i]
      BY <1>0, <3>1 DEF Whole
    <3>7. \A b \in pool.slot : \A i \in lost[q] + 1..SeqLen(q) : cells["draft"][b][Loc(q, i - 1)] = toks[q][i]
      BY <1>0, <3>1 DEF BranchesWhole
    <3>8. \A i \in lost[q] + 1..SeqLen(q) : i \in 1..SeqLen(q)
      BY <2>00
    <3>9. \A b \in pool.slot : \A i \in 1..SeqLen(q) :
            /\ cells'["target"][b][Loc(q, i - 1)] = cells["target"][b][Loc(q, i - 1)]
            /\ cells'["draft"][b][Loc(q, i - 1)] = cells["draft"][b][Loc(q, i - 1)]
      BY <1>13, <2>0, <3>1
    <3>10. \A b \in pool.row : rowbuf'[b][row[q]] = rowbuf[b][row[q]]
      BY <1>10, <3>4
    <3>11. \A b \in pool.row : rowbuf'[b][row'[q]] = Last(toks'[q])
      BY <3>2, <3>5, <3>10
    <3>12. ASSUME NEW b \in pool.slot, NEW i \in 1..SeqLen(q)
           PROVE  cells'["target"][b][SlotOf(pages'[q], i - 1)] = toks'[q][i]
      BY <3>2, <3>3, <3>6, <3>9
    <3>13. ASSUME NEW b \in pool.slot, NEW i \in lost[q] + 1..SeqLen(q)
           PROVE  cells'["draft"][b][SlotOf(pages'[q], i - 1)] = toks'[q][i]
      BY <3>2, <3>3, <3>7, <3>8, <3>9
    <3>14. Len(toks'[q]) = SeqLen(q) /\ lost'[q] = lost[q]
      BY <3>2
    <3> QED
      BY ONLY <3>11, <3>12, <3>13, <3>14
  <2> QED
    BY <2>1, <2>2
<1>15. Whole' /\ BranchesWhole'
  <2>1. drafted' = FALSE
    BY <1>0, <1>2 DEF PoolTypes
  <2> QED
    BY <1>2, <1>14, <2>1, WholeStep
<1> QED
  BY <1>7, <1>11, <1>12, <1>15 DEF PoolInv

\* The pieces of two sequences of one length are at the same places.
LEMMA SamePieces ==
  ASSUME NEW S, NEW s \in Seq(S), NEW T, NEW t \in Seq(T), Len(s) = Len(t), NEW n \in Nat \ {0}
  PROVE  /\ Pieces(s, n) = Pieces(t, n)
         /\ \A k \in 1..Pieces(s, n) : Len(Piece(s, k, n)) = Len(Piece(t, k, n))
<1>1. Pieces(s, n) = Pieces(t, n)
  BY DEF Pieces
<1>2. ASSUME NEW k \in 1..Pieces(s, n) PROVE Len(Piece(s, k, n)) = Len(Piece(t, k, n))
  <2>1. Len(Piece(s, k, n)) = IF k * n < Len(s) THEN n ELSE Len(s) - (k - 1) * n
    BY PieceIs
  <2>2. Len(Piece(t, k, n)) = IF k * n < Len(t) THEN n ELSE Len(t) - (k - 1) * n
    BY <1>1, PieceIs
  <2> QED
    BY <2>1, <2>2
<1> QED
  BY <1>1, <1>2

\* Resuming keeps it: fresh slots and a free row get what the host copy holds.
LEMMA ResumeHolds ==
  ASSUME Complete, PoolInv, NEW r \in Reqs, Resume(r)
  PROVE  PoolInv'
<1> DEFINE m == SeqLen(r)
           n == PagesFor(m)
           to == NextPages(n)
           slots == Fresh(m)
<1>0. PoolTypes /\ Homed /\ PagesApart /\ Roomy /\ Copied /\ Whole /\ BranchesWhole
  BY DEF PoolInv
<1>2. /\ status[r] = "retracted" /\ ~drafted /\ rowfree # <<>> /\ n <= Cardinality(FreePages)
      /\ pages' = [pages EXCEPT ![r] = to] /\ row' = [row EXCEPT ![r] = LastRow] /\ rowfree' = RowTaken
      /\ cells' = [cells EXCEPT !["target"] = Load(cells["target"], host[r].kv, slots)]
      /\ rowbuf' = RowLoad(host[r].row, LastRow)
      /\ host' = [host EXCEPT ![r] = <<>>]
      /\ toks' = toks /\ status' = [status EXCEPT ![r] = "running"]
      /\ kind' = kind /\ drafted' = drafted /\ lost' = [lost EXCEPT ![r] = m]
  BY DEF Resume, Fresh
<1>1. m \in Nat \ {0} /\ kind \in Offloaded
  BY <1>0, <1>2, SeqLenIs DEF Copied
<1>3. pool.saved = pool.slot /\ pool.kept = pool.row
  BY <1>1 DEF Complete, pool
<1>4. r \notin Running
  BY <1>2 DEF Running
<1>5. toks \in [Reqs -> Seq(AnyToken)] /\ lost \in [Reqs -> Nat] /\ DOMAIN host = Reqs
  BY <1>0 DEF PoolTypes
<1>6. toks' \in [Reqs -> Seq(AnyToken)] /\ Len(toks'[r]) = m /\ \A q \in Reqs \ {r} : toks'[q] = toks[q]
  BY <1>2, <1>5 DEF SeqLen
<1> HIDE DEF m
<1>7. /\ Running' = Running \cup {r}
      /\ LastRow \in Rows /\ \A q \in Running : row[q] # LastRow
      /\ rowfree' \in Seq(Rows) /\ row' \in [Reqs -> Rows \cup {NoRow}]
      /\ pages' \in [Reqs -> Seq(1..NumPages)]
      /\ status' \in [Reqs -> {"waiting", "running", "retracted", "finished"}]
      /\ Homed' /\ PagesApart' /\ Roomy'
  BY <1>1, <1>2, <1>4, <1>6, Joins
<1>8. /\ pool' = pool /\ DOMAIN cells = Models /\ \A x \in Models : DOMAIN cells[x] = pool.slot
      /\ DOMAIN rowbuf = pool.row /\ \A b \in pool.row : DOMAIN rowbuf[b] = Rows
  BY <1>0, <1>2 DEF PoolTypes, pool
<1>9. /\ DOMAIN cells' = Models /\ \A x \in Models : DOMAIN cells'[x] = pool.slot
      /\ cells'["draft"] = cells["draft"]
      /\ \A b \in pool.slot :
           cells'["target"][b] = LoadBuffer(cells["target"][b], host[r].kv[b], slots)
  <2>0. "target" \in Models /\ "draft" \in Models
    BY DEF Models
  <2>1. /\ DOMAIN cells' = Models /\ cells'["target"] = Load(cells["target"], host[r].kv, slots)
        /\ cells'["draft"] = cells["draft"]
    BY <1>2, <1>8, <2>0
  <2>2. /\ DOMAIN Load(cells["target"], host[r].kv, slots) = pool.slot
        /\ \A b \in pool.slot :
             Load(cells["target"], host[r].kv, slots)[b] = LoadBuffer(cells["target"][b], host[r].kv[b], slots)
    BY <1>3, <1>8, <2>0 DEF Load
  <2>3. \A x \in Models : x = "target" \/ x = "draft"
    BY DEF Models
  <2> QED
    BY <1>8, <2>0, <2>1, <2>2, <2>3
<1>10. /\ DOMAIN rowbuf' = pool.row
       /\ \A b \in pool.row :
            /\ DOMAIN rowbuf'[b] = Rows /\ rowbuf'[b][LastRow] = host[r].row[b]
            /\ \A w \in Rows \ {LastRow} : rowbuf'[b][w] = rowbuf[b][w]
  <2>1. \A b \in pool.row : rowbuf'[b] = [rowbuf[b] EXCEPT ![LastRow] = host[r].row[b]]
    BY <1>2, <1>3, <1>8 DEF RowLoad
  <2>2. DOMAIN rowbuf' = pool.row
    BY <1>2, <1>8 DEF RowLoad
  <2> QED
    BY <1>7, <1>8, <2>1, <2>2
<1>11. PoolTypes'
  <2>1. lost' \in [Reqs -> Nat] /\ DOMAIN host' = Reqs
    BY <1>1, <1>2, <1>5
  <2> QED
    BY <1>0, <1>2, <1>6, <1>7, <1>8, <1>9, <1>10, <2>1 DEF PoolTypes
<1>12. Copied'
  <2>1. \A q \in Reqs : status'[q] = "retracted" => q # r /\ status[q] = "retracted"
    BY <1>0, <1>2 DEF PoolTypes
  <2>2. \A q \in Reqs : q # r => host'[q] = host[q]
    BY <1>2, <1>5
  <2> QED
    BY <1>0, <1>2, <1>6, <2>1, <2>2, StillCopied
<1>13. ASSUME NEW b \in pool.slot
       PROVE  /\ \A i \in 1..m : cells'["target"][b][SlotOf(to, i - 1)] = toks[r][i]
              /\ \A q \in Running : \A i \in 1..SeqLen(q) :
                   cells'["target"][b][Loc(q, i - 1)] = cells["target"][b][Loc(q, i - 1)]
  <2>1. slots \in Seq(Locs) /\ Len(slots) = m /\ Distinct(slots)
    BY <1>0, <1>1, <1>2, FreshIs
  <2>2. toks[r] \in Seq(AnyToken) /\ Len(toks[r]) = m
    BY <1>2, <1>5, <1>6
  <2>3. \A k \in 1..Pieces(toks[r], ChunkSize) : \A j \in 1..Len(Piece(toks[r], k, ChunkSize)) :
          host[r].kv[b][k][j] = toks[r][(k - 1) * ChunkSize + j]
    BY <1>0, <1>2, <1>3 DEF Copied
  <2>4. ChunkSize \in Nat \ {0}
    BY PoolSizes
  <2> HIDE DEF slots
  <2>5. /\ Pieces(toks[r], ChunkSize) = Pieces(slots, ChunkSize)
        /\ \A k \in 1..Pieces(toks[r], ChunkSize) :
             Len(Piece(toks[r], k, ChunkSize)) = Len(Piece(slots, k, ChunkSize))
    BY <2>1, <2>2, <2>4, SamePieces
  <2>6. \A k \in 1..Pieces(slots, ChunkSize) : \A j \in 1..Len(Piece(slots, k, ChunkSize)) :
          host[r].kv[b][k][j] = toks[r][(k - 1) * ChunkSize + j]
    BY <2>3, <2>5
  <2> DEFINE copy == host[r].kv[b]
             val == toks[r]
  <2>7. \A k \in 1..Pieces(slots, ChunkSize) : \A j \in 1..Len(Piece(slots, k, ChunkSize)) :
          copy[k][j] = val[(k - 1) * ChunkSize + j]
    BY <2>6
  <2> HIDE DEF copy, val
  <2>8. Lands(LoadBuffer(cells["target"][b], copy, slots), cells["target"][b], slots, val)
    BY <2>1, <2>7, LoadIs
  <2>9. Lands(cells'["target"][b], cells["target"][b], slots, toks[r])
    BY <1>9, <2>8 DEF copy, val
  <2> QED
    BY <1>1, <1>2, <2>9, NewBuffer DEF slots
<1>14. ASSUME NEW q \in Running'
       PROVE  /\ \A b \in pool.slot : \A i \in 1..Len(toks'[q]) :
                   cells'["target"][b][SlotOf(pages'[q], i - 1)] = toks'[q][i]
              /\ \A b \in pool.row : rowbuf'[b][row'[q]] = Last(toks'[q])
              /\ \A b \in pool.slot : \A i \in lost'[q] + 1..Len(toks'[q]) :
                   cells'["draft"][b][SlotOf(pages'[q], i - 1)] = toks'[q][i]
  <2>0. q \in Reqs /\ lost[q] \in Nat
    BY <1>0, <1>7, RunningIs DEF PoolTypes
  <2>1. CASE q = r
    <3>1. pages'[q] = to /\ row'[q] = LastRow /\ toks'[q] = toks[r] /\ lost'[q] = m
      BY <1>0, <1>2, <1>5, <2>1 DEF PoolTypes
    <3>2. \A b \in pool.row : host[r].row[b] = Last(toks[r])
      BY <1>0, <1>2, <1>3 DEF Copied
    <3>3. \A i \in lost'[q] + 1..Len(toks'[q]) : FALSE
      BY <1>1, <1>6, <2>1, <3>1
    <3>4. Len(toks'[q]) = m
      BY <1>6, <2>1
    <3> QED
      BY <1>10, <1>13, <3>1, <3>2, <3>3, <3>4
  <2>2. CASE q # r
    <3>1. q \in Running
      BY <1>7, <2>2
    <3>2. pages'[q] = pages[q] /\ row'[q] = row[q] /\ toks'[q] = toks[q] /\ Len(toks[q]) = SeqLen(q) /\ lost'[q] = lost[q]
      BY <1>0, <1>2, <1>6, <2>0, <2>2 DEF PoolTypes, SeqLen
    <3>3. \A i : SlotOf(pages'[q], i) = Loc(q, i)
      BY <3>2 DEF Loc
    <3>4. row[q] \in Rows \ {LastRow}
      BY <1>0, <1>7, <3>1 DEF Homed
    <3>5. \A b \in pool.row : rowbuf[b][row[q]] = Last(toks[q])
      BY <1>0, <3>1 DEF Whole
    <3>6. \A b \in pool.slot : \A i \in 1..SeqLen(q) : cells["target"][b][Loc(q, i - 1)] = toks[q][i]
      BY <1>0, <3>1 DEF Whole
    <3>7. \A b \in pool.slot : \A i \in lost[q] + 1..SeqLen(q) : cells["draft"][b][Loc(q, i - 1)] = toks[q][i]
      BY <1>0, <3>1 DEF BranchesWhole
    <3>10. \A b \in pool.row : rowbuf'[b][row[q]] = rowbuf[b][row[q]]
      BY <1>10, <3>4
    <3> QED
      BY <1>9, <1>13, <3>1, <3>2, <3>3, <3>5, <3>6, <3>7, <3>10
  <2> QED
    BY <2>1, <2>2
<1>15. Whole' /\ BranchesWhole'
  <2>1. drafted' = FALSE
    BY <1>0, <1>2 DEF PoolTypes
  <2> QED
    BY <1>2, <1>14, <2>1, WholeStep
<1> QED
  BY <1>7, <1>11, <1>12, <1>15 DEF PoolInv

\* r gives its row and pages back.
LEMMA Leaves ==
  ASSUME PoolInv, NEW r \in Running, ~drafted,
         rowfree' = Append(rowfree, row[r]), row' = [row EXCEPT ![r] = NoRow],
         pages' = [pages EXCEPT ![r] = <<>>],
         NEW st \in {"retracted", "finished"}, status' = [status EXCEPT ![r] = st],
         DOMAIN host' = Reqs,
         kind' = kind, cells' = cells, rowbuf' = rowbuf, toks' = toks, drafted' = drafted, lost' = lost
  PROVE  /\ PoolTypes' /\ Homed' /\ PagesApart' /\ Roomy' /\ Whole' /\ BranchesWhole'
         /\ \A q \in Reqs \ {r} : status'[q] = status[q]
         /\ status'[r] = st
<1>0. PoolTypes /\ Homed /\ PagesApart /\ Roomy /\ Whole /\ BranchesWhole
  BY DEF PoolInv
<1>1. /\ r \in Reqs
      /\ pages \in [Reqs -> Seq(1..NumPages)] /\ row \in [Reqs -> Rows \cup {NoRow}]
      /\ status \in [Reqs -> {"waiting", "running", "retracted", "finished"}]
      /\ rowfree \in Seq(Rows) /\ row[r] \in Rows
  BY <1>0, RunningIs DEF PoolTypes, Homed
<1>2. /\ Running' = Running \ {r} /\ \A q \in Reqs \ {r} : status'[q] = status[q]
      /\ status'[r] = st /\ status' \in [Reqs -> {"waiting", "running", "retracted", "finished"}]
  BY <1>1 DEF Running
<1>3. /\ rowfree' \in Seq(Rows) /\ Len(rowfree') = Len(rowfree) + 1 /\ Len(rowfree) \in Nat
      /\ \A i \in 1..Len(rowfree) : rowfree'[i] = rowfree[i]
      /\ rowfree'[Len(rowfree) + 1] = row[r]
  BY <1>1, AppendProperties, LenProperties
<1>4. row' \in [Reqs -> Rows \cup {NoRow}] /\ \A q \in Reqs \ {r} : row'[q] = row[q]
  BY <1>1
<1>5. /\ pages' \in [Reqs -> Seq(1..NumPages)] /\ pages'[r] = <<>>
      /\ \A q \in Reqs \ {r} : pages'[q] = pages[q]
  <2>1. <<>> \in Seq(1..NumPages)
    BY EmptySeq
  <2> QED
    BY <1>1, <2>1
<1>6. pool' = pool
  BY DEF pool
<1>7. PoolTypes'
  BY <1>0, <1>2, <1>3, <1>4, <1>5, <1>6 DEF PoolTypes
<1>8. Homed'
  <2>1. ASSUME NEW i \in 1..Len(rowfree'), NEW k \in 1..Len(rowfree'), rowfree'[i] = rowfree'[k] PROVE i = k
    <3>1. \A x \in 1..Len(rowfree') : x \in 1..Len(rowfree) \/ x = Len(rowfree) + 1
      BY <1>3
    <3>2. \A x \in 1..Len(rowfree) : rowfree[x] # row[r]
      BY <1>0 DEF Homed
    <3>3. \A x, y \in 1..Len(rowfree) : rowfree[x] = rowfree[y] => x = y
      BY <1>0 DEF Homed, Distinct
    <3> QED
      BY <1>3, <2>1, <3>1, <3>2, <3>3
  <2>2. ASSUME NEW q \in Running'
        PROVE  row'[q] \in Rows /\ \A i \in 1..Len(rowfree') : rowfree'[i] # row'[q]
    <3>1. q \in Running /\ q # r /\ q \in Reqs
      BY <1>2, RunningIs
    <3>2. row'[q] = row[q] /\ row[q] \in Rows /\ row[q] # row[r] /\ \A i \in 1..Len(rowfree) : rowfree[i] # row[q]
      BY <1>0, <1>4, <3>1 DEF Homed
    <3>3. \A x \in 1..Len(rowfree') : x \in 1..Len(rowfree) \/ x = Len(rowfree) + 1
      BY <1>3
    <3> QED
      BY <1>3, <3>2, <3>3
  <2>3. \A q, p \in Running' : row'[q] = row'[p] => q = p
    BY <1>0, <1>2, <1>4, RunningIs DEF Homed
  <2> QED
    BY <2>1, <2>2, <2>3 DEF Homed, Distinct
<1>9. PagesApart'
  <2>1. \A q \in Reqs : \A i \in DOMAIN pages'[q] : q # r /\ pages'[q] = pages[q]
    BY <1>5
  <2> QED
    BY <1>0, <2>1 DEF PagesApart
<1>10. Roomy'
  <2> SUFFICES ASSUME NEW q \in Running'
               PROVE  Len(toks'[q]) > 0 /\ Len(toks'[q]) <= Len(pages'[q]) * PageSlots
    BY DEF Roomy, SeqLen
  <2>1. q \in Running /\ pages'[q] = pages[q]
    BY <1>2, <1>5, RunningIs
  <2> QED
    BY <1>0, <2>1 DEF Roomy, SeqLen
<1>11. drafted' = FALSE
  BY <1>0 DEF PoolTypes
<1>12. ASSUME NEW q \in Running'
       PROVE  /\ \A b \in pool.slot : \A i \in 1..Len(toks'[q]) :
                   cells'["target"][b][SlotOf(pages'[q], i - 1)] = toks'[q][i]
              /\ \A b \in pool.row : rowbuf'[b][row'[q]] = Last(toks'[q])
              /\ \A b \in pool.slot : \A i \in lost'[q] + 1..Len(toks'[q]) :
                   cells'["draft"][b][SlotOf(pages'[q], i - 1)] = toks'[q][i]
  <2>1. q \in Running /\ pages'[q] = pages[q] /\ row'[q] = row[q]
    BY <1>2, <1>4, <1>5, RunningIs
  <2>2. Len(toks[q]) = SeqLen(q) /\ \A i : SlotOf(pages[q], i) = Loc(q, i)
    BY DEF SeqLen, Loc
  <2>3. /\ \A b \in pool.row : rowbuf[b][row[q]] = Last(toks[q])
        /\ \A b \in pool.slot : \A i \in 1..SeqLen(q) : cells["target"][b][Loc(q, i - 1)] = toks[q][i]
    BY <1>0, <2>1 DEF Whole
  <2>4. \A b \in pool.slot : \A i \in lost[q] + 1..SeqLen(q) : cells["draft"][b][Loc(q, i - 1)] = toks[q][i]
    BY <1>0, <2>1 DEF BranchesWhole
  <2> QED
    BY <2>1, <2>2, <2>3, <2>4
<1>13. Whole' /\ BranchesWhole'
  BY <1>11, <1>12, WholeStep
<1> QED
  BY <1>2, <1>7, <1>8, <1>9, <1>10, <1>13

\* Finishing keeps it: a request that stops running gives its row and pages back.
LEMMA FinishHolds ==
  ASSUME PoolInv, NEW r \in Reqs, Finish(r)
  PROVE  PoolInv'
<1>1. /\ r \in Running /\ ~drafted
      /\ rowfree' = Append(rowfree, row[r]) /\ row' = [row EXCEPT ![r] = NoRow]
      /\ pages' = [pages EXCEPT ![r] = <<>>]
      /\ status' = [status EXCEPT ![r] = "finished"]
      /\ kind' = kind /\ cells' = cells /\ rowbuf' = rowbuf /\ toks' = toks /\ host' = host
      /\ drafted' = drafted /\ lost' = lost
  BY DEF Finish
<1>2. DOMAIN host' = Reqs
  BY <1>1 DEF PoolInv, PoolTypes
<1>3. /\ PoolTypes' /\ Homed' /\ PagesApart' /\ Roomy' /\ Whole' /\ BranchesWhole'
      /\ \A q \in Reqs \ {r} : status'[q] = status[q]
      /\ status'[r] = "finished"
  BY <1>1, <1>2, Leaves
<1>4. Copied'
  <2>1. \A q \in Reqs : status'[q] = "retracted" => status[q] = "retracted"
    BY <1>3
  <2> QED
    BY <1>1, <2>1, StillCopied DEF PoolInv
<1> QED
  BY <1>3, <1>4 DEF PoolInv

\* What a pool moves or copies is a buffer it has.
LEMMA SavedSlots ==
  ASSUME Kinds \subseteq DOMAIN Class, kind \in Kinds
  PROVE  pool.saved \subseteq pool.slot /\ pool.moved \subseteq pool.slot /\ pool.kept \subseteq pool.row
<1> DEFINE Parts(c) == c.saved \subseteq c.slot /\ c.moved \subseteq c.slot /\ c.kept \subseteq c.row
<1>1. Parts(MHA)
  BY DEF MHA
<1>2. Parts(Quantized)
  BY DEF MHA, Quantized
<1>3. Parts(FP4)
  BY DEF MHA, FP4
<1>4. Parts(MXFP8)
  BY DEF MHA, FP4, MXFP8
<1>5. Parts(MLA)
  BY DEF MLA
<1>6. Parts(MLAFP4)
  BY DEF MLA, MLAFP4
<1>7. Parts(DSA)
  BY DEF MLA, DSA
<1>8. Parts(Hybrid)
  BY DEF MHA, Hybrid
<1>9. Parts(QSA)
  BY DEF MHA, Hybrid, QSA
<1>10. Parts(MiniMax)
  BY DEF MHA, MiniMax
<1>11. kind \in {"mha", "quantized", "fp4", "mxfp8", "mla", "mla_fp4", "dsa", "hybrid", "qsa", "minimax"}
  BY DEF Class
<1>12. pool \in {MHA, Quantized, FP4, MXFP8, MLA, MLAFP4, DSA, Hybrid, QSA, MiniMax}
  BY <1>11 DEF pool, Class
<1> QED
  BY <1>1, <1>2, <1>3, <1>4, <1>5, <1>6, <1>7, <1>8, <1>9, <1>10, <1>12

\* Retracting keeps it: the host copy is the tokens the slots held.
LEMMA RetractHolds ==
  ASSUME Complete, PoolInv, NEW r \in Reqs, Retract(r)
  PROVE  PoolInv'
<1> DEFINE from == LocsAt(r, 0, SeqLen(r))
<1>0. PoolTypes /\ Homed /\ PagesApart /\ Roomy /\ Copied /\ Whole /\ BranchesWhole
  BY DEF PoolInv
<1>1. /\ r \in Running /\ ~drafted /\ kind \in Offloaded
      /\ host' = [host EXCEPT ![r] = [kv |-> Copy(cells["target"], from), row |-> RowCopy(row[r])]]
      /\ rowfree' = Append(rowfree, row[r]) /\ row' = [row EXCEPT ![r] = NoRow]
      /\ pages' = [pages EXCEPT ![r] = <<>>]
      /\ status' = [status EXCEPT ![r] = "retracted"]
      /\ kind' = kind /\ cells' = cells /\ rowbuf' = rowbuf /\ toks' = toks
      /\ drafted' = drafted /\ lost' = lost
  BY DEF Retract
<1>2. DOMAIN host = Reqs /\ DOMAIN host' = Reqs
  BY <1>0, <1>1 DEF PoolTypes
<1>3. /\ PoolTypes' /\ Homed' /\ PagesApart' /\ Roomy' /\ Whole' /\ BranchesWhole'
      /\ \A q \in Reqs \ {r} : status'[q] = status[q]
  BY <1>1, <1>2, Leaves
<1>4. /\ host'[r].kv = Copy(cells["target"], from) /\ host'[r].row = RowCopy(row[r])
      /\ \A q \in Reqs \ {r} : host'[q] = host[q]
  BY <1>1, <1>2
<1>5. pool' = pool
  BY <1>1 DEF pool
<1>6. SeqLen(r) > 0 /\ SeqLen(r) \in Nat /\ SeqLen(r) <= Len(pages[r]) * PageSlots
      /\ toks[r] \in Seq(AnyToken) /\ Len(toks[r]) = SeqLen(r) /\ 0 + SeqLen(r) = SeqLen(r)
  BY <1>0, <1>1, SeqLenIs DEF Roomy, SeqLen
<1>7. from \in Seq(Locs) /\ Len(from) = SeqLen(r) /\ \A i \in 1..SeqLen(r) : from[i] = Loc(r, i - 1)
  <2>1. /\ from \in Seq(Locs) /\ Len(from) = SeqLen(r)
        /\ \A i \in 1..SeqLen(r) : from[i] = Loc(r, 0 + i - 1)
    BY <1>0, <1>6, LocsAtIs
  <2>2. \A i \in 1..SeqLen(r) : 0 + i - 1 = i - 1
    OBVIOUS
  <2> QED
    BY <2>1, <2>2
<1> HIDE DEF from
<1>8. ChunkSize \in Nat \ {0}
  BY PoolSizes
<1>9. /\ Pieces(toks[r], ChunkSize) = Pieces(from, ChunkSize)
      /\ \A k \in 1..Pieces(toks[r], ChunkSize) :
           Len(Piece(toks[r], k, ChunkSize)) = Len(Piece(from, k, ChunkSize))
  BY <1>6, <1>7, <1>8, SamePieces
<1>10. pool.saved \subseteq pool.slot /\ pool.kept \subseteq pool.row
  BY <1>0, SavedSlots DEF PoolTypes, Complete
<1>11. ASSUME NEW b \in pool.saved, NEW k \in 1..Pieces(toks[r], ChunkSize),
              NEW j \in 1..Len(Piece(toks[r], k, ChunkSize))
       PROVE  host'[r].kv[b][k][j] = toks[r][(k - 1) * ChunkSize + j]
  <2> DEFINE p == Piece(from, k, ChunkSize)
             i == (k - 1) * ChunkSize + j
  <2>1. k \in 1..Pieces(from, ChunkSize) /\ j \in 1..Len(p)
    BY <1>9
  <2>2. i \in 1..Len(from) /\ p[j] = from[i]
    BY <1>7, <1>8, <2>1, PieceIs
  <2>3. host'[r].kv[b][k] = Get(cells["target"][b], p)
    BY <1>4, <2>1 DEF Copy
  <2>4. host'[r].kv[b][k][j] = cells["target"][b][p[j]]
    BY <2>1, <2>3 DEF Get
  <2>5. b \in pool.slot
    BY <1>10
  <2> HIDE DEF i, p
  <2>6. cells["target"][b][Loc(r, i - 1)] = toks[r][i]
    BY <1>0, <1>1, <1>7, <2>2, <2>5 DEF Whole
  <2>7. host'[r].kv[b][k][j] = toks[r][i]
    BY <1>7, <2>2, <2>4, <2>6
  <2> QED
    BY <2>7 DEF i
<1>12. \A b \in pool.kept : host'[r].row[b] = Last(toks[r])
  BY <1>0, <1>1, <1>4, <1>10 DEF RowCopy, Whole
<1>13. Copied'
  <2> SUFFICES ASSUME NEW q \in Reqs, status'[q] = "retracted"
               PROVE  /\ kind \in Offloaded /\ Len(toks[q]) > 0
                      /\ \A b \in pool.saved : \A k \in 1..Pieces(toks[q], ChunkSize) :
                           \A j \in 1..Len(Piece(toks[q], k, ChunkSize)) :
                             host'[q].kv[b][k][j] = toks[q][(k - 1) * ChunkSize + j]
                      /\ \A b \in pool.kept : host'[q].row[b] = Last(toks[q])
    BY <1>1, <1>5 DEF Copied, SeqLen
  <2>1. CASE q = r
    BY <1>1, <1>6, <1>11, <1>12, <2>1
  <2>2. CASE q # r
    <3>1. status[q] = "retracted" /\ host'[q] = host[q]
      BY <1>3, <1>4, <2>2
    <3> QED
      BY <1>0, <3>1 DEF Copied, SeqLen
  <2> QED
    BY <2>1, <2>2
<1> QED
  BY <1>3, <1>13 DEF PoolInv

-----------------------------------------------------------------------------
(* Pages for a round                                                         *)

\* The pages a request lacks make its room a round's.
LEMMA MissingIs ==
  ASSUME PoolTypes, NEW r \in Reqs
  PROVE  NeededPages(r) \in Nat /\ Missing(r) \in Nat
<1> DEFINE n == IF Topk = 1 THEN SeqLen(r) + Steps ELSE BranchBase(r, Topk)
           m == SeqLen(r) + DraftTokens
           a == PagesFor(n)
           b == PagesFor(m)
<1>1. n \in Nat /\ m \in Nat
  <2>1. SeqLen(r) + Steps \in Nat /\ SeqLen(r) + DraftTokens \in Nat
    BY SeqLenIs, PoolSizes
  <2>2. BranchBase(r, Topk) \in Nat
    BY TopkIs, TreePlaces
  <2> QED
    BY <2>1, <2>2
<1>2. NeededPages(r) = Max({a, b})
  BY DEF NeededPages
<1> HIDE DEF n, m
<1>3. a \in Nat /\ b \in Nat
  BY <1>1, PagesForIs
<1> HIDE DEF a, b
<1>4. NeededPages(r) \in Nat
  <2>1. Max({a, b}) \in {a, b}
    BY <1>3, GreaterOf
  <2> QED
    BY <1>2, <1>3, <2>1
<1> DEFINE d == NeededPages(r) - Len(pages[r])
<1>5. d \in Int /\ 0 \in Int
  BY <1>4, SeqLenIs
<1>6. Missing(r) = Max({d, 0})
  BY DEF Missing
<1> HIDE DEF d
<1>7. Max({d, 0}) \in {d, 0} /\ 0 <= Max({d, 0})
  BY <1>5, GreaterOf
<1> QED
  BY <1>4, <1>5, <1>6, <1>7

\* The places of a list of pages stay what they are when the list grows.
LEMMA PlacesKept ==
  ASSUME NEW list \in Seq(1..NumPages), NEW longer \in Seq(1..NumPages),
         Len(list) <= Len(longer), \A i \in 1..Len(list) : longer[i] = list[i]
  PROVE  \A i \in Places(list) : SlotOf(longer, i) = SlotOf(list, i)
<1> SUFFICES ASSUME NEW i \in Places(list) PROVE SlotOf(longer, i) = SlotOf(list, i)
  OBVIOUS
<1>1. i \div PageSlots + 1 \in DOMAIN list
  BY PlaceIs
<1>2. DOMAIN list = 1..Len(list)
  BY LenProperties
<1>3. longer[i \div PageSlots + 1] = list[i \div PageSlots + 1]
  BY <1>1, <1>2
<1> QED
  BY <1>3 DEF SlotOf

\* What each request of a batch gets of the new pages.
LEMMA GivenIs ==
  ASSUME PoolTypes, NEW batch \in SetToSeqs(Running), NEW n, n = Len(batch)
  PROVE  /\ n \in Nat /\ \A i \in 0..n : Given(batch)[i] \in Nat
         /\ \A i, k \in 0..n : i <= k => Given(batch)[i] <= Given(batch)[k]
         /\ \A i, j \in 1..n : \A k :
              k \in Given(batch)[i - 1] + 1..Given(batch)[i]
              /\ k \in Given(batch)[j - 1] + 1..Given(batch)[j] => i = j
<1> DEFINE w == [i \in 1..Len(batch) |-> Missing(batch[i])]
<1>1. /\ Len(batch) \in Nat /\ \A i \in 1..Len(batch) : batch[i] \in Reqs
  BY BatchIs, RunningIs
<1>2. n \in Nat /\ Len(w) = n /\ \A i \in 1..n : w[i] \in Nat
  <2>1. \A i \in 1..n : Missing(batch[i]) \in Nat
    BY <1>1, MissingIs
  <2>2. w \in [1..n -> Nat]
    BY <2>1
  <2>3. n \in Nat
    BY <1>1
  <2> HIDE DEF w
  <2>4. Len(w) = n
    BY <2>2, <2>3, ListIs
  <2> QED
    BY <2>2, <2>3, <2>4
<1>3. Given(batch) = Sums(w)
  BY DEF Given
<1> HIDE DEF w
<1>4. Sums(w) \in [0..n -> Nat]
  BY <1>2, SumsAre
<1>5. \A i, k \in 0..n : i <= k => Sums(w)[i] <= Sums(w)[k]
  BY <1>2, SumsGrow
<1>6. \A i, j \in 1..n : \A k : k \in Sums(w)[i - 1] + 1..Sums(w)[i] /\ k \in Sums(w)[j - 1] + 1..Sums(w)[j]
                => i = j
  BY <1>2, ShareOf
<1> QED
  BY <1>2, <1>3, <1>4, <1>5, <1>6

\* Two requests' shares of the new pages do not overlap.
LEMMA SharesIs ==
  ASSUME NEW next \in Seq(1..NumPages), NEW a \in Nat, NEW b \in Nat, a <= b, b <= Len(next)
  PROVE  /\ SubSeq(next, a + 1, b) \in Seq(1..NumPages) /\ Len(SubSeq(next, a + 1, b)) = b - a
         /\ \A i \in 1..b - a : SubSeq(next, a + 1, b)[i] = next[a + i]
<1>1. Len(next) \in Nat /\ \A i \in 1..Len(next) : next[i] \in 1..NumPages
  BY ElementOfSeq, LenProperties
<1>2. a + 1 \in Int /\ b \in Int /\ \A i \in a + 1..b : next[i] \in 1..NumPages
  BY <1>1
<1>3. /\ SubSeq(next, a + 1, b) \in Seq(1..NumPages)
      /\ Len(SubSeq(next, a + 1, b)) = IF a + 1 <= b THEN b - (a + 1) + 1 ELSE 0
      /\ \A i \in 1..b - (a + 1) + 1 : SubSeq(next, a + 1, b)[i] = next[a + 1 + i - 1]
  BY <1>2, SubSeqProperties
<1>4. b - (a + 1) + 1 = b - a /\ \A i \in 1..b - a : a + 1 + i - 1 = a + i
  OBVIOUS
<1> QED
  BY <1>3, <1>4

\* Reserving keeps it: lists of pages grow at their ends, by free pages.
LEMMA ReserveHolds ==
  ASSUME PoolInv, NEW batch \in SetToSeqs(Running), Reserve(batch)
  PROVE  PoolInv'
<1> DEFINE n == Len(batch)
           S == Given(batch)
           next == NextPages(S[n])
           at(q) == CHOOSE i \in 1..n : batch[i] = q
<1>0. PoolTypes /\ Homed /\ PagesApart /\ Roomy /\ Copied /\ Whole /\ BranchesWhole
  BY DEF PoolInv
<1>1. /\ ~drafted /\ S[n] <= Cardinality(FreePages)
      /\ pages' = [q \in Reqs |->
           IF q \in Running THEN pages[q] \o SubSeq(next, S[at(q) - 1] + 1, S[at(q)]) ELSE pages[q]]
      /\ kind' = kind /\ cells' = cells /\ rowbuf' = rowbuf /\ rowfree' = rowfree /\ row' = row
      /\ toks' = toks /\ status' = status /\ host' = host /\ drafted' = drafted /\ lost' = lost
  BY DEF Reserve
<1>2. /\ n \in Nat /\ \A i \in 0..n : S[i] \in Nat
      /\ \A i, k \in 0..n : i <= k => S[i] <= S[k]
      /\ \A i, j \in 1..n : \A k : k \in S[i - 1] + 1..S[i] /\ k \in S[j - 1] + 1..S[j] => i = j
  BY <1>0, GivenIs
<1>3. \A q \in Running : at(q) \in 1..n /\ batch[at(q)] = q
  <2> TAKE q \in Running
  <2>1. \E i \in 1..n : batch[i] = q
    BY BatchIs, RunningIs
  <2> QED
    BY <2>1
<1> HIDE DEF S, n, at
<1>4. /\ next \in Seq(1..NumPages) /\ Len(next) = S[n] /\ Distinct(next)
      /\ \A i \in 1..S[n] : next[i] \in FreePages
  BY <1>1, <1>2, NextPagesIs
<1> HIDE DEF next
<1>5. pages \in [Reqs -> Seq(1..NumPages)] /\ Running \subseteq Reqs
  BY <1>0, RunningIs DEF PoolTypes
<1>6. ASSUME NEW q \in Running
      PROVE  /\ S[at(q) - 1] \in Nat /\ S[at(q)] \in Nat /\ S[at(q) - 1] <= S[at(q)] /\ S[at(q)] <= S[n]
             /\ at(q) \in 1..n
  <2>1. at(q) \in 1..n /\ at(q) - 1 \in 0..n /\ at(q) \in 0..n /\ n \in 0..n /\ at(q) - 1 <= at(q) /\ at(q) <= n
    BY <1>2, <1>3
  <2> QED
    BY <1>2, <2>1
<1>7. ASSUME NEW q \in Running
      PROVE  /\ pages'[q] \in Seq(1..NumPages)
             /\ Len(pages'[q]) = Len(pages[q]) + (S[at(q)] - S[at(q) - 1])
             /\ \A i \in 1..Len(pages[q]) : pages'[q][i] = pages[q][i]
             /\ \A i \in 1..S[at(q)] - S[at(q) - 1] :
                  pages'[q][Len(pages[q]) + i] = next[S[at(q) - 1] + i]
  <2> DEFINE a == S[at(q) - 1]
             b == S[at(q)]
             more == SubSeq(next, a + 1, b)
  <2>1. a \in Nat /\ b \in Nat /\ a <= b /\ b <= Len(next)
    BY <1>4, <1>6
  <2>2. pages'[q] = pages[q] \o more
    BY <1>1, <1>5
  <2> HIDE DEF a, b
  <2>3. more \in Seq(1..NumPages) /\ Len(more) = b - a /\ \A i \in 1..b - a : more[i] = next[a + i]
    BY <1>4, <2>1, SharesIs
  <2> HIDE DEF more
  <2>4. pages[q] \in Seq(1..NumPages) /\ Len(pages[q]) \in Nat
    BY <1>5, LenProperties
  <2>5. /\ pages[q] \o more \in Seq(1..NumPages) /\ Len(pages[q] \o more) = Len(pages[q]) + Len(more)
        /\ \A i \in 1..Len(pages[q]) + Len(more) :
             (pages[q] \o more)[i] = IF i <= Len(pages[q]) THEN pages[q][i] ELSE more[i - Len(pages[q])]
    BY <2>3, <2>4, ConcatProperties
  <2>6. \A i \in 1..Len(pages[q]) : pages'[q][i] = pages[q][i]
    BY <2>1, <2>2, <2>3, <2>4, <2>5
  <2>7. ASSUME NEW i \in 1..b - a PROVE pages'[q][Len(pages[q]) + i] = next[a + i]
    <3> DEFINE L == Len(pages[q])
    <3>1. L \in Nat
      BY <2>4
    <3>2. \A x \in 1..L + (b - a) : pages'[q][x] = IF x <= L THEN pages[q][x] ELSE more[x - L]
      BY <2>2, <2>3, <2>5
    <3> HIDE DEF L
    <3>3. L + i \in 1..L + (b - a) /\ ~(L + i <= L) /\ L + i - L = i
      BY <2>1, <3>1
    <3> QED
      BY <2>3, <3>2, <3>3 DEF L
  <2> QED
    BY <2>2, <2>3, <2>5, <2>6, <2>7 DEF a, b
<1>8. \A q \in Reqs \ Running : pages'[q] = pages[q]
  BY <1>1
<1>9. pages' \in [Reqs -> Seq(1..NumPages)]
  <2>1. DOMAIN pages' = Reqs /\ pages' = [q \in Reqs |-> pages'[q]]
    BY <1>1
  <2>2. \A q \in Reqs : pages'[q] \in Seq(1..NumPages)
    BY <1>5, <1>7, <1>8
  <2> QED
    BY <2>1, <2>2
<1>10. ASSUME NEW q \in Reqs
       PROVE  /\ Len(pages[q]) \in Nat /\ Len(pages'[q]) \in Nat /\ Len(pages[q]) <= Len(pages'[q])
              /\ DOMAIN pages[q] = 1..Len(pages[q]) /\ DOMAIN pages'[q] = 1..Len(pages'[q])
              /\ \A i \in 1..Len(pages[q]) : pages'[q][i] = pages[q][i]
              /\ \A i \in 1..Len(pages'[q]) :
                   i \in 1..Len(pages[q])
                   \/ /\ q \in Running
                      /\ \E k \in S[at(q) - 1] + 1..S[at(q)] :
                           i = Len(pages[q]) + (k - S[at(q) - 1]) /\ k \in 1..S[n] /\ pages'[q][i] = next[k]
  <2>1. /\ Len(pages[q]) \in Nat /\ Len(pages'[q]) \in Nat
        /\ DOMAIN pages[q] = 1..Len(pages[q]) /\ DOMAIN pages'[q] = 1..Len(pages'[q])
    BY <1>5, <1>9, LenProperties
  <2>2. CASE q \notin Running
    BY <1>8, <2>1, <2>2
  <2>3. CASE q \in Running
    <3> DEFINE a == S[at(q) - 1]
               b == S[at(q)]
               t == S[n]
               L == Len(pages[q])
               M == Len(pages'[q])
    <3>1. a \in Nat /\ b \in Nat /\ t \in Nat /\ a <= b /\ b <= t /\ L \in Nat
      BY <1>2, <1>6, <2>1, <2>3
    <3>2. M = L + (b - a) /\ \A i \in 1..L : pages'[q][i] = pages[q][i]
      BY <1>7, <2>3
    <3>3. \A i \in 1..b - a : pages'[q][L + i] = next[a + i]
      BY <1>7, <2>3
    <3> HIDE DEF a, b, t, L, M
    <3>4. ASSUME NEW i \in 1..M, i \notin 1..L
          PROVE  \E k \in a + 1..b : i = L + (k - a) /\ k \in 1..t /\ pages'[q][i] = next[k]
      <4> DEFINE k == a + (i - L)
      <4>1. i - L \in 1..b - a /\ L + (i - L) = i
        BY <3>1, <3>2, <3>4
      <4>2. pages'[q][i] = next[k]
        BY <3>3, <4>1
      <4>3. k \in a + 1..b /\ i = L + (k - a) /\ k \in 1..t
        BY <3>1, <3>2, <3>4
      <4> QED
        BY <4>2, <4>3
    <3>5. L <= M
      BY <3>1, <3>2
    <3> QED
      BY <2>1, <2>3, <3>2, <3>4, <3>5 DEF a, b, t, L, M
  <2> QED
    BY <2>2, <2>3
<1>11. \A q \in Reqs : \A i \in DOMAIN pages[q] : pages[q][i] \notin FreePages
  BY DEF FreePages, ToSet
<1>12. PagesApart'
  <2> SUFFICES ASSUME NEW q \in Reqs, NEW p \in Reqs, NEW i \in 1..Len(pages'[q]), NEW j \in 1..Len(pages'[p]),
                      pages'[q][i] = pages'[p][j]
               PROVE  q = p /\ i = j
    BY <1>10 DEF PagesApart
  <2> DEFINE Old(x, y) == y \in 1..Len(pages[x])
  <2>1. ASSUME NEW x \in Reqs, NEW y \in 1..Len(pages'[x]), Old(x, y)
        PROVE  pages'[x][y] = pages[x][y] /\ y \in DOMAIN pages[x] /\ pages'[x][y] \notin FreePages
    BY <1>10, <1>11, <2>1
  <2>2. ASSUME NEW x \in Reqs, NEW y \in 1..Len(pages'[x]), ~Old(x, y)
        PROVE  /\ x \in Running /\ pages'[x][y] \in FreePages
               /\ \E k \in S[at(x) - 1] + 1..S[at(x)] :
                    y = Len(pages[x]) + (k - S[at(x) - 1]) /\ k \in 1..S[n] /\ pages'[x][y] = next[k]
    BY <1>4, <1>10, <2>2
  <2> HIDE DEF Old
  <2>3. CASE Old(q, i) /\ Old(p, j)
    BY <1>0, <2>1, <2>3 DEF PagesApart
  <2>4. CASE Old(q, i) /\ ~Old(p, j)
    BY <2>1, <2>2, <2>4
  <2>5. CASE ~Old(q, i) /\ Old(p, j)
    BY <2>1, <2>2, <2>5
  <2>6. CASE ~Old(q, i) /\ ~Old(p, j)
    <3>1. PICK k \in S[at(q) - 1] + 1..S[at(q)] :
            i = Len(pages[q]) + (k - S[at(q) - 1]) /\ k \in 1..S[n] /\ pages'[q][i] = next[k]
      BY <2>2, <2>6
    <3>2. PICK l \in S[at(p) - 1] + 1..S[at(p)] :
            j = Len(pages[p]) + (l - S[at(p) - 1]) /\ l \in 1..S[n] /\ pages'[p][j] = next[l]
      BY <2>2, <2>6
    <3>3. k = l
      BY <1>4, <3>1, <3>2 DEF Distinct
    <3>4. at(q) \in 1..n /\ at(p) \in 1..n /\ batch[at(q)] = q /\ batch[at(p)] = p
      BY <1>3, <2>2, <2>6
    <3>5. at(q) = at(p)
      BY <1>2, <3>1, <3>2, <3>3, <3>4
    <3>6. q = p
      BY <3>4, <3>5
    <3> QED
      BY <3>1, <3>2, <3>3, <3>6
  <2> QED
    BY <2>3, <2>4, <2>5, <2>6
<1>13. pool' = pool /\ Running' = Running /\ drafted' = FALSE
  BY <1>0, <1>1 DEF pool, Running, PoolTypes
<1>14. PoolTypes' /\ Homed'
  BY <1>0, <1>1, <1>9, <1>13 DEF PoolTypes, Homed
<1>15. Roomy'
  <2> SUFFICES ASSUME NEW q \in Running
               PROVE  Len(toks[q]) > 0 /\ Len(toks[q]) <= Len(pages'[q]) * PageSlots
    BY <1>1, <1>13 DEF Roomy, SeqLen
  <2> DEFINE a == Len(pages[q])
             b == Len(pages'[q])
             t == Len(toks[q])
  <2>1. t > 0 /\ t <= a * PageSlots
    BY <1>0 DEF Roomy, SeqLen
  <2>2. q \in Reqs /\ t \in Nat
    BY <1>0, <1>5, SeqLenIs DEF SeqLen
  <2>3. a \in Nat /\ b \in Nat /\ a <= b /\ PageSlots \in Nat
    BY <1>10, <2>2, PoolSizes
  <2> HIDE DEF a, b, t
  <2>4. a * PageSlots \in Nat /\ b * PageSlots \in Nat /\ a * PageSlots <= b * PageSlots
    BY <2>3, Products
  <2>5. t > 0 /\ t <= b * PageSlots
    BY <2>1, <2>2, <2>4
  <2> QED
    BY <2>5 DEF b, t
<1>16. Copied'
  BY <1>0, <1>1, StillCopied
<1>17. ASSUME NEW q \in Running, NEW i \in 1..SeqLen(q) PROVE SlotOf(pages'[q], i - 1) = Loc(q, i - 1)
  <2>1. i - 1 \in Places(pages[q]) /\ q \in Reqs
    BY <1>0, <1>5, KeptPlaces
  <2>2. pages[q] \in Seq(1..NumPages) /\ pages'[q] \in Seq(1..NumPages)
    BY <1>5, <1>9, <2>1
  <2>3. Len(pages[q]) <= Len(pages'[q]) /\ \A x \in 1..Len(pages[q]) : pages'[q][x] = pages[q][x]
    BY <1>10, <2>1
  <2>4. SlotOf(pages'[q], i - 1) = SlotOf(pages[q], i - 1)
    BY <2>1, <2>2, <2>3, PlacesKept
  <2> QED
    BY <2>4 DEF Loc
<1>18. ASSUME NEW q \in Running'
       PROVE  /\ \A b \in pool.slot : \A i \in 1..Len(toks'[q]) :
                   cells'["target"][b][SlotOf(pages'[q], i - 1)] = toks'[q][i]
              /\ \A b \in pool.row : rowbuf'[b][row'[q]] = Last(toks'[q])
              /\ \A b \in pool.slot : \A i \in lost'[q] + 1..Len(toks'[q]) :
                   cells'["draft"][b][SlotOf(pages'[q], i - 1)] = toks'[q][i]
  <2>1. q \in Running /\ q \in Reqs /\ lost[q] \in Nat
    BY <1>0, <1>5, <1>13 DEF PoolTypes
  <2>2. Len(toks[q]) = SeqLen(q) /\ \A i \in lost[q] + 1..SeqLen(q) : i \in 1..SeqLen(q)
    BY <2>1 DEF SeqLen
  <2>3. /\ \A b \in pool.row : rowbuf[b][row[q]] = Last(toks[q])
        /\ \A b \in pool.slot : \A i \in 1..SeqLen(q) : cells["target"][b][Loc(q, i - 1)] = toks[q][i]
    BY <1>0, <2>1 DEF Whole
  <2>4. \A b \in pool.slot : \A i \in lost[q] + 1..SeqLen(q) : cells["draft"][b][Loc(q, i - 1)] = toks[q][i]
    BY <1>0, <2>1 DEF BranchesWhole
  <2>5. /\ cells' = cells /\ rowbuf' = rowbuf /\ row' = row /\ toks' = toks /\ lost' = lost
    BY <1>1
  <2>6. \A i \in 1..Len(toks[q]) : SlotOf(pages'[q], i - 1) = Loc(q, i - 1)
    BY <1>17, <2>1, <2>2
  <2>7. \A b \in pool.slot : \A i \in 1..Len(toks'[q]) :
          cells'["target"][b][SlotOf(pages'[q], i - 1)] = toks'[q][i]
    BY <2>2, <2>3, <2>5, <2>6
  <2>8. \A b \in pool.slot : \A i \in lost'[q] + 1..Len(toks'[q]) :
          cells'["draft"][b][SlotOf(pages'[q], i - 1)] = toks'[q][i]
    BY <2>2, <2>4, <2>5, <2>6
  <2> QED
    BY <2>3, <2>5, <2>7, <2>8
<1>19. Whole' /\ BranchesWhole'
  BY <1>1, <1>13, <1>18, WholeStep
<1> QED
  BY <1>12, <1>14, <1>15, <1>16, <1>19 DEF PoolInv

-----------------------------------------------------------------------------
(* A tree is drafted                                                         *)

\* A list of n rows of w, row after row.
LEMMA Grid ==
  ASSUME NEW n \in Nat, NEW w \in Nat \ {0}
  PROVE  /\ n * w \in Nat
         /\ \A i \in 1..n * w :
              /\ (i - 1) \div w \in 0..n - 1 /\ (i - 1) % w \in 0..w - 1
              /\ i = ((i - 1) \div w) * w + ((i - 1) % w) + 1
         /\ \A t \in 0..n - 1, x \in 0..w - 1 :
              /\ t * w + x + 1 \in 1..n * w
              /\ (t * w + x + 1 - 1) \div w = t /\ (t * w + x + 1 - 1) % w = x
<1> DEFINE m == n * w
<1>1. m \in Nat
  OBVIOUS
<1> HIDE DEF m
<1>2. ASSUME NEW i \in 1..m
      PROVE  /\ (i - 1) \div w \in 0..n - 1 /\ (i - 1) % w \in 0..w - 1
             /\ i = ((i - 1) \div w) * w + ((i - 1) % w) + 1
  <2>1. i - 1 \in Nat
    BY <1>1
  <2> DEFINE t == (i - 1) \div w
             x == (i - 1) % w
  <2>2. t \in Nat /\ x \in 0..w - 1 /\ i - 1 = t * w + x
    BY <2>1, Divides
  <2> HIDE DEF t, x
  <2>3. t * w \in Nat
    BY <2>2
  <2>4. ASSUME n <= t PROVE FALSE
    <3>1. n * w <= t * w
      BY <2>2, <2>4, Products
    <3> DEFINE p == t * w
    <3>2. p \in Nat /\ m <= p /\ i - 1 = p + x
      BY <2>2, <2>3, <3>1 DEF m
    <3> HIDE DEF p
    <3> QED
      BY <1>1, <2>2, <3>2
  <2>5. t \in 0..n - 1
    BY <2>2, <2>4
  <2>6. i = t * w + x + 1
    <3> DEFINE p == t * w
    <3>1. p \in Nat /\ i - 1 = p + x
      BY <2>2, <2>3
    <3> HIDE DEF p
    <3>2. i = p + x + 1
      BY <1>1, <2>2, <3>1
    <3> QED
      BY <3>2 DEF p
  <2> QED
    BY <2>2, <2>5, <2>6 DEF t, x
<1>3. ASSUME NEW t \in 0..n - 1, NEW x \in 0..w - 1
      PROVE  /\ t * w + x + 1 \in 1..m
             /\ (t * w + x + 1 - 1) \div w = t /\ (t * w + x + 1 - 1) % w = x
  <2>1. t \in Nat /\ t < n /\ t <= n
    OBVIOUS
  <2>2. t * w \in Nat /\ t * w + w <= n * w
    BY <2>1, Products
  <2>3. (t * w + x) \div w = t /\ (t * w + x) % w = x
    BY <2>1, Divided
  <2> DEFINE p == t * w
  <2>4. p \in Nat /\ p + w <= m
    BY <2>2 DEF m
  <2>5. (p + x) \div w = t /\ (p + x) % w = x
    BY <2>3
  <2> HIDE DEF p
  <2>6. p + x + 1 \in 1..m /\ p + x + 1 - 1 = p + x
    BY <1>1, <2>4
  <2>7. (p + x + 1 - 1) \div w = t /\ (p + x + 1 - 1) % w = x
    BY <2>5, <2>6
  <2> QED
    BY <2>6, <2>7 DEF p
<1> QED
  BY <1>1, <1>2, <1>3 DEF m

\* The slots of a tree are r's.
LEMMA TreeRoom ==
  ASSUME PoolTypes, NEW r \in Reqs, NeededPages(r) <= Len(pages[r]),
         NEW t \in 0..Topk - 1, NEW x \in 0..LastPage(r) + Steps - 1
  PROVE  BranchBase(r, t) + x \in Places(pages[r])
<1> DEFINE L == LastPage(r)
           M == Len(pages[r]) * PageSlots
           B == BranchBase(r, t)
           E == BranchBase(r, Topk)
<1>1. L \in Nat /\ Steps \in Nat \ {0} /\ Topk \in Nat \ {0} /\ M \in Nat /\ SeqLen(r) \in Nat
  BY BranchIs, PoolSizes, TopkIs, SeqLenIs
<1>2. t \in Nat /\ Topk \in Nat /\ t < Topk
  BY <1>1
<1>3. B \in Nat /\ E \in Nat /\ B + L + Steps <= E
  BY <1>2, TreePlaces
<1>4. B + x < M
  <2>1. CASE Topk = 1
    <3>1. SeqLen(r) + Steps <= M
      BY <2>1, RoundRoom
    <3>2. t = 0
      BY <1>2, <2>1
    <3>3. B = PrefixBase(r) /\ PrefixBase(r) \in Nat /\ PrefixBase(r) + L = SeqLen(r)
      BY <3>2, TreePlaces, BranchIs
    <3> HIDE DEF B, M, L
    <3> QED
      BY <1>1, <3>1, <3>3 DEF L
  <2>2. CASE Topk # 1
    <3>1. E <= M
      BY <2>2, RoundRoom
    <3>2. x \in 0..L + Steps - 1
      OBVIOUS
    <3> HIDE DEF B, M, E, L
    <3> QED
      BY <1>1, <1>3, <3>1, <3>2
  <2> QED
    BY <2>1, <2>2
<1>5. B + x \in Nat
  BY <1>1, <1>3
<1> HIDE DEF B, M
<1>6. B + x \in 0..M - 1
  BY <1>1, <1>3, <1>4, <1>5
<1> QED
  BY <1>6 DEF Places, B, M

\* Where a tree is written, and what.
DraftAt(r, t, s) == BranchBase(r, t) + (LastPage(r) + s - 1)
TreeSlots(r) ==
  [i \in 1..Topk * Steps |-> BranchSlots(r, (i - 1) \div Steps)[((i - 1) % Steps) + 1]]
TreeTokens(r) ==
  [i \in 1..Topk * Steps |-> Draft(r, (i - 1) \div Steps, ((i - 1) % Steps) + 1)]

\* The slots a branch writes lie on its pages, behind the tail.
LEMMA BranchSlotsIs ==
  ASSUME PoolTypes, NEW r \in Reqs, NeededPages(r) <= Len(pages[r]), NEW t \in 0..Topk - 1
  PROVE  /\ BranchSlots(r, t) \in Seq(Locs) /\ Len(BranchSlots(r, t)) = Steps
         /\ \A s \in 1..Steps :
              /\ BranchSlots(r, t)[s] = Loc(r, DraftAt(r, t, s))
              /\ DraftAt(r, t, s) \in Places(pages[r]) /\ Loc(r, DraftAt(r, t, s)) \in Locs
              /\ LastPage(r) + s - 1 \in 0..LastPage(r) + Steps - 1
              /\ SeqLen(r) <= DraftAt(r, t, s)
<1> DEFINE L == LastPage(r)
           B == BranchBase(r, t)
           lo == B + L
           M == Len(pages[r]) * PageSlots
<1>1. L \in Nat /\ Steps \in Nat \ {0} /\ Topk \in Nat \ {0} /\ M \in Nat /\ SeqLen(r) \in Nat
      /\ PrefixBase(r) \in Nat /\ PrefixBase(r) + L = SeqLen(r)
  BY BranchIs, PoolSizes, TopkIs, SeqLenIs
<1>2. t \in Nat /\ (Topk = 1 => t = 0)
  BY <1>1
<1>3. B \in Nat
  BY <1>2, TreePlaces
<1>4. SeqLen(r) <= lo
  <2>1. CASE t = 0
    <3>1. B = PrefixBase(r)
      BY <2>1, TreePlaces
    <3> QED
      BY <1>1, <3>1
  <2>2. CASE t # 0
    <3>1. SeqLen(r) + Steps <= B
      BY <1>2, <2>2, TreePlaces
    <3> HIDE DEF B, L
    <3> QED
      BY <1>1, <1>3, <3>1
  <2> QED
    BY <2>1, <2>2
<1>5. Topk = 1 => lo = SeqLen(r)
  <2>1. ASSUME Topk = 1 PROVE B = PrefixBase(r)
    BY <1>2, <2>1, TreePlaces
  <2> QED
    BY <1>1, <2>1
<1>6. BranchSlots(r, t) = LocsAt(r, lo, Steps)
  BY <1>5 DEF BranchSlots
<1>7. \A s \in 1..Steps : DraftAt(r, t, s) = lo + s - 1 /\ L + s - 1 \in 0..L + Steps - 1
  <2> HIDE DEF B, L
  <2> QED
    BY <1>1, <1>3 DEF DraftAt, B, L
<1>8. \A s \in 1..Steps : DraftAt(r, t, s) \in Places(pages[r])
  BY <1>7, TreeRoom DEF DraftAt
<1>9. lo \in Nat /\ lo + Steps <= M
  <2>1. Steps \in 1..Steps
    BY <1>1
  <2>2. lo + Steps - 1 \in 0..M - 1
    BY <1>7, <1>8, <2>1 DEF Places
  <2>3. lo \in Nat
    BY <1>1, <1>3
  <2>4. Steps \in Nat \ {0} /\ M \in Nat
    BY <1>1
  <2> HIDE DEF lo, M
  <2> QED
    BY <2>2, <2>3, <2>4
<1> HIDE DEF lo
<1>10. /\ LocsAt(r, lo, Steps) \in Seq(Locs) /\ Len(LocsAt(r, lo, Steps)) = Steps
       /\ \A s \in 1..Steps : LocsAt(r, lo, Steps)[s] = Loc(r, lo + s - 1)
  <2>1. Steps \in Nat /\ lo \in Nat /\ lo + Steps <= Len(pages[r]) * PageSlots
    BY <1>1, <1>9
  <2> QED
    BY <2>1, LocsAtIs
<1>11. \A s \in 1..Steps : Loc(r, DraftAt(r, t, s)) \in Locs
  BY <1>8, LocIs
<1>12. \A s \in 1..Steps : SeqLen(r) <= DraftAt(r, t, s)
  BY <1>1, <1>4, <1>7, <1>9
<1> QED
  BY <1>6, <1>7, <1>8, <1>10, <1>11, <1>12

\* Those of the whole tree are listed branch after branch.
LEMMA TreeSlotsIs ==
  ASSUME PoolTypes, NEW r \in Reqs, NeededPages(r) <= Len(pages[r])
  PROVE  /\ TreeSlots(r) \in Seq(Locs) /\ Len(TreeTokens(r)) = Len(TreeSlots(r))
         /\ \A i \in 1..Len(TreeSlots(r)) : \E t \in 0..Topk - 1, s \in 1..Steps :
              i = t * Steps + s /\ TreeSlots(r)[i] = Loc(r, DraftAt(r, t, s))
         /\ \A t \in 0..Topk - 1, s \in 1..Steps :
              /\ t * Steps + s \in 1..Len(TreeSlots(r))
              /\ TreeSlots(r)[t * Steps + s] = Loc(r, DraftAt(r, t, s))
              /\ TreeTokens(r)[t * Steps + s] = Draft(r, t, s)
<1> DEFINE n == Topk * Steps
<1>0. \A t \in 0..Topk - 1, s \in 1..Steps :
        BranchSlots(r, t)[s] = Loc(r, DraftAt(r, t, s)) /\ Loc(r, DraftAt(r, t, s)) \in Locs
  BY BranchSlotsIs
<1>1. Topk \in Nat /\ Steps \in Nat \ {0}
  BY PoolSizes, TopkIs
<1>2. n \in Nat
  BY <1>1
<1>3. ASSUME NEW i \in 1..n
      PROVE  /\ (i - 1) \div Steps \in 0..Topk - 1 /\ ((i - 1) % Steps) + 1 \in 1..Steps
             /\ i = ((i - 1) \div Steps) * Steps + (((i - 1) % Steps) + 1)
  <2> DEFINE q == (i - 1) \div Steps
             x == (i - 1) % Steps
  <2>1. q \in 0..Topk - 1 /\ x \in 0..Steps - 1 /\ i = q * Steps + x + 1
    BY <1>1, Grid
  <2>2. q * Steps \in Nat
    BY <1>1, <2>1
  <2> HIDE DEF q, x
  <2> DEFINE p == q * Steps
  <2>3. i = p + x + 1 /\ p \in Nat
    BY <2>1, <2>2
  <2> HIDE DEF p
  <2>4. x + 1 \in 1..Steps /\ i = p + (x + 1)
    BY <1>1, <2>1, <2>3
  <2> QED
    BY <2>1, <2>4 DEF q, x, p
<1>14. \A t \in 0..Topk - 1, x \in 0..Steps - 1 :
         /\ t * Steps + x + 1 \in 1..n
         /\ (t * Steps + x + 1 - 1) \div Steps = t /\ (t * Steps + x + 1 - 1) % Steps = x
  BY <1>1, Grid
<1> HIDE DEF n
<1>4. ASSUME NEW t \in 0..Topk - 1, NEW s \in 1..Steps
      PROVE  \E k \in 1..n :
               k = t * Steps + s /\ (k - 1) \div Steps = t /\ ((k - 1) % Steps) + 1 = s
  <2> DEFINE x == s - 1
             p == t * Steps
  <2>1. x \in 0..Steps - 1 /\ x + 1 = s /\ x = s - 1
    BY <1>1
  <2> HIDE DEF x
  <2>2. p + x + 1 \in 1..n /\ (p + x + 1 - 1) \div Steps = t /\ (p + x + 1 - 1) % Steps = x
    BY <1>14, <2>1
  <2>3. p \in Nat
    BY <1>1
  <2> HIDE DEF p
  <2>4. p + x + 1 = p + s /\ p + x + 1 - 1 = p + s - 1
    BY <2>1, <2>3
  <2>5. p + s \in 1..n /\ (p + s - 1) \div Steps = t /\ (p + s - 1) % Steps = x
    BY <2>2, <2>4
  <2>6. PICK z \in 1..n : z = p + s /\ z - 1 = p + s - 1
    BY <1>2, <2>3, <2>5
  <2>7. (z - 1) \div Steps = t /\ (z - 1) % Steps = x
    BY <2>5, <2>6
  <2>8. ((z - 1) % Steps) + 1 = s
    BY <2>1, <2>7
  <2> QED
    BY <2>6, <2>7, <2>8 DEF p
<1>5. \A i \in 1..n : TreeSlots(r)[i] = BranchSlots(r, (i - 1) \div Steps)[((i - 1) % Steps) + 1]
  BY DEF TreeSlots, n
<1>6. \A i \in 1..n : TreeTokens(r)[i] = Draft(r, (i - 1) \div Steps, ((i - 1) % Steps) + 1)
  BY DEF TreeTokens, n
<1>7. ASSUME NEW t \in 0..Topk - 1, NEW s \in 1..Steps
      PROVE  /\ t * Steps + s \in 1..n
             /\ TreeSlots(r)[t * Steps + s] = Loc(r, DraftAt(r, t, s))
             /\ Loc(r, DraftAt(r, t, s)) \in Locs
             /\ TreeTokens(r)[t * Steps + s] = Draft(r, t, s)
  <2>1. PICK k \in 1..n : k = t * Steps + s /\ (k - 1) \div Steps = t /\ ((k - 1) % Steps) + 1 = s
    BY <1>4
  <2>2. BranchSlots(r, t)[s] = Loc(r, DraftAt(r, t, s)) /\ Loc(r, DraftAt(r, t, s)) \in Locs
    BY <1>0
  <2>4. TreeSlots(r)[k] = BranchSlots(r, t)[s] /\ TreeTokens(r)[k] = Draft(r, t, s)
    BY <1>5, <1>6, <2>1
  <2> QED
    BY <2>1, <2>2, <2>4
<1>8. ASSUME NEW i \in 1..n
      PROVE  \E t \in 0..Topk - 1, s \in 1..Steps :
               i = t * Steps + s /\ TreeSlots(r)[i] = Loc(r, DraftAt(r, t, s)) /\ TreeSlots(r)[i] \in Locs
  <2>1. PICK t \in 0..Topk - 1, s \in 1..Steps : i = t * Steps + s
    BY <1>3
  <2>2. TreeSlots(r)[i] = Loc(r, DraftAt(r, t, s)) /\ Loc(r, DraftAt(r, t, s)) \in Locs
    BY <1>7, <2>1
  <2> QED
    BY <2>1, <2>2
<1>9. \A i \in 1..n : TreeSlots(r)[i] \in Locs
  BY <1>8
<1>10. TreeSlots(r) = [i \in 1..n |-> TreeSlots(r)[i]] /\ TreeTokens(r) = [i \in 1..n |-> TreeTokens(r)[i]]
  BY DEF TreeSlots, TreeTokens, n
<1>11. TreeSlots(r) \in [1..n -> Locs]
  BY <1>9, <1>10
<1>12. TreeSlots(r) \in Seq(Locs) /\ Len(TreeSlots(r)) = n
  BY <1>2, <1>11, ListIs
<1>13. Len(TreeTokens(r)) = n
  <2>1. TreeTokens(r) \in [1..n -> {TreeTokens(r)[i] : i \in 1..n}]
    BY <1>10
  <2> QED
    BY <1>2, <2>1, ListIs
<1> QED
  BY <1>7, <1>8, <1>12, <1>13

\* The drafts land in the slots of the trees and nowhere else.
LEMMA DraftsLand ==
  ASSUME PoolTypes, PagesApart, NEW batch \in SetToSeqs(Running),
         \A q \in Running : NeededPages(q) <= Len(pages[q]), NEW buf, NEW out,
         out = Put(buf, OverBatch(batch, [q \in Running |-> TreeSlots(q)]),
                        OverBatch(batch, [q \in Running |-> TreeTokens(q)])),
         NEW r \in Running
  PROVE  /\ \A t \in 0..Topk - 1, s \in 1..Steps : out[Loc(r, DraftAt(r, t, s))] = Draft(r, t, s)
         /\ \A p \in Places(pages[r]) :
              (\A t \in 0..Topk - 1, s \in 1..Steps : p # DraftAt(r, t, s)) => out[Loc(r, p)] = buf[Loc(r, p)]
<1> DEFINE f == [q \in Running |-> TreeSlots(q)]
           g == [q \in Running |-> TreeTokens(q)]
<1>1. Running \in SUBSET Reqs /\ r \in Reqs
  BY RunningIs
<1>2. ASSUME NEW q \in Running
      PROVE  /\ f[q] = TreeSlots(q) /\ g[q] = TreeTokens(q)
             /\ TreeSlots(q) \in Seq(Locs) /\ Len(TreeTokens(q)) = Len(TreeSlots(q))
  BY <1>1, TreeSlotsIs
<1>3. ASSUME NEW q \in Running
      PROVE  /\ \A i \in 1..Len(TreeSlots(q)) : \E t \in 0..Topk - 1, s \in 1..Steps :
                  i = t * Steps + s /\ TreeSlots(q)[i] = Loc(q, DraftAt(q, t, s))
             /\ \A t \in 0..Topk - 1, s \in 1..Steps :
                  /\ t * Steps + s \in 1..Len(TreeSlots(q))
                  /\ TreeSlots(q)[t * Steps + s] = Loc(q, DraftAt(q, t, s))
                  /\ TreeTokens(q)[t * Steps + s] = Draft(q, t, s)
  BY <1>1, TreeSlotsIs
<1>4. ASSUME NEW q \in Running, NEW t \in 0..Topk - 1, NEW s \in 1..Steps
      PROVE  /\ DraftAt(q, t, s) \in Places(pages[q])
             /\ LastPage(q) + s - 1 \in 0..LastPage(q) + Steps - 1
             /\ DraftAt(q, t, s) = BranchBase(q, t) + (LastPage(q) + s - 1)
             /\ LastPage(q) \in Nat /\ t \in Nat
  <2>1. q \in Reqs /\ NeededPages(q) <= Len(pages[q])
    BY <1>1
  <2>2. DraftAt(q, t, s) \in Places(pages[q]) /\ LastPage(q) + s - 1 \in 0..LastPage(q) + Steps - 1
    BY <2>1, BranchSlotsIs
  <2>3. LastPage(q) \in Nat
    BY <2>1, BranchIs
  <2>4. t \in Nat
    BY TopkIs
  <2>5. DraftAt(q, t, s) = BranchBase(q, t) + (LastPage(q) + s - 1)
    BY DEF DraftAt
  <2> QED
    BY <2>2, <2>3, <2>4, <2>5
<1>5. ASSUME NEW q \in Running, NEW p \in Running, NEW i \in 1..Len(TreeSlots(q)), NEW j \in 1..Len(TreeSlots(p)),
             TreeSlots(q)[i] = TreeSlots(p)[j]
      PROVE  q = p /\ i = j
  <2>1. PICK t \in 0..Topk - 1, s \in 1..Steps : i = t * Steps + s /\ TreeSlots(q)[i] = Loc(q, DraftAt(q, t, s))
    BY <1>3
  <2>2. PICK u \in 0..Topk - 1, z \in 1..Steps : j = u * Steps + z /\ TreeSlots(p)[j] = Loc(p, DraftAt(p, u, z))
    BY <1>3
  <2>3. Loc(q, DraftAt(q, t, s)) = Loc(p, DraftAt(p, u, z))
    BY <1>5, <2>1, <2>2
  <2>9. q \in Reqs /\ p \in Reqs
        /\ DraftAt(q, t, s) \in Places(pages[q]) /\ DraftAt(p, u, z) \in Places(pages[p])
    BY <1>1, <1>4
  <2>4. q = p /\ DraftAt(q, t, s) = DraftAt(p, u, z)
    BY <2>3, <2>9, LocApart
  <2> DEFINE x == LastPage(q) + s - 1
             y == LastPage(q) + z - 1
  <2>5. BranchBase(q, t) + x = BranchBase(q, u) + y
    BY <2>4 DEF DraftAt
  <2>10. /\ x \in 0..LastPage(q) + Steps - 1 /\ y \in 0..LastPage(q) + Steps - 1
         /\ t \in Nat /\ u \in Nat
    BY <1>4, <2>4
  <2> HIDE DEF x, y
  <2>12. \A a, b \in Nat : \A v, w \in 0..LastPage(q) + Steps - 1 :
           BranchBase(q, a) + v = BranchBase(q, b) + w => a = b /\ v = w
    BY <2>9, TreePlaces
  <2>11. t = u /\ x = y
    BY ONLY <2>5, <2>10, <2>12
  <2>6. t = u /\ LastPage(q) + s - 1 = LastPage(q) + z - 1
    BY <2>11 DEF x, y
  <2>7. LastPage(q) \in Nat
    BY <1>4
  <2>8. s = z
    BY <2>6, <2>7
  <2> QED
    BY <2>1, <2>2, <2>4, <2>6, <2>8
<1>6. AllDistinct(Running, f)
  BY <1>2, <1>5 DEF AllDistinct
<1> HIDE DEF f, g
<1>7. \A q \in Running : f[q] \in Seq(Locs) /\ Len(g[q]) = Len(f[q])
  BY <1>2
<1>8. LandsAll(out, buf, Running, f, g)
  <2>1. out = Put(buf, OverBatch(batch, f), OverBatch(batch, g))
    BY DEF f, g
  <2>2. LandsAll(Put(buf, OverBatch(batch, f), OverBatch(batch, g)), buf, Running, f, g)
    BY <1>1, <1>6, <1>7, StoreBatchIs
  <2> QED
    BY <2>1, <2>2
<1>9. ASSUME NEW t \in 0..Topk - 1, NEW s \in 1..Steps PROVE out[Loc(r, DraftAt(r, t, s))] = Draft(r, t, s)
  <2>1. PICK k : k = t * Steps + s
    OBVIOUS
  <2>2. k \in 1..Len(f[r]) /\ f[r][k] = Loc(r, DraftAt(r, t, s)) /\ g[r][k] = Draft(r, t, s)
    BY <1>2, <1>3, <2>1
  <2>3. out[f[r][k]] = g[r][k]
    BY <1>8, <2>2 DEF LandsAll
  <2> QED
    BY <2>2, <2>3
<1>10. ASSUME NEW p \in Places(pages[r]), \A t \in 0..Topk - 1, s \in 1..Steps : p # DraftAt(r, t, s)
       PROVE  out[Loc(r, p)] = buf[Loc(r, p)]
  <2>1. ASSUME NEW q \in Running, NEW j \in 1..Len(f[q]), f[q][j] = Loc(r, p) PROVE FALSE
    <3>3. f[q] = TreeSlots(q)
      BY <1>2
    <3>5. j \in 1..Len(TreeSlots(q))
      BY <3>3
    <3>1. PICK t \in 0..Topk - 1, s \in 1..Steps :
            j = t * Steps + s /\ TreeSlots(q)[j] = Loc(q, DraftAt(q, t, s))
      BY <1>3, <3>5
    <3>4. q \in Reqs /\ r \in Reqs /\ DraftAt(q, t, s) \in Places(pages[q])
          /\ Loc(q, DraftAt(q, t, s)) = Loc(r, p)
      BY <1>1, <1>4, <2>1, <3>1, <3>3
    <3>2. q = r /\ DraftAt(q, t, s) = p
      BY <3>4, LocApart
    <3> QED
      BY <1>10, <3>2
  <2>2. Loc(r, p) \in Locs
    BY <1>1, LocIs
  <2> QED
    BY <1>8, <2>1, <2>2 DEF LandsAll
<1> QED
  BY <1>9, <1>10

\* A hole is at the head of a branch, its source at the same offset in the tail.
LEMMA HolesIs ==
  ASSUME PoolTypes, NEW r \in Reqs, NeededPages(r) <= Len(pages[r])
  PROVE  /\ Holes(r) \in Seq(Locs) /\ Tails(r) \in Seq(Locs) /\ Len(Tails(r)) = Len(Holes(r))
         /\ \A i \in 1..Len(Holes(r)) : \E u \in 1..Topk - 1, x \in 0..LastPage(r) - 1 :
              /\ i = (u - 1) * LastPage(r) + x + 1
              /\ Holes(r)[i] = Loc(r, BranchBase(r, u) + x) /\ Tails(r)[i] = Loc(r, BranchBase(r, 0) + x)
         /\ \A u \in 1..Topk - 1, x \in 0..LastPage(r) - 1 : \E i \in 1..Len(Holes(r)) :
              Holes(r)[i] = Loc(r, BranchBase(r, u) + x) /\ Tails(r)[i] = Loc(r, BranchBase(r, 0) + x)
<1> DEFINE L == LastPage(r)
           n == (Topk - 1) * L
           B(u) == BranchBase(r, u)
<1>1. Topk - 1 \in Nat /\ L \in Nat /\ Topk \in Nat \ {0} /\ Steps \in Nat \ {0}
  BY TopkIs, BranchIs, PoolSizes
<1>2. n \in Nat
  BY <1>1
<1>3. PrefixBase(r) = B(0)
  BY TreePlaces
<1>4. \A i \in 1..n : Holes(r)[i] = Loc(r, B((i - 1) \div L + 1) + ((i - 1) % L))
  BY DEF Holes
<1>5. \A i \in 1..n : Tails(r)[i] = Loc(r, B(0) + ((i - 1) % L))
  BY <1>3 DEF Tails
<1>6. Holes(r) = [i \in 1..n |-> Holes(r)[i]] /\ Tails(r) = [i \in 1..n |-> Tails(r)[i]]
  BY DEF Holes, Tails
<1>7. /\ \A u \in 0..Topk - 1, x \in 0..L - 1 : B(u) + x \in Places(pages[r])
  <2>1. \A x \in 0..L - 1 : x \in 0..L + Steps - 1
    BY <1>1
  <2> QED
    BY <2>1, TreeRoom
<1>8. \A u \in 0..Topk - 1, x \in 0..L - 1 : Loc(r, B(u) + x) \in Locs
  BY <1>7, LocIs
<1>9. L # 0 =>
        /\ \A i \in 1..n :
             /\ (i - 1) \div L \in 0..Topk - 1 - 1 /\ (i - 1) % L \in 0..L - 1
             /\ i = ((i - 1) \div L) * L + ((i - 1) % L) + 1
        /\ \A t \in 0..Topk - 1 - 1, x \in 0..L - 1 :
             /\ t * L + x + 1 \in 1..n
             /\ (t * L + x + 1 - 1) \div L = t /\ (t * L + x + 1 - 1) % L = x
  BY <1>1, Grid
<1>10. L = 0 => n = 0
  BY <1>1
<1> HIDE DEF n, L, B
<1>11. ASSUME NEW i \in 1..n
       PROVE  \E u \in 1..Topk - 1, x \in 0..L - 1 :
                i = (u - 1) * L + x + 1 /\ Holes(r)[i] = Loc(r, B(u) + x) /\ Tails(r)[i] = Loc(r, B(0) + x)
  <2>1. L # 0
    BY <1>2, <1>10
  <2> DEFINE t == (i - 1) \div L
             x == (i - 1) % L
  <2>2. t \in 0..Topk - 1 - 1 /\ x \in 0..L - 1 /\ i = t * L + x + 1
    BY <1>9, <2>1
  <2>3. Holes(r)[i] = Loc(r, B(t + 1) + x) /\ Tails(r)[i] = Loc(r, B(0) + x)
    BY <1>4, <1>5
  <2> HIDE DEF t, x
  <2>4. t + 1 \in 1..Topk - 1 /\ t + 1 - 1 = t
    BY <1>1, <2>2
  <2> QED
    BY <2>2, <2>3, <2>4
<1>12. ASSUME NEW u \in 1..Topk - 1, NEW x \in 0..L - 1
       PROVE  \E i \in 1..n : Holes(r)[i] = Loc(r, B(u) + x) /\ Tails(r)[i] = Loc(r, B(0) + x)
  <2>1. L # 0
    BY <1>1
  <2> DEFINE t == u - 1
  <2>2. t \in 0..Topk - 1 - 1 /\ t + 1 = u
    BY <1>1
  <2> HIDE DEF t
  <2>5. /\ t * L + x + 1 \in 1..n
        /\ (t * L + x + 1 - 1) \div L = t /\ (t * L + x + 1 - 1) % L = x
    BY <1>9, <2>1, <2>2
  <2> DEFINE p == t * L
  <2>6. p \in Nat
    BY <1>1, <2>2
  <2>7. p + x + 1 \in 1..n /\ (p + x + 1 - 1) \div L = t /\ (p + x + 1 - 1) % L = x
    BY <2>5
  <2> HIDE DEF p
  <2>8. PICK i \in 1..n : i = p + x + 1 /\ i - 1 = p + x + 1 - 1
    BY <1>2, <2>6, <2>7
  <2>3. i \in 1..n /\ (i - 1) \div L = t /\ (i - 1) % L = x
    BY <2>7, <2>8
  <2>4. Holes(r)[i] = Loc(r, B(t + 1) + x) /\ Tails(r)[i] = Loc(r, B(0) + x)
    BY <1>4, <1>5, <2>3
  <2> QED
    BY <2>2, <2>3, <2>4
<1>13. \A i \in 1..n : Holes(r)[i] \in Locs /\ Tails(r)[i] \in Locs
  <2> TAKE i \in 1..n
  <2>1. PICK u \in 1..Topk - 1, x \in 0..L - 1 :
          Holes(r)[i] = Loc(r, B(u) + x) /\ Tails(r)[i] = Loc(r, B(0) + x)
    BY <1>11
  <2>2. u \in 0..Topk - 1 /\ 0 \in 0..Topk - 1
    BY <1>1
  <2> QED
    BY <1>8, <2>1, <2>2
<1>14. Holes(r) \in [1..n -> Locs] /\ Tails(r) \in [1..n -> Locs]
  BY <1>6, <1>13
<1>15. Holes(r) \in Seq(Locs) /\ Tails(r) \in Seq(Locs) /\ Len(Holes(r)) = n /\ Len(Tails(r)) = n
  BY <1>2, <1>14, ListIs
<1>16. \A i \in 1..n : \E u \in 1..Topk - 1, x \in 0..LastPage(r) - 1 :
         /\ i = (u - 1) * LastPage(r) + x + 1
         /\ Holes(r)[i] = Loc(r, BranchBase(r, u) + x) /\ Tails(r)[i] = Loc(r, BranchBase(r, 0) + x)
  <2> HIDE DEF n
  <2> QED
    BY <1>11 DEF L, B
<1>17. \A u \in 1..Topk - 1, x \in 0..LastPage(r) - 1 : \E i \in 1..n :
         Holes(r)[i] = Loc(r, BranchBase(r, u) + x) /\ Tails(r)[i] = Loc(r, BranchBase(r, 0) + x)
  <2> HIDE DEF n
  <2> QED
    BY <1>12 DEF L, B
<1> HIDE DEF n, L, B
<1>18. Len(Tails(r)) = Len(Holes(r)) /\ 1..Len(Holes(r)) = 1..n
  BY ONLY <1>15
<1>19. \A i \in 1..Len(Holes(r)) : \E u \in 1..Topk - 1, x \in 0..LastPage(r) - 1 :
         /\ i = (u - 1) * LastPage(r) + x + 1
         /\ Holes(r)[i] = Loc(r, BranchBase(r, u) + x) /\ Tails(r)[i] = Loc(r, BranchBase(r, 0) + x)
  BY ONLY <1>16, <1>18, Zenon
<1>20. \A u \in 1..Topk - 1, x \in 0..LastPage(r) - 1 : \E i \in 1..Len(Holes(r)) :
         Holes(r)[i] = Loc(r, BranchBase(r, u) + x) /\ Tails(r)[i] = Loc(r, BranchBase(r, 0) + x)
  BY ONLY <1>17, <1>18, Zenon
<1> QED
  BY ONLY <1>15, <1>18, <1>19, <1>20, Zenon

\* Every branch but the first gets the tail of the prefix, and nothing else moves.
LEMMA TailsLand ==
  ASSUME PoolTypes, PagesApart, NEW batch \in SetToSeqs(Running),
         \A q \in Running : NeededPages(q) <= Len(pages[q]), NEW buf, NEW out,
         out = MoveBuffer(buf, OverBatch(batch, [q \in Running |-> Holes(q)]),
                               OverBatch(batch, [q \in Running |-> Tails(q)])),
         NEW r \in Running
  PROVE  /\ \A u \in 1..Topk - 1, x \in 0..LastPage(r) - 1 :
              out[Loc(r, BranchBase(r, u) + x)] = buf[Loc(r, BranchBase(r, 0) + x)]
         /\ \A p \in Places(pages[r]) :
              (\A u \in 1..Topk - 1, x \in 0..LastPage(r) - 1 : p # BranchBase(r, u) + x)
              => out[Loc(r, p)] = buf[Loc(r, p)]
<1> DEFINE f == [q \in Running |-> Holes(q)]
           g == [q \in Running |-> Tails(q)]
<1>1. Running \in SUBSET Reqs /\ r \in Reqs
  BY RunningIs
<1>2. ASSUME NEW q \in Running
      PROVE  /\ f[q] = Holes(q) /\ g[q] = Tails(q)
             /\ Holes(q) \in Seq(Locs) /\ Tails(q) \in Seq(Locs) /\ Len(Tails(q)) = Len(Holes(q))
  BY <1>1, HolesIs
<1>3. ASSUME NEW q \in Running
      PROVE  /\ \A i \in 1..Len(Holes(q)) : \E u \in 1..Topk - 1, x \in 0..LastPage(q) - 1 :
                  /\ i = (u - 1) * LastPage(q) + x + 1
                  /\ Holes(q)[i] = Loc(q, BranchBase(q, u) + x) /\ Tails(q)[i] = Loc(q, BranchBase(q, 0) + x)
             /\ \A u \in 1..Topk - 1, x \in 0..LastPage(q) - 1 : \E i \in 1..Len(Holes(q)) :
                  Holes(q)[i] = Loc(q, BranchBase(q, u) + x) /\ Tails(q)[i] = Loc(q, BranchBase(q, 0) + x)
  BY <1>1, HolesIs
<1>4. ASSUME NEW q \in Running, NEW u \in 0..Topk - 1, NEW x \in 0..LastPage(q) - 1
      PROVE  BranchBase(q, u) + x \in Places(pages[q]) /\ x \in 0..LastPage(q) + Steps - 1 /\ u \in Nat
  <2>1. LastPage(q) \in Nat /\ Steps \in Nat /\ Topk \in Nat
    BY <1>1, BranchIs, PoolSizes, TopkIs
  <2>2. x \in 0..LastPage(q) + Steps - 1 /\ u \in Nat
    BY <2>1
  <2> QED
    BY <1>1, <2>2, TreeRoom
<1>5. \A u \in 1..Topk - 1 : u \in 0..Topk - 1 /\ u # 0
  OBVIOUS
<1>6. ASSUME NEW q \in Running, NEW p \in Running, NEW u \in 0..Topk - 1, NEW v \in 0..Topk - 1,
             NEW x \in 0..LastPage(q) - 1, NEW y \in 0..LastPage(p) - 1,
             Loc(q, BranchBase(q, u) + x) = Loc(p, BranchBase(p, v) + y)
      PROVE  q = p /\ u = v /\ x = y
  <2>1. q = p /\ BranchBase(q, u) + x = BranchBase(p, v) + y
    BY <1>1, <1>4, <1>6, LocApart
  <2>2. /\ q \in Reqs /\ u \in Nat /\ v \in Nat
        /\ x \in 0..LastPage(q) + Steps - 1 /\ y \in 0..LastPage(q) + Steps - 1
    BY <1>1, <1>4, <2>1
  <2>3. BranchBase(q, u) + x = BranchBase(q, v) + y
    BY <2>1
  <2> QED
    BY <2>1, <2>2, <2>3, TreePlaces
<1>7. AllDistinct(Running, f)
  <2> SUFFICES ASSUME NEW q \in Running, NEW p \in Running,
                      NEW i \in 1..Len(Holes(q)), NEW j \in 1..Len(Holes(p)), Holes(q)[i] = Holes(p)[j]
               PROVE  q = p /\ i = j
    BY <1>2 DEF AllDistinct
  <2>1. PICK u \in 1..Topk - 1, x \in 0..LastPage(q) - 1 :
          i = (u - 1) * LastPage(q) + x + 1 /\ Holes(q)[i] = Loc(q, BranchBase(q, u) + x)
    BY <1>3
  <2>2. PICK v \in 1..Topk - 1, y \in 0..LastPage(p) - 1 :
          j = (v - 1) * LastPage(p) + y + 1 /\ Holes(p)[j] = Loc(p, BranchBase(p, v) + y)
    BY <1>3
  <2>3. q = p /\ u = v /\ x = y
    BY <1>5, <1>6, <2>1, <2>2
  <2> QED
    BY <2>1, <2>2, <2>3
<1>8. InOrder(Running, f, g)
  <2> SUFFICES ASSUME NEW q \in Running, NEW p \in Running,
                      NEW i \in 1..Len(Holes(q)), NEW j \in 1..Len(Holes(p)), Holes(q)[i] = Tails(p)[j]
               PROVE  FALSE
    BY <1>2 DEF InOrder
  <2>1. PICK u \in 1..Topk - 1, x \in 0..LastPage(q) - 1 : Holes(q)[i] = Loc(q, BranchBase(q, u) + x)
    BY <1>3
  <2>2. PICK v \in 1..Topk - 1, y \in 0..LastPage(p) - 1 : Tails(p)[j] = Loc(p, BranchBase(p, 0) + y)
    BY <1>3
  <2>3. 0 \in 0..Topk - 1
    BY TopkIs
  <2>4. u \in 0..Topk - 1 /\ u # 0
    BY <1>5
  <2>5. Loc(q, BranchBase(q, u) + x) = Loc(p, BranchBase(p, 0) + y)
    BY <2>1, <2>2
  <2>6. u = 0
    BY <1>6, <2>3, <2>4, <2>5
  <2> QED
    BY <2>4, <2>6
<1> HIDE DEF f, g
<1>9. \A q \in Running : f[q] \in Seq(Locs) /\ g[q] \in Seq(Locs) /\ Len(g[q]) = Len(f[q])
  BY <1>2
<1> DEFINE h == [q \in Running |-> Get(buf, g[q])]
<1>10. LandsAll(out, buf, Running, f, h)
  <2>1. out = MoveBuffer(buf, OverBatch(batch, f), OverBatch(batch, g))
    BY DEF f, g
  <2>2. LandsAll(MoveBuffer(buf, OverBatch(batch, f), OverBatch(batch, g)), buf, Running, f, h)
    BY <1>1, <1>7, <1>8, <1>9, MoveBatchIs
  <2> QED
    BY <2>1, <2>2
<1>11. ASSUME NEW q \in Running, NEW i \in 1..Len(f[q]) PROVE h[q][i] = buf[g[q][i]]
  <2>1. i \in 1..Len(g[q])
    BY <1>9
  <2> QED
    BY <2>1 DEF Get
<1> HIDE DEF h
<1>12. ASSUME NEW u \in 1..Topk - 1, NEW x \in 0..LastPage(r) - 1
       PROVE  out[Loc(r, BranchBase(r, u) + x)] = buf[Loc(r, BranchBase(r, 0) + x)]
  <2>3. f[r] = Holes(r) /\ g[r] = Tails(r)
    BY <1>2
  <2>1. PICK i \in 1..Len(f[r]) : f[r][i] = Loc(r, BranchBase(r, u) + x) /\ g[r][i] = Loc(r, BranchBase(r, 0) + x)
    BY <1>3, <2>3
  <2>2. out[f[r][i]] = h[r][i]
    BY <1>10, <2>1 DEF LandsAll
  <2> QED
    BY <1>11, <2>1, <2>2
<1>13. ASSUME NEW p \in Places(pages[r]),
              \A u \in 1..Topk - 1, x \in 0..LastPage(r) - 1 : p # BranchBase(r, u) + x
       PROVE  out[Loc(r, p)] = buf[Loc(r, p)]
  <2>1. ASSUME NEW q \in Running, NEW j \in 1..Len(f[q]), f[q][j] = Loc(r, p) PROVE FALSE
    <3>3. f[q] = Holes(q)
      BY <1>2
    <3>1. PICK u \in 1..Topk - 1, x \in 0..LastPage(q) - 1 : f[q][j] = Loc(q, BranchBase(q, u) + x)
      BY <1>3, <3>3
    <3>4. q \in Reqs /\ r \in Reqs /\ BranchBase(q, u) + x \in Places(pages[q])
          /\ Loc(q, BranchBase(q, u) + x) = Loc(r, p)
      BY <1>1, <1>4, <1>5, <2>1, <3>1
    <3>2. q = r /\ BranchBase(q, u) + x = p
      BY <3>4, LocApart
    <3> QED
      BY <1>13, <3>1, <3>2
  <2>2. Loc(r, p) \in Locs
    BY <1>1, LocIs
  <2> QED
    BY <1>10, <2>1, <2>2 DEF LandsAll
<1> QED
  BY <1>12, <1>13

\* What a request finds once the tails are duplicated and the drafts written.
LEMMA TreeWhole ==
  ASSUME PoolTypes, NEW r \in Reqs, NeededPages(r) <= Len(pages[r]),
         SeqLen(r) <= Len(pages[r]) * PageSlots, NEW old, NEW mid, NEW out,
         \A t \in 0..Topk - 1, s \in 1..Steps : out[Loc(r, DraftAt(r, t, s))] = Draft(r, t, s),
         \A p \in Places(pages[r]) :
           (\A t \in 0..Topk - 1, s \in 1..Steps : p # DraftAt(r, t, s)) => out[Loc(r, p)] = mid[Loc(r, p)],
         Topk # 1 => \A u \in 1..Topk - 1, x \in 0..LastPage(r) - 1 :
           mid[Loc(r, BranchBase(r, u) + x)] = old[Loc(r, BranchBase(r, 0) + x)],
         \A p \in Places(pages[r]) :
           (\A u \in 1..Topk - 1, x \in 0..LastPage(r) - 1 : p # BranchBase(r, u) + x)
           => mid[Loc(r, p)] = old[Loc(r, p)]
  PROVE  /\ \A i \in 1..SeqLen(r) : out[Loc(r, i - 1)] = old[Loc(r, i - 1)]
         /\ \A t \in 0..Topk - 1 :
              /\ Get(out, BranchSlots(r, t)) = [s \in 1..Steps |-> Draft(r, t, s)]
              /\ Topk > 1 => Get(out, LocsAt(r, BranchBase(r, t), LastPage(r)))
                              = Get(out, LocsAt(r, PrefixBase(r), LastPage(r)))
<1> DEFINE L == LastPage(r)
           B(t) == BranchBase(r, t)
           M == Len(pages[r]) * PageSlots
           n == SeqLen(r)
<1>1. /\ L \in Nat /\ Steps \in Nat \ {0} /\ Topk \in Nat \ {0} /\ M \in Nat /\ n \in Nat
      /\ PrefixBase(r) \in Nat /\ PrefixBase(r) + L = n /\ n <= M
  BY BranchIs, PoolSizes, TopkIs, SeqLenIs
<1>2. /\ B(0) = PrefixBase(r)
      /\ \A t \in Nat : B(t) \in Nat
      /\ \A t, u \in Nat : \A x, y \in 0..L + Steps - 1 : B(t) + x = B(u) + y => t = u /\ x = y
      /\ \A t \in Nat \ {0} : n + Steps <= B(t)
  BY TreePlaces
<1>3. \A t \in 0..Topk - 1, s \in 1..Steps : n <= DraftAt(r, t, s) /\ L + s - 1 \in 0..L + Steps - 1
  BY BranchSlotsIs
<1>4. \A t \in 0..Topk - 1, s \in 1..Steps : DraftAt(r, t, s) = B(t) + (L + s - 1)
  BY DEF DraftAt
<1>5. \A t \in 0..Topk - 1, x \in 0..L + Steps - 1 : B(t) + x \in Places(pages[r])
  BY TreeRoom
<1>6. \A i \in 1..n : i - 1 \in Places(pages[r])
  BY <1>1 DEF Places
<1> HIDE DEF L, B, M, n
<1>7. ASSUME NEW i \in 1..n PROVE out[Loc(r, i - 1)] = old[Loc(r, i - 1)]
  <2>1. i - 1 \in Nat /\ i - 1 < n
    BY <1>1
  <2>2. ASSUME NEW t \in 0..Topk - 1, NEW s \in 1..Steps PROVE i - 1 # DraftAt(r, t, s)
    <3>1. n <= DraftAt(r, t, s) /\ DraftAt(r, t, s) = B(t) + (L + s - 1) /\ L + s - 1 \in 0..L + Steps - 1
      BY <1>3, <1>4
    <3>2. t \in Nat
      BY <1>1
    <3>3. B(t) \in Nat
      BY <1>2, <3>2
    <3> QED
      BY <1>1, <2>1, <3>1, <3>3
  <2>3. ASSUME NEW u \in 1..Topk - 1, NEW x \in 0..L - 1 PROVE i - 1 # B(u) + x
    <3>1. u \in Nat \ {0} /\ x \in Nat
      BY <1>1
    <3>2. B(u) \in Nat /\ n + Steps <= B(u)
      BY <1>2, <3>1
    <3> QED
      BY <1>1, <2>1, <3>1, <3>2
  <2>4. out[Loc(r, i - 1)] = mid[Loc(r, i - 1)]
    BY <1>6, <2>2
  <2>5. mid[Loc(r, i - 1)] = old[Loc(r, i - 1)]
    BY <1>6, <2>3 DEF B, L
  <2> QED
    BY <2>4, <2>5
<1>8. ASSUME NEW t \in 0..Topk - 1 PROVE Get(out, BranchSlots(r, t)) = [s \in 1..Steps |-> Draft(r, t, s)]
  <2>1. Len(BranchSlots(r, t)) = Steps /\ \A s \in 1..Steps : BranchSlots(r, t)[s] = Loc(r, DraftAt(r, t, s))
    BY BranchSlotsIs
  <2>2. \A s \in 1..Steps : out[BranchSlots(r, t)[s]] = Draft(r, t, s)
    BY <2>1
  <2>3. Get(out, BranchSlots(r, t)) = [s \in 1..Steps |-> out[BranchSlots(r, t)[s]]]
    BY <2>1 DEF Get
  <2> QED
    BY <2>2, <2>3
\* The tail of a branch holds what the tail of the prefix held.
<1>9. ASSUME NEW t \in 0..Topk - 1, NEW x \in 0..L - 1
      PROVE  out[Loc(r, B(t) + x)] = old[Loc(r, B(0) + x)]
  <2>1. t \in Nat /\ x \in 0..L + Steps - 1 /\ 0 \in Nat
    BY <1>1
  <2>2. B(t) + x \in Places(pages[r])
    BY <1>5, <2>1
  <2>3. ASSUME NEW u \in 0..Topk - 1, NEW s \in 1..Steps PROVE B(t) + x # DraftAt(r, u, s)
    <3>1. DraftAt(r, u, s) = B(u) + (L + s - 1) /\ L + s - 1 \in 0..L + Steps - 1 /\ u \in Nat
      BY <1>1, <1>3, <1>4
    <3>2. x # L + s - 1
      BY <1>1
    <3> QED
      BY <1>2, <2>1, <3>1, <3>2
  <2>4. out[Loc(r, B(t) + x)] = mid[Loc(r, B(t) + x)]
    BY <2>2, <2>3
  <2>5. CASE t = 0
    <3>1. ASSUME NEW u \in 1..Topk - 1, NEW y \in 0..L - 1 PROVE B(t) + x # B(u) + y
      <4>1. u \in Nat /\ u # 0 /\ y \in 0..L + Steps - 1
        BY <1>1
      <4> QED
        BY <1>2, <2>1, <2>5, <4>1
    <3>2. mid[Loc(r, B(t) + x)] = old[Loc(r, B(t) + x)]
      BY <2>2, <3>1 DEF B, L
    <3> QED
      BY <2>4, <2>5, <3>2
  <2>6. CASE t # 0
    <3>1. t \in 1..Topk - 1 /\ Topk # 1
      BY <1>1, <2>6
    <3>2. mid[Loc(r, B(t) + x)] = old[Loc(r, B(0) + x)]
      BY <3>1 DEF B, L
    <3> QED
      BY <2>4, <3>2
  <2> QED
    BY <2>5, <2>6
<1>10. ASSUME NEW t \in 0..Topk - 1
       PROVE  /\ Get(out, LocsAt(r, B(t), L)) = [i \in 1..L |-> old[Loc(r, B(0) + (i - 1))]]
  <2>1. ASSUME NEW i \in 1..L PROVE out[Loc(r, B(t) + i - 1)] = old[Loc(r, B(0) + (i - 1))]
    <3>1. t \in Nat
      BY <1>1
    <3>2. B(t) \in Nat
      BY <1>2, <3>1
    <3>3. i - 1 \in 0..L - 1 /\ B(t) + i - 1 = B(t) + (i - 1)
      BY <1>1, <3>2
    <3> QED
      BY <1>9, <3>3
  <2>2. LocsAt(r, B(t), L) = [i \in 1..L |-> Loc(r, B(t) + i - 1)]
    BY DEF LocsAt
  <2>3. Loc(r, B(t)) \in {Loc(r, B(t))}
    OBVIOUS
  <2>4. Len(LocsAt(r, B(t), L)) = L
    <3>1. LocsAt(r, B(t), L) \in [1..L -> {Loc(r, B(t) + i - 1) : i \in 1..L}]
      BY <2>2
    <3> QED
      BY <1>1, <3>1, ListIs
  <2>5. Get(out, LocsAt(r, B(t), L)) = [i \in 1..L |-> out[LocsAt(r, B(t), L)[i]]]
    BY <2>4 DEF Get
  <2>6. \A i \in 1..L : out[LocsAt(r, B(t), L)[i]] = old[Loc(r, B(0) + (i - 1))]
    BY <2>1, <2>2
  <2> QED
    BY <2>5, <2>6
<1>11. 0 \in 0..Topk - 1
  BY <1>1
<1>12. ASSUME NEW t \in 0..Topk - 1 PROVE Get(out, LocsAt(r, B(t), L)) = Get(out, LocsAt(r, PrefixBase(r), L))
  BY <1>2, <1>10, <1>11
<1> QED
  BY <1>7, <1>8, <1>12 DEF L, B, n

\* Drafting keeps it: holes and branches lie behind every committed token.
LEMMA DraftTreeHolds ==
  ASSUME Complete, PoolInv, NEW batch \in SetToSeqs(Running), DraftTree(batch)
  PROVE  PoolInv'
<1> DEFINE slots == OverBatch(batch, [q \in Running |-> TreeSlots(q)])
           drafts == OverBatch(batch, [q \in Running |-> TreeTokens(q)])
           holes == OverBatch(batch, [q \in Running |-> Holes(q)])
           tails == OverBatch(batch, [q \in Running |-> Tails(q)])
           base == IF Topk = 1 THEN cells["draft"] ELSE Move(cells["draft"], holes, tails)
<1>0. PoolTypes /\ Homed /\ PagesApart /\ Roomy /\ Copied /\ Whole /\ BranchesWhole
  BY DEF PoolInv
<1>1. /\ ~drafted /\ \A r \in Running : Len(pages[r]) >= NeededPages(r)
      /\ cells' = [cells EXCEPT !["draft"] = Store(base, slots, drafts)]
      /\ drafted' = TRUE
      /\ kind' = kind /\ rowbuf' = rowbuf /\ rowfree' = rowfree /\ row' = row /\ pages' = pages
      /\ toks' = toks /\ status' = status /\ host' = host /\ lost' = lost
  BY DEF DraftTree, TreeSlots, TreeTokens
<1>2. ASSUME NEW r \in Running
      PROVE  /\ r \in Reqs /\ NeededPages(r) <= Len(pages[r]) /\ SeqLen(r) <= Len(pages[r]) * PageSlots
             /\ lost[r] \in Nat
  <2>1. r \in Reqs /\ NeededPages(r) \in Nat /\ Len(pages[r]) \in Nat
    BY <1>0, RunningIs, MissingIs, SeqLenIs
  <2> QED
    BY <1>0, <1>1, <2>1 DEF Roomy, PoolTypes
<1>3. DOMAIN cells = Models /\ \A x \in Models : DOMAIN cells[x] = pool.slot
  BY <1>0 DEF PoolTypes
<1>4. "target" \in Models /\ "draft" \in Models /\ \A x \in Models : x = "target" \/ x = "draft"
  BY DEF Models
<1>5. Topk # 1 => pool.moved = pool.slot
  <2> SUFFICES ASSUME Topk # 1 PROVE pool.moved = pool.slot
    OBVIOUS
  <2>1. pool.tree /\ TreeTopk # 1
    BY DEF Topk
  <2>2. TreeTopk > 1
    BY <2>1, PoolSizes
  <2>3. kind \in Kinds
    BY <1>0 DEF PoolTypes
  <2> QED
    BY <2>1, <2>2, <2>3 DEF Complete, pool
<1>6. /\ DOMAIN base = pool.slot
      /\ \A b \in pool.slot :
           /\ Topk = 1 => base[b] = cells["draft"][b]
           /\ Topk # 1 => base[b] = MoveBuffer(cells["draft"][b], holes, tails)
  BY <1>3, <1>4, <1>5 DEF Move
<1> HIDE DEF base, slots, drafts, holes, tails
<1>7. /\ DOMAIN cells' = Models /\ cells'["target"] = cells["target"]
      /\ DOMAIN cells'["draft"] = pool.slot
      /\ \A b \in pool.slot : cells'["draft"][b] = Put(base[b], slots, drafts)
  BY <1>1, <1>3, <1>4, <1>6 DEF Store
<1>8. pool' = pool /\ Running' = Running /\ Topk' = Topk
  BY <1>1 DEF pool, Running, Topk
<1>9. \A r \in Running : SeqLen(r)' = SeqLen(r) /\ NeededPages(r)' = NeededPages(r) /\ LastPage(r)' = LastPage(r)
        /\ PrefixBase(r)' = PrefixBase(r) /\ \A t : BranchBase(r, t)' = BranchBase(r, t)
  BY <1>1, <1>8 DEF SeqLen, NeededPages, LastPage, PrefixBase, BranchBase, NewPages
<1>10. \A r \in Running : \A i : Loc(r, i)' = Loc(r, i)
  BY <1>1 DEF Loc
<1>11. ASSUME NEW r \in Running, NEW t
       PROVE  /\ BranchSlots(r, t)' = BranchSlots(r, t)
              /\ LocsAt(r, BranchBase(r, t), LastPage(r))' = LocsAt(r, BranchBase(r, t), LastPage(r))
              /\ LocsAt(r, PrefixBase(r), LastPage(r))' = LocsAt(r, PrefixBase(r), LastPage(r))
              /\ \A s : Draft(r, t, s)' = Draft(r, t, s)
  BY <1>1, <1>8, <1>9, <1>10 DEF BranchSlots, LocsAt, Draft
<1>12. ASSUME NEW r \in Running, NEW b \in pool.slot
       PROVE  LET out == cells'["draft"][b]
                  old == cells["draft"][b]
              IN /\ \A i \in 1..SeqLen(r) : out[Loc(r, i - 1)] = old[Loc(r, i - 1)]
                 /\ \A t \in 0..Topk - 1 :
                      /\ Get(out, BranchSlots(r, t)) = [s \in 1..Steps |-> Draft(r, t, s)]
                      /\ Topk > 1 => Get(out, LocsAt(r, BranchBase(r, t), LastPage(r)))
                                      = Get(out, LocsAt(r, PrefixBase(r), LastPage(r)))
  <2> DEFINE out == cells'["draft"][b]
             old == cells["draft"][b]
             mid == base[b]
  <2>1. out = Put(mid, slots, drafts) /\ (Topk = 1 => mid = old) /\ (Topk # 1 => mid = MoveBuffer(old, holes, tails))
    BY <1>6, <1>7
  <2> HIDE DEF out, old, mid
  <2>2. \A q \in Running : NeededPages(q) <= Len(pages[q])
    BY <1>2
  <2>3. /\ \A t \in 0..Topk - 1, s \in 1..Steps : out[Loc(r, DraftAt(r, t, s))] = Draft(r, t, s)
        /\ \A p \in Places(pages[r]) :
             (\A t \in 0..Topk - 1, s \in 1..Steps : p # DraftAt(r, t, s)) => out[Loc(r, p)] = mid[Loc(r, p)]
    BY <1>0, <2>1, <2>2, DraftsLand DEF slots, drafts
  <2>4. /\ Topk # 1 => \A u \in 1..Topk - 1, x \in 0..LastPage(r) - 1 :
             mid[Loc(r, BranchBase(r, u) + x)] = old[Loc(r, BranchBase(r, 0) + x)]
        /\ \A p \in Places(pages[r]) :
             (\A u \in 1..Topk - 1, x \in 0..LastPage(r) - 1 : p # BranchBase(r, u) + x)
             => mid[Loc(r, p)] = old[Loc(r, p)]
    <3>1. CASE Topk = 1
      BY <2>1, <3>1
    <3>2. CASE Topk # 1
      <4>1. mid = MoveBuffer(old, holes, tails)
        BY <2>1, <3>2
      <4> QED
        BY <1>0, <2>2, <4>1, TailsLand DEF holes, tails
    <3> QED
      BY <3>1, <3>2
  <2>5. r \in Reqs /\ NeededPages(r) <= Len(pages[r]) /\ SeqLen(r) <= Len(pages[r]) * PageSlots
    BY <1>2
  <2>6. /\ \A i \in 1..SeqLen(r) : out[Loc(r, i - 1)] = old[Loc(r, i - 1)]
        /\ \A t \in 0..Topk - 1 :
             /\ Get(out, BranchSlots(r, t)) = [s \in 1..Steps |-> Draft(r, t, s)]
             /\ Topk > 1 => Get(out, LocsAt(r, BranchBase(r, t), LastPage(r)))
                             = Get(out, LocsAt(r, PrefixBase(r), LastPage(r)))
    BY <1>0, <2>3, <2>4, <2>5, TreeWhole
  <2> QED
    BY <2>6 DEF out, old
<1>13. BranchesWhole'
  <2> SUFFICES ASSUME NEW r \in Running, NEW b \in pool.slot
               PROVE  LET buf == cells'["draft"][b] IN
                      /\ \A i \in lost[r] + 1..SeqLen(r) : buf[Loc(r, i - 1)] = toks[r][i]
                      /\ \A t \in 0..Topk - 1 :
                           /\ Get(buf, BranchSlots(r, t)) = [s \in 1..Steps |-> Draft(r, t, s)]
                           /\ Topk > 1 => Get(buf, LocsAt(r, BranchBase(r, t), LastPage(r)))
                                           = Get(buf, LocsAt(r, PrefixBase(r), LastPage(r)))
    BY <1>1, <1>8, <1>9, <1>10, <1>11 DEF BranchesWhole, Get
  <2>1. \A i \in lost[r] + 1..SeqLen(r) : cells["draft"][b][Loc(r, i - 1)] = toks[r][i]
    BY <1>0 DEF BranchesWhole
  <2>2. \A i \in lost[r] + 1..SeqLen(r) : i \in 1..SeqLen(r)
    BY <1>2
  <2>3. \A i \in lost[r] + 1..SeqLen(r) : cells'["draft"][b][Loc(r, i - 1)] = toks[r][i]
    BY <1>12, <2>1, <2>2
  <2> QED
    BY <1>12, <2>3
<1>14. Whole'
  BY <1>0, <1>1, <1>7, <1>8, <1>9, <1>10 DEF Whole
<1>15. Copied'
  BY <1>0, <1>1, StillCopied
<1>16. Roomy'
  BY <1>0, <1>1, <1>2, <1>8, <1>9 DEF Roomy
<1>17. PagesApart' /\ Homed'
  BY <1>0, <1>1, <1>8 DEF PagesApart, Homed
<1>18. PoolTypes'
  <2>1. \A x \in Models : DOMAIN cells'[x] = pool.slot
    BY <1>3, <1>4, <1>7
  <2> QED
    BY <1>0, <1>1, <1>7, <1>8, <2>1 DEF PoolTypes
<1> QED
  BY <1>13, <1>14, <1>15, <1>16, <1>17, <1>18 DEF PoolInv

-----------------------------------------------------------------------------
(* A tree is verified                                                        *)

\* An accepted path goes up, one node at least a step.
LEMMA PathIs ==
  ASSUME NEW p \in Paths
  PROVE  /\ Len(p) \in 1..Steps + 1 /\ Len(p) <= DraftTokens
         /\ \A i \in 1..Len(p) : p[i] \in 0..DraftTokens - 1 /\ i - 1 <= p[i]
         /\ Topk = 1 => \A i \in 1..Len(p) : p[i] = i - 1
<1>1. Steps \in Nat \ {0} /\ DraftTokens \in Nat /\ Steps < DraftTokens
  BY PoolSizes
<1>2. PICK n \in 1..Steps + 1 : p \in [1..n -> 0..DraftTokens - 1]
  BY DEF Paths
<1>3. Len(p) = n
  BY <1>1, <1>2, ListIs
<1>4. p[1] = 0 /\ Increasing(p) /\ (Topk = 1 => p[n] = n - 1)
  BY <1>3 DEF Paths
<1>5. \A i \in 1..n - 1 : p[i] < p[i + 1]
  BY <1>3, <1>4 DEF Increasing
<1>6. \A i \in 1..n : p[i] \in 0..DraftTokens - 1
  BY <1>2
<1>7. n \in Nat /\ n <= DraftTokens /\ 1 \in 1..n
  BY <1>1
<1>8. ASSUME NEW i \in 1..n, p[i] < i - 1 PROVE FALSE
  <2> DEFINE bad == {k \in 1..n : p[k] < k - 1}
  <2>1. bad \in SUBSET Nat /\ bad # {}
    BY <1>7, <1>8
  <2>2. PICK x \in bad : \A y \in bad : x <= y
    <3> HIDE DEF bad
    <3> QED
      BY <2>1, Smallest
  <2>3. x \in 1..n /\ p[x] < x - 1 /\ x # 1
    BY <1>4, <2>2
  <2>4. x - 1 \in 1..n - 1 /\ x - 1 \in 1..n /\ x - 1 + 1 = x
    BY <1>7, <2>3
  <2>5. x - 1 \notin bad
    BY <2>2, <2>4
  <2>6. ~(p[x - 1] < x - 1 - 1)
    BY <2>4, <2>5
  <2>7. p[x - 1] < p[x] /\ p[x] \in 0..DraftTokens - 1 /\ p[x - 1] \in 0..DraftTokens - 1
    BY <1>5, <1>6, <2>3, <2>4
  <2> QED
    BY <1>1, <2>3, <2>6, <2>7
<1>9. ASSUME Topk = 1, NEW i \in 1..n, p[i] > i - 1 PROVE FALSE
  <2> DEFINE bad == {k \in Nat : k < n /\ p[n - k] > n - k - 1}
  <2>1. n - i \in Nat /\ n - i < n /\ n - (n - i) = i
    BY <1>7
  <2>2. n - i \in bad
    BY <1>9, <2>1
  <2>3. bad \in SUBSET Nat
    OBVIOUS
  <2>4. PICK x \in bad : \A y \in bad : x <= y
    <3> HIDE DEF bad
    <3> QED
      BY <2>2, <2>3, Smallest
  <2> DEFINE k == n - x
  <2>5. x \in Nat /\ k \in 1..n /\ p[k] > k - 1
    BY <1>7, <2>4
  <2>6. k # n
    BY <1>4, <1>9, <2>5
  <2>7. x - 1 \in Nat /\ x - 1 < n /\ n - (x - 1) = k + 1 /\ k \in 1..n - 1 /\ k + 1 \in 1..n
    BY <1>7, <2>5, <2>6
  <2>8. x - 1 \notin bad
    BY <2>4, <2>7
  <2> HIDE DEF k
  <2>9. ~(p[k + 1] > k + 1 - 1)
    BY <2>7, <2>8
  <2>10. p[k] < p[k + 1] /\ p[k] \in 0..DraftTokens - 1 /\ p[k + 1] \in 0..DraftTokens - 1
    BY <1>5, <1>6, <2>5, <2>7
  <2> QED
    BY <1>1, <2>5, <2>9, <2>10
<1>10. \A i \in 1..n : i - 1 <= p[i]
  BY <1>1, <1>6, <1>7, <1>8
<1>11. Topk = 1 => \A i \in 1..n : p[i] = i - 1
  BY <1>1, <1>6, <1>7, <1>9, <1>10
<1> QED
  BY <1>3, <1>6, <1>7, <1>10, <1>11

\* Slots of running requests from the end of their tokens on.
AtEnd(f) ==
  \A q \in Running :
    /\ f[q] \in Seq(Locs) /\ Len(f[q]) \in Nat
    /\ \A i \in 1..Len(f[q]) :
         f[q][i] = Loc(q, SeqLen(q) + i - 1) /\ SeqLen(q) + i - 1 \in Places(pages[q])

\* Slots at the ends of different requests differ.
LEMMA AtEndApart ==
  ASSUME PoolTypes, PagesApart, NEW f, AtEnd(f)
  PROVE  AllDistinct(Running, f)
<1> SUFFICES ASSUME NEW q \in Running, NEW p \in Running, NEW i \in 1..Len(f[q]), NEW j \in 1..Len(f[p]),
                    f[q][i] = f[p][j]
             PROVE  q = p /\ i = j
  BY DEF AllDistinct
<1>1. q \in Reqs /\ p \in Reqs
  BY RunningIs
<1> DEFINE x == SeqLen(q) + i - 1
           y == SeqLen(p) + j - 1
<1>2. /\ f[q][i] = Loc(q, x) /\ x \in Places(pages[q])
      /\ f[p][j] = Loc(p, y) /\ y \in Places(pages[p])
  BY DEF AtEnd
<1> HIDE DEF x, y
<1>3. q = p /\ x = y
  BY <1>1, <1>2, LocApart
<1>4. SeqLen(q) \in Nat
  BY <1>1, SeqLenIs
<1>5. i = j
  BY <1>3, <1>4 DEF x, y
<1> QED
  BY <1>3, <1>5

\* What lands there leaves the committed tokens alone.
LEMMA EndLands ==
  ASSUME PoolTypes, PagesApart, Roomy, NEW f, AtEnd(f), NEW buf, NEW out, NEW val,
         LandsAll(out, buf, Running, f, val), NEW r \in Running
  PROVE  /\ \A i \in 1..Len(f[r]) : out[Loc(r, SeqLen(r) + i - 1)] = val[r][i]
         /\ \A i \in 1..SeqLen(r) : out[Loc(r, i - 1)] = buf[Loc(r, i - 1)]
<1>1. \A i \in 1..Len(f[r]) : out[f[r][i]] = val[r][i] /\ f[r][i] = Loc(r, SeqLen(r) + i - 1)
  BY DEF LandsAll, AtEnd
<1>2. ASSUME NEW i \in 1..SeqLen(r) PROVE out[Loc(r, i - 1)] = buf[Loc(r, i - 1)]
  <2>1. i - 1 \in Places(pages[r]) /\ Loc(r, i - 1) \in Locs /\ i - 1 < SeqLen(r) /\ r \in Reqs
        /\ SeqLen(r) \in Nat
    BY KeptPlaces, RunningIs, SeqLenIs
  <2>2. ASSUME NEW q \in Running, NEW j \in 1..Len(f[q]), f[q][j] = Loc(r, i - 1) PROVE FALSE
    <3> DEFINE x == SeqLen(q) + j - 1
    <3>1. f[q][j] = Loc(q, x) /\ x \in Places(pages[q]) /\ q \in Reqs
      BY RunningIs DEF AtEnd
    <3> HIDE DEF x
    <3>2. q = r /\ x = i - 1
      BY <2>1, <2>2, <3>1, LocApart
    <3>3. SeqLen(r) <= x
      BY <2>1, <3>2 DEF x
    <3> QED
      BY <2>1, <3>2, <3>3
  <2> QED
    BY <2>1, <2>2 DEF LandsAll
<1> QED
  BY <1>1, <1>2

\* The verify windows.
WindowOf(r) == LocsAt(r, SeqLen(r), DraftTokens)
TreeOf(r) == [i \in 1..DraftTokens |-> Token(r, SeqLen(r), i - 1)]
AcceptOf(r, p) == [i \in 1..Len(p) |-> Token(r, SeqLen(r), p[i])]
ExtendOf(r, p) == [i \in 1..DraftTokens |-> IF i <= Len(p) THEN AcceptOf(r, p)[i] ELSE Empty]

\* The verify window lies in the room reserved.
LEMMA WindowIs ==
  ASSUME PoolTypes, NEW r \in Reqs, NeededPages(r) <= Len(pages[r]), NEW n \in 0..DraftTokens
  PROVE  /\ LocsAt(r, SeqLen(r), n) \in Seq(Locs) /\ Len(LocsAt(r, SeqLen(r), n)) = n /\ n \in Nat
         /\ \A i \in 1..n : LocsAt(r, SeqLen(r), n)[i] = Loc(r, SeqLen(r) + i - 1)
                            /\ SeqLen(r) + i - 1 \in Places(pages[r])
<1> DEFINE lo == SeqLen(r)
           M == Len(pages[r]) * PageSlots
<1>1. lo \in Nat /\ M \in Nat /\ DraftTokens \in Nat /\ lo + DraftTokens <= M
  BY SeqLenIs, PoolSizes, RoundRoom
<1>2. n \in Nat /\ n <= DraftTokens
  BY <1>1
<1> HIDE DEF lo, M
<1>3. lo + n <= M
  BY <1>1, <1>2
<1> QED
  BY <1>1, <1>2, <1>3, LocsAtIs DEF lo, M

\* What a verify computes, accepts and extends by.
LEMMA AcceptIs ==
  ASSUME PoolTypes, NEW r \in Reqs, NEW p \in Paths
  PROVE  /\ AcceptOf(r, p) \in Seq(AnyToken) /\ Len(AcceptOf(r, p)) = Len(p)
         /\ \A i \in 1..Len(p) : AcceptOf(r, p)[i] = Token(r, SeqLen(r), p[i])
         /\ TreeOf(r) \in Seq(AnyToken) /\ Len(TreeOf(r)) = DraftTokens
         /\ ExtendOf(r, p) \in Seq({ExtendOf(r, p)[i] : i \in 1..DraftTokens}) /\ Len(ExtendOf(r, p)) = DraftTokens
         /\ \A i \in 1..Len(p) : ExtendOf(r, p)[i] = Token(r, SeqLen(r), p[i]) /\ i \in 1..DraftTokens
<1>1. SeqLen(r) \in Nat /\ DraftTokens \in Nat
  BY SeqLenIs, PoolSizes
<1>2. /\ Len(p) \in Nat /\ Len(p) <= DraftTokens
      /\ \A i \in 1..Len(p) : p[i] \in Int
  BY PathIs, PoolSizes
<1>3. \A i \in 1..Len(p) : Token(r, SeqLen(r), p[i]) \in AnyToken
  BY <1>1, <1>2 DEF Token, AnyToken
<1>4. AcceptOf(r, p) \in [1..Len(p) -> AnyToken]
  BY <1>3 DEF AcceptOf
<1>5. AcceptOf(r, p) \in Seq(AnyToken) /\ Len(AcceptOf(r, p)) = Len(p)
  BY <1>2, <1>4, ListIs
<1>6. \A i \in 1..Len(p) : AcceptOf(r, p)[i] = Token(r, SeqLen(r), p[i])
  BY DEF AcceptOf
<1>7. \A i \in 1..DraftTokens : Token(r, SeqLen(r), i - 1) \in AnyToken
  BY <1>1 DEF Token, AnyToken
<1>8. TreeOf(r) \in [1..DraftTokens -> AnyToken]
  BY <1>7 DEF TreeOf
<1>9. TreeOf(r) \in Seq(AnyToken) /\ Len(TreeOf(r)) = DraftTokens
  BY <1>1, <1>8, ListIs
<1>10. \A i \in 1..Len(p) : ExtendOf(r, p)[i] = AcceptOf(r, p)[i] /\ i \in 1..DraftTokens
  BY <1>1, <1>2 DEF ExtendOf
<1>11. ExtendOf(r, p) \in [1..DraftTokens -> {ExtendOf(r, p)[i] : i \in 1..DraftTokens}]
  BY DEF ExtendOf
<1>12. ExtendOf(r, p) \in Seq({ExtendOf(r, p)[i] : i \in 1..DraftTokens}) /\ Len(ExtendOf(r, p)) = DraftTokens
  BY <1>1, <1>11, ListIs
<1> QED
  BY <1>5, <1>6, <1>9, <1>10, <1>12

Windows == [r \in Running |-> WindowOf(r)]
Trees == [r \in Running |-> TreeOf(r)]
Extends(path) == [r \in Running |-> ExtendOf(r, path[r])]
Lens(path) == [r \in Running |-> Len(path[r])]
Fronts(path) == [r \in Running |-> FrontOf(r, path[r])]
Sources(path) == [r \in Running |-> Accepted(r, path[r])]

\* The windows are at the ends of the requests.
LEMMA WindowsAtEnd ==
  ASSUME PoolTypes, \A q \in Running : NeededPages(q) <= Len(pages[q])
  PROVE  /\ AtEnd(Windows)
         /\ \A q \in Running : Windows[q] \in Seq(Locs) /\ Len(Windows[q]) = DraftTokens
              /\ \A i \in 1..DraftTokens : Windows[q][i] = Loc(q, SeqLen(q) + i - 1)
<1>1. ASSUME NEW q \in Running
      PROVE  /\ Windows[q] \in Seq(Locs) /\ Len(Windows[q]) = DraftTokens /\ DraftTokens \in Nat
             /\ \A i \in 1..DraftTokens : Windows[q][i] = Loc(q, SeqLen(q) + i - 1)
                                          /\ SeqLen(q) + i - 1 \in Places(pages[q])
  <2>1. q \in Reqs /\ DraftTokens \in 0..DraftTokens
    BY RunningIs, PoolSizes
  <2>2. Windows[q] = LocsAt(q, SeqLen(q), DraftTokens)
    BY DEF Windows, WindowOf
  <2> QED
    BY <2>1, <2>2, WindowIs
<1> QED
  BY <1>1 DEF AtEnd

\* What the target pool holds after a verify and its compaction.
\* The target's buffer after a verify: the trees in the windows, then the accepted
\* paths moved to their fronts.
TargetRound(batch, path, buf, verified, out) ==
  /\ verified = Put(buf, OverBatch(batch, Windows), OverBatch(batch, Trees))
  /\ Topk = 1 => out = verified
  /\ Topk # 1 => out = MoveBuffer(verified, OverBatch(batch, Fronts(path)), OverBatch(batch, Sources(path)))

\* The accepted path of r landed behind its committed tokens, which stayed.
PathLanded(r, path, buf, out) ==
  /\ \A i \in 1..Len(path[r]) : out[Loc(r, SeqLen(r) + i - 1)] = Token(r, SeqLen(r), path[r][i])
  /\ \A i \in 1..SeqLen(r) : out[Loc(r, i - 1)] = buf[Loc(r, i - 1)]

\* The target's buffers hold the accepted path behind the committed tokens.
LEMMA VerifyTarget ==
  ASSUME PoolTypes, PagesApart, Roomy, NEW batch \in SetToSeqs(Running), NEW path \in [Running -> Paths],
         \A q \in Running : NeededPages(q) <= Len(pages[q]), NEW buf, NEW verified, NEW out,
         TargetRound(batch, path, buf, verified, out), NEW r \in Running
  PROVE  PathLanded(r, path, buf, out)
<1> SUFFICES ASSUME verified = Put(buf, OverBatch(batch, Windows), OverBatch(batch, Trees)),
                    Topk = 1 => out = verified,
                    Topk # 1 => out = MoveBuffer(verified, OverBatch(batch, Fronts(path)),
                                                 OverBatch(batch, Sources(path)))
             PROVE  /\ \A i \in 1..Len(path[r]) :
                         out[Loc(r, SeqLen(r) + i - 1)] = Token(r, SeqLen(r), path[r][i])
                    /\ \A i \in 1..SeqLen(r) : out[Loc(r, i - 1)] = buf[Loc(r, i - 1)]
  BY DEF TargetRound, PathLanded
<1>1. Running \in SUBSET Reqs /\ r \in Reqs /\ DraftTokens \in Nat
  BY RunningIs, PoolSizes
<1>2. /\ AtEnd(Windows) /\ AllDistinct(Running, Windows)
      /\ \A q \in Running : Windows[q] \in Seq(Locs) /\ Len(Windows[q]) = DraftTokens
           /\ \A i \in 1..DraftTokens : Windows[q][i] = Loc(q, SeqLen(q) + i - 1)
  BY WindowsAtEnd, AtEndApart
<1>3. ASSUME NEW q \in Running
      PROVE  /\ path[q] \in Paths /\ Len(path[q]) \in 0..DraftTokens /\ Len(path[q]) \in Nat
             /\ \A i \in 1..Len(path[q]) : path[q][i] \in 0..DraftTokens - 1 /\ i - 1 <= path[q][i]
             /\ Topk = 1 => \A i \in 1..Len(path[q]) : path[q][i] = i - 1
  <2>1. path[q] \in Paths
    OBVIOUS
  <2> DEFINE p == path[q]
  <2>2. p \in Paths
    OBVIOUS
  <2> HIDE DEF p
  <2>3. /\ Len(p) \in 1..Steps + 1 /\ Len(p) <= DraftTokens
        /\ \A i \in 1..Len(p) : p[i] \in 0..DraftTokens - 1 /\ i - 1 <= p[i]
        /\ Topk = 1 => \A i \in 1..Len(p) : p[i] = i - 1
    BY <2>2, PathIs
  <2>4. Len(p) \in 0..DraftTokens /\ Len(p) \in Nat
    BY <1>1, <2>3, PoolSizes
  <2> QED
    BY <2>1, <2>3, <2>4 DEF p
<1>4. \A q \in Running : Trees[q] = TreeOf(q) /\ Len(Trees[q]) = DraftTokens
  <2> TAKE q \in Running
  <2>1. q \in Reqs /\ path[q] \in Paths
    BY <1>1
  <2>2. Len(TreeOf(q)) = DraftTokens
    BY <2>1, AcceptIs
  <2> QED
    BY <2>2 DEF Trees
<1>5. LandsAll(verified, buf, Running, Windows, Trees)
  BY <1>1, <1>2, <1>4, StoreBatchIs
<1>6. ASSUME NEW i \in 1..DraftTokens PROVE verified[Loc(r, SeqLen(r) + i - 1)] = Token(r, SeqLen(r), i - 1)
  <2>1. verified[Loc(r, SeqLen(r) + i - 1)] = Trees[r][i]
    BY <1>2, <1>5, EndLands
  <2> QED
    BY <1>4, <2>1 DEF TreeOf
<1>7. \A i \in 1..SeqLen(r) : verified[Loc(r, i - 1)] = buf[Loc(r, i - 1)]
  BY <1>2, <1>5, EndLands
<1>8. CASE Topk = 1
  <2>1. \A i \in 1..Len(path[r]) : i \in 1..DraftTokens /\ path[r][i] = i - 1
    BY <1>1, <1>3, <1>8
  <2> QED
    BY <1>6, <1>7, <1>8, <2>1
<1>9. CASE Topk # 1
  <2>1. ASSUME NEW q \in Running
        PROVE  /\ Fronts(path)[q] = FrontOf(q, path[q]) /\ Sources(path)[q] = Accepted(q, path[q])
               /\ Fronts(path)[q] \in Seq(Locs) /\ Len(Fronts(path)[q]) = Len(path[q])
               /\ \A i \in 1..Len(path[q]) : Fronts(path)[q][i] = Loc(q, SeqLen(q) + i - 1)
                                             /\ SeqLen(q) + i - 1 \in Places(pages[q])
    <3>1. Fronts(path)[q] = FrontOf(q, path[q]) /\ Sources(path)[q] = Accepted(q, path[q])
      BY DEF Fronts, Sources
    <3>2. FrontOf(q, path[q]) = LocsAt(q, SeqLen(q), Len(path[q]))
      BY DEF FrontOf
    <3> DEFINE n == Len(path[q])
    <3>3. n \in 0..DraftTokens /\ q \in Reqs
      BY <1>1, <1>3
    <3> HIDE DEF n
    <3>4. /\ LocsAt(q, SeqLen(q), n) \in Seq(Locs) /\ Len(LocsAt(q, SeqLen(q), n)) = n
          /\ \A i \in 1..n : LocsAt(q, SeqLen(q), n)[i] = Loc(q, SeqLen(q) + i - 1)
                             /\ SeqLen(q) + i - 1 \in Places(pages[q])
      BY <3>3, WindowIs
    <3> QED
      BY <3>1, <3>2, <3>4 DEF n
  <2>2. AtEnd(Fronts(path)) /\ AllDistinct(Running, Fronts(path))
    <3>1. AtEnd(Fronts(path))
      BY <1>3, <2>1 DEF AtEnd
    <3> QED
      BY <3>1, AtEndApart
  <2>3. ASSUME NEW q \in Running
        PROVE  /\ Sources(path)[q] \in Seq(Locs) /\ Len(Sources(path)[q]) = Len(path[q])
               /\ \A j \in 1..Len(path[q]) : /\ path[q][j] + 1 \in 1..DraftTokens
                                             /\ Sources(path)[q][j] = Windows[q][path[q][j] + 1]
    <3>1. Sources(path)[q] = Pick(Windows[q], path[q])
      BY <2>1 DEF Accepted, Windows, WindowOf
    <3> DEFINE p == path[q]
               w == Windows[q]
    <3>2. \A j \in 1..Len(p) : p[j] + 1 \in 1..DraftTokens
      BY <1>1, <1>3
    <3>3. w \in Seq(Locs) /\ Len(w) = DraftTokens /\ Len(p) \in Nat
      BY <1>2, <1>3
    <3> HIDE DEF p, w
    <3>4. \A j \in 1..Len(p) : w[p[j] + 1] \in Locs
      BY <3>2, <3>3, ElementOfSeq
    <3>5. Pick(w, p) \in [1..Len(p) -> Locs] /\ \A j \in 1..Len(p) : Pick(w, p)[j] = w[p[j] + 1]
      BY <3>4 DEF Pick
    <3>6. Pick(w, p) \in Seq(Locs) /\ Len(Pick(w, p)) = Len(p)
      BY <3>3, <3>5, ListIs
    <3> QED
      BY <3>1, <3>2, <3>5, <3>6 DEF p, w
  <2>4. InOrder(Running, Fronts(path), Sources(path))
    <3> SUFFICES ASSUME NEW q \in Running, NEW t \in Running,
                        NEW i \in 1..Len(Fronts(path)[q]), NEW j \in 1..Len(Fronts(path)[t]),
                        Fronts(path)[q][i] = Sources(path)[t][j]
                 PROVE  q = t /\ j <= i
      BY DEF InOrder
    <3>1. i \in 1..Len(path[q]) /\ j \in 1..Len(path[t]) /\ i \in 1..DraftTokens
      BY <1>1, <1>3, <2>1
    <3> DEFINE k == path[t][j] + 1
    <3>2. k \in 1..DraftTokens /\ j <= k /\ Sources(path)[t][j] = Windows[t][k]
      BY <1>1, <1>3, <2>3, <3>1
    <3> HIDE DEF k
    <3>3. Fronts(path)[q][i] = Windows[q][i]
      BY <1>2, <2>1, <3>1
    <3>4. Windows[q][i] = Windows[t][k] /\ i \in 1..Len(Windows[q]) /\ k \in 1..Len(Windows[t])
      BY <1>2, <3>1, <3>2, <3>3
    <3>5. q = t /\ i = k
      BY <1>2, <3>4 DEF AllDistinct
    <3> QED
      BY <3>2, <3>5
  <2> DEFINE h == [q \in Running |-> Get(verified, Sources(path)[q])]
  <2>5. LandsAll(out, verified, Running, Fronts(path), h)
    <3>1. \A q \in Running : Fronts(path)[q] \in Seq(Locs) /\ Sources(path)[q] \in Seq(Locs)
            /\ Len(Sources(path)[q]) = Len(Fronts(path)[q])
      BY <2>1, <2>3
    <3> DEFINE f == Fronts(path)
               g == Sources(path)
    <3>2. /\ out = MoveBuffer(verified, OverBatch(batch, f), OverBatch(batch, g))
          /\ AllDistinct(Running, f) /\ InOrder(Running, f, g)
          /\ \A q \in Running : f[q] \in Seq(Locs) /\ g[q] \in Seq(Locs) /\ Len(g[q]) = Len(f[q])
      BY <1>9, <2>2, <2>4, <3>1
    <3>3. h = [q \in Running |-> Get(verified, g[q])]
      OBVIOUS
    <3> HIDE DEF f, g, h
    <3>4. LandsAll(MoveBuffer(verified, OverBatch(batch, f), OverBatch(batch, g)), verified, Running, f,
                   [q \in Running |-> Get(verified, g[q])])
      BY <1>1, <3>2, MoveBatchIs
    <3> QED
      BY <3>2, <3>3, <3>4 DEF f
  <2>6. h[r] = Get(verified, Sources(path)[r])
    OBVIOUS
  <2> HIDE DEF h
  <2>7. ASSUME NEW i \in 1..Len(path[r])
        PROVE  out[Loc(r, SeqLen(r) + i - 1)] = Token(r, SeqLen(r), path[r][i])
    <3>1. out[Loc(r, SeqLen(r) + i - 1)] = h[r][i]
      BY <2>1, <2>2, <2>5, EndLands
    <3>2. h[r][i] = verified[Sources(path)[r][i]]
      BY <2>3, <2>6 DEF Get
    <3> DEFINE k == path[r][i] + 1
    <3>3. k \in 1..DraftTokens /\ Sources(path)[r][i] = Windows[r][k] /\ k - 1 = path[r][i]
      BY <1>3, <2>3
    <3> HIDE DEF k
    <3>4. verified[Windows[r][k]] = Token(r, SeqLen(r), k - 1)
      BY <1>2, <1>6, <3>3
    <3> QED
      BY <3>1, <3>2, <3>3, <3>4
  <2>8. \A i \in 1..SeqLen(r) : out[Loc(r, i - 1)] = verified[Loc(r, i - 1)]
    BY <2>2, <2>5, EndLands
  <2> QED
    BY <1>7, <2>7, <2>8
<1> QED
  BY <1>8, <1>9

\* The first n of a sequence.
LEMMA FirstOf ==
  ASSUME NEW S, NEW s, s \in Seq(S), NEW n, n \in Nat, n <= Len(s)
  PROVE  /\ SubSeq(s, 1, n) \in Seq(S) /\ Len(SubSeq(s, 1, n)) = n
         /\ \A i \in 1..n : SubSeq(s, 1, n)[i] = s[i]
<1>1. Len(s) \in Nat /\ \A i \in 1..Len(s) : s[i] \in S
  BY ElementOfSeq, LenProperties
<1>2. 1 \in Int /\ n \in Int /\ \A i \in 1..n : s[i] \in S
  BY <1>1
<1>3. /\ SubSeq(s, 1, n) \in Seq(S)
      /\ Len(SubSeq(s, 1, n)) = IF 1 <= n THEN n - 1 + 1 ELSE 0
      /\ \A i \in 1..n - 1 + 1 : SubSeq(s, 1, n)[i] = s[1 + i - 1]
  BY <1>2, SubSeqProperties
<1>4. n - 1 + 1 = n /\ \A i \in 1..n : 1 + i - 1 = i
  OBVIOUS
<1> QED
  BY <1>3, <1>4

\* What the draft pool holds after its extend.
\* The draft model's buffer after a verify: the windows, or their accepted part.
DraftRound(batch, path, buf, out) ==
  \/ out = Put(buf, OverBatch(batch, Windows), OverBatch(batch, Extends(path)))
  \/ out = Put(buf, OverBatch(batch, [q \in Running |-> SubSeq(Windows[q], 1, Lens(path)[q])]),
                    OverBatch(batch, [q \in Running |-> SubSeq(Extends(path)[q], 1, Lens(path)[q])]))

\* So do the draft's, by a whole or by a prefix-valid store.
LEMMA VerifyDraft ==
  ASSUME PoolTypes, PagesApart, Roomy, NEW batch \in SetToSeqs(Running), NEW path \in [Running -> Paths],
         \A q \in Running : NeededPages(q) <= Len(pages[q]), NEW buf, NEW out,
         DraftRound(batch, path, buf, out), NEW r \in Running
  PROVE  PathLanded(r, path, buf, out)
<1> SUFFICES /\ \A i \in 1..Len(path[r]) :
                  out[Loc(r, SeqLen(r) + i - 1)] = Token(r, SeqLen(r), path[r][i])
             /\ \A i \in 1..SeqLen(r) : out[Loc(r, i - 1)] = buf[Loc(r, i - 1)]
  BY DEF PathLanded
<1>1. Running \in SUBSET Reqs /\ r \in Reqs /\ DraftTokens \in Nat
  BY RunningIs, PoolSizes
<1>2. /\ AtEnd(Windows) /\ AllDistinct(Running, Windows)
      /\ \A q \in Running : Windows[q] \in Seq(Locs) /\ Len(Windows[q]) = DraftTokens
           /\ \A i \in 1..DraftTokens : Windows[q][i] = Loc(q, SeqLen(q) + i - 1)
  BY WindowsAtEnd, AtEndApart
<1>3. ASSUME NEW q \in Running
      PROVE  /\ path[q] \in Paths /\ Lens(path)[q] = Len(path[q]) /\ Extends(path)[q] = ExtendOf(q, path[q])
             /\ Len(path[q]) \in Nat /\ Len(path[q]) <= DraftTokens
             /\ ExtendOf(q, path[q]) \in Seq({ExtendOf(q, path[q])[i] : i \in 1..DraftTokens})
             /\ Len(ExtendOf(q, path[q])) = DraftTokens
             /\ \A i \in 1..Len(path[q]) :
                  ExtendOf(q, path[q])[i] = Token(q, SeqLen(q), path[q][i]) /\ i \in 1..DraftTokens
  <2>1. path[q] \in Paths /\ q \in Reqs
    BY <1>1
  <2>2. Lens(path)[q] = Len(path[q]) /\ Extends(path)[q] = ExtendOf(q, path[q])
    BY DEF Lens, Extends
  <2>3. Len(path[q]) \in Nat /\ Len(path[q]) <= DraftTokens
    BY <1>1, <2>1, PathIs, PoolSizes
  <2> QED
    BY <2>1, <2>2, <2>3, AcceptIs
<1>4. CASE out = Put(buf, OverBatch(batch, Windows), OverBatch(batch, Extends(path)))
  <2>1. \A q \in Running : Windows[q] \in Seq(Locs) /\ Len(Extends(path)[q]) = Len(Windows[q])
    BY <1>2, <1>3
  <2>2. LandsAll(out, buf, Running, Windows, Extends(path))
    BY <1>1, <1>2, <1>4, <2>1, StoreBatchIs
  <2>3. /\ \A i \in 1..Len(Windows[r]) : out[Loc(r, SeqLen(r) + i - 1)] = Extends(path)[r][i]
        /\ \A i \in 1..SeqLen(r) : out[Loc(r, i - 1)] = buf[Loc(r, i - 1)]
    BY <1>2, <2>2, EndLands
  <2> QED
    BY <1>2, <1>3, <2>3
<1>5. CASE out = Put(buf, OverBatch(batch, [q \in Running |-> SubSeq(Windows[q], 1, Lens(path)[q])]),
                     OverBatch(batch, [q \in Running |-> SubSeq(Extends(path)[q], 1, Lens(path)[q])]))
  <2> DEFINE f == [q \in Running |-> SubSeq(Windows[q], 1, Lens(path)[q])]
             g == [q \in Running |-> SubSeq(Extends(path)[q], 1, Lens(path)[q])]
  <2>1. ASSUME NEW q \in Running
        PROVE  /\ f[q] \in Seq(Locs) /\ Len(f[q]) = Len(path[q]) /\ Len(g[q]) = Len(path[q])
               /\ \A i \in 1..Len(path[q]) :
                    f[q][i] = Windows[q][i] /\ g[q][i] = Token(q, SeqLen(q), path[q][i])
    <3> DEFINE w == Windows[q]
               x == ExtendOf(q, path[q])
               n == Len(path[q])
               X == {x[i] : i \in 1..DraftTokens}
    <3>1. f[q] = SubSeq(w, 1, n) /\ g[q] = SubSeq(x, 1, n)
      BY <1>3
    <3>2. /\ w \in Seq(Locs) /\ Len(w) = DraftTokens /\ x \in Seq(X) /\ Len(x) = DraftTokens
          /\ n \in Nat /\ n <= DraftTokens
          /\ \A i \in 1..n : x[i] = Token(q, SeqLen(q), path[q][i])
      BY <1>2, <1>3
    <3> HIDE DEF w, x, n, X
    <3>3. /\ SubSeq(w, 1, n) \in Seq(Locs) /\ Len(SubSeq(w, 1, n)) = n
          /\ \A i \in 1..n : SubSeq(w, 1, n)[i] = w[i]
      BY <1>1, <3>2, FirstOf
    <3>4. /\ Len(SubSeq(x, 1, n)) = n
          /\ \A i \in 1..n : SubSeq(x, 1, n)[i] = x[i]
      BY <1>1, <3>2, FirstOf
    <3> HIDE DEF f, g
    <3> QED
      BY <3>1, <3>2, <3>3, <3>4 DEF w, n
  <2> HIDE DEF f, g
  <2>2. AtEnd(f)
    <3> SUFFICES ASSUME NEW q \in Running
                 PROVE  /\ f[q] \in Seq(Locs) /\ Len(f[q]) \in Nat
                        /\ \A i \in 1..Len(f[q]) :
                             f[q][i] = Loc(q, SeqLen(q) + i - 1) /\ SeqLen(q) + i - 1 \in Places(pages[q])
      BY DEF AtEnd
    <3>1. f[q] \in Seq(Locs) /\ Len(f[q]) \in Nat /\ Len(f[q]) = Len(path[q])
      BY <1>3, <2>1
    <3>2. \A i \in 1..Len(f[q]) : i \in 1..DraftTokens
      BY <1>1, <1>3, <3>1
    <3>3. \A i \in 1..DraftTokens :
            Windows[q][i] = Loc(q, SeqLen(q) + i - 1) /\ SeqLen(q) + i - 1 \in Places(pages[q])
      BY <1>2 DEF AtEnd
    <3> QED
      BY <2>1, <3>1, <3>2, <3>3
  <2>3. AllDistinct(Running, f)
    BY <2>2, AtEndApart
  <2>4. \A q \in Running : f[q] \in Seq(Locs) /\ Len(g[q]) = Len(f[q])
    BY <2>1
  <2>5. out = Put(buf, OverBatch(batch, f), OverBatch(batch, g))
    BY <1>5 DEF f, g
  <2>6. LandsAll(out, buf, Running, f, g)
    BY <1>1, <2>3, <2>4, <2>5, StoreBatchIs
  <2>7. /\ \A i \in 1..Len(f[r]) : out[Loc(r, SeqLen(r) + i - 1)] = g[r][i]
        /\ \A i \in 1..SeqLen(r) : out[Loc(r, i - 1)] = buf[Loc(r, i - 1)]
    BY <2>2, <2>6, EndLands
  <2> QED
    BY <2>1, <2>7
<1> QED
  BY <1>4, <1>5 DEF DraftRound

\* A verify keeps the invariant: it appends to each request what has landed.
LEMMA VerifyHolds ==
  ASSUME Complete, PoolInv, NEW batch \in SetToSeqs(Running), NEW path \in [Running -> Paths],
         NEW whole \in BOOLEAN, Verify(batch, path, whole)
  PROVE  PoolInv'
<1> DEFINE windows == OverBatch(batch, Windows)
           verified == Store(cells["target"], windows, OverBatch(batch, Trees))
           fronts == OverBatch(batch, Fronts(path))
           sources == OverBatch(batch, Sources(path))
           target == IF Topk = 1 THEN verified ELSE Move(verified, fronts, sources)
           draft == IF whole THEN Store(cells["draft"], windows, OverBatch(batch, Extends(path)))
                    ELSE StorePrefix(cells["draft"], batch, Windows, Extends(path), Lens(path))
           acc(q) == AcceptOf(q, path[q])
<1>0. PoolTypes /\ Homed /\ PagesApart /\ Roomy /\ Copied /\ Whole /\ BranchesWhole
  BY DEF PoolInv
<1>1. /\ drafted /\ cells' = [target |-> target, draft |-> draft]
      /\ toks' = [q \in Reqs |-> IF q \in Running THEN toks[q] \o acc(q) ELSE toks[q]]
      /\ rowbuf' = [b \in DOMAIN rowbuf |-> [w \in Rows |->
           IF \E q \in Running : row[q] = w
           THEN Last(acc(CHOOSE q \in Running : row[q] = w)) ELSE rowbuf[b][w]]]
      /\ drafted' = FALSE
      /\ kind' = kind /\ rowfree' = rowfree /\ row' = row /\ pages' = pages
      /\ status' = status /\ host' = host /\ lost' = lost
  BY DEF Verify, Windows, Trees, Extends, Lens, Fronts, Sources, WindowOf, TreeOf, ExtendOf, AcceptOf
<1>2. ASSUME NEW r \in Running
      PROVE  /\ r \in Reqs /\ NeededPages(r) <= Len(pages[r]) /\ SeqLen(r) \in Nat /\ SeqLen(r) > 0
             /\ lost[r] \in Nat /\ toks[r] \in Seq(AnyToken) /\ Len(toks[r]) = SeqLen(r)
             /\ SeqLen(r) + DraftTokens <= Len(pages[r]) * PageSlots /\ path[r] \in Paths
             /\ Len(pages[r]) * PageSlots \in Nat
  <2>1. r \in Reqs /\ NeededPages(r) <= Len(pages[r]) /\ SeqLen(r) > 0 /\ path[r] \in Paths
    BY <1>0, <1>1, RunningIs DEF Roomy
  <2>2. SeqLen(r) \in Nat /\ toks[r] \in Seq(AnyToken) /\ Len(toks[r]) = SeqLen(r)
        /\ Len(pages[r]) * PageSlots \in Nat
    BY <1>0, <2>1, SeqLenIs DEF SeqLen
  <2>3. SeqLen(r) + DraftTokens <= Len(pages[r]) * PageSlots
    BY <1>0, <2>1, RoundRoom
  <2>4. lost[r] \in Nat
    BY <1>0, <2>1 DEF PoolTypes
  <2> QED
    BY <2>1, <2>2, <2>3, <2>4
<1>3. DOMAIN cells = Models /\ \A x \in Models : DOMAIN cells[x] = pool.slot
  BY <1>0 DEF PoolTypes
<1>4. "target" \in Models /\ "draft" \in Models /\ \A x \in Models : x = "target" \/ x = "draft"
  BY DEF Models
<1>5. Topk # 1 => pool.moved = pool.slot
  <2> SUFFICES ASSUME Topk # 1 PROVE pool.moved = pool.slot
    OBVIOUS
  <2>1. pool.tree /\ TreeTopk # 1
    BY DEF Topk
  <2>2. TreeTopk > 1
    BY <2>1, PoolSizes
  <2>3. kind \in Kinds
    BY <1>0 DEF PoolTypes
  <2> QED
    BY <2>1, <2>2, <2>3 DEF Complete, pool
<1>6. DOMAIN verified = pool.slot
      /\ \A b \in pool.slot : verified[b] = Put(cells["target"][b], windows, OverBatch(batch, Trees))
  BY <1>3, <1>4 DEF Store
<1> HIDE DEF verified
<1>7. /\ DOMAIN target = pool.slot
      /\ \A b \in pool.slot :
           /\ Topk = 1 => target[b] = verified[b]
           /\ Topk # 1 => target[b] = MoveBuffer(verified[b], fronts, sources)
  BY <1>5, <1>6 DEF Move
<1>8. /\ DOMAIN draft = pool.slot
      /\ \A b \in pool.slot :
           \/ draft[b] = Put(cells["draft"][b], windows, OverBatch(batch, Extends(path)))
           \/ draft[b] = Put(cells["draft"][b],
                             OverBatch(batch, [q \in Running |-> SubSeq(Windows[q], 1, Lens(path)[q])]),
                             OverBatch(batch, [q \in Running |-> SubSeq(Extends(path)[q], 1, Lens(path)[q])]))
  BY <1>3, <1>4 DEF Store, StorePrefix
<1> HIDE DEF target, draft
<1>9. DOMAIN cells' = Models /\ cells'["target"] = target /\ cells'["draft"] = draft
  BY <1>1 DEF Models
<1>10. \A q \in Running : NeededPages(q) <= Len(pages[q])
  BY <1>2
<1>11. ASSUME NEW r \in Running, NEW b \in pool.slot
       PROVE  /\ \A i \in 1..Len(path[r]) :
                   /\ target[b][Loc(r, SeqLen(r) + i - 1)] = Token(r, SeqLen(r), path[r][i])
                   /\ draft[b][Loc(r, SeqLen(r) + i - 1)] = Token(r, SeqLen(r), path[r][i])
              /\ \A i \in 1..SeqLen(r) :
                   /\ target[b][Loc(r, i - 1)] = cells["target"][b][Loc(r, i - 1)]
                   /\ draft[b][Loc(r, i - 1)] = cells["draft"][b][Loc(r, i - 1)]
  <2> DEFINE t0 == cells["target"][b]
             t1 == verified[b]
             t2 == target[b]
             d0 == cells["draft"][b]
             d2 == draft[b]
  <2>1. TargetRound(batch, path, t0, t1, t2)
    BY <1>6, <1>7 DEF TargetRound
  <2>2. DraftRound(batch, path, d0, d2)
    BY <1>8 DEF DraftRound
  <2> HIDE DEF t0, t1, t2, d0, d2
  <2>3. PathLanded(r, path, t0, t2)
    BY <1>0, <1>10, <2>1, VerifyTarget
  <2>4. PathLanded(r, path, d0, d2)
    BY <1>0, <1>10, <2>2, VerifyDraft
  <2> QED
    BY <2>3, <2>4 DEF t0, t2, d0, d2, PathLanded
<1>12. ASSUME NEW r \in Running
       PROVE  /\ acc(r) \in Seq(AnyToken) /\ Len(acc(r)) = Len(path[r])
              /\ Len(path[r]) \in Nat \ {0} /\ Len(path[r]) <= DraftTokens
              /\ \A i \in 1..Len(path[r]) : acc(r)[i] = Token(r, SeqLen(r), path[r][i])
  <2>1. r \in Reqs /\ path[r] \in Paths
    BY <1>2
  <2>2. Len(path[r]) \in Nat \ {0} /\ Len(path[r]) <= DraftTokens
    BY <2>1, PathIs, PoolSizes
  <2> QED
    BY <1>0, <2>1, <2>2, AcceptIs
<1> HIDE DEF acc
<1>13. ASSUME NEW r \in Running
       PROVE  /\ toks'[r] \in Seq(AnyToken) /\ Len(toks'[r]) = SeqLen(r) + Len(path[r])
              /\ \A i \in 1..SeqLen(r) : toks'[r][i] = toks[r][i]
              /\ \A i \in 1..Len(path[r]) : toks'[r][SeqLen(r) + i] = acc(r)[i]
  <2> DEFINE s == toks[r]
             t == acc(r)
             n == SeqLen(r)
             k == Len(path[r])
  <2>1. toks'[r] = s \o t
    BY <1>1, <1>2
  <2>2. s \in Seq(AnyToken) /\ t \in Seq(AnyToken) /\ Len(s) = n /\ Len(t) = k /\ n \in Nat /\ k \in Nat
    BY <1>2, <1>12
  <2> HIDE DEF s, t, n, k
  <2>3. /\ s \o t \in Seq(AnyToken) /\ Len(s \o t) = n + k
        /\ \A i \in 1..n + k : (s \o t)[i] = IF i <= n THEN s[i] ELSE t[i - n]
    BY <2>2, ConcatProperties
  <2>4. \A i \in 1..n : (s \o t)[i] = s[i]
    BY <2>2, <2>3
  <2>5. ASSUME NEW i \in 1..k PROVE (s \o t)[n + i] = t[i]
    <3> DEFINE c == s \o t
    <3>1. n + i \in 1..n + k /\ ~(n + i <= n) /\ n + i - n = i
      BY <2>2
    <3>2. \A x \in 1..n + k : c[x] = IF x <= n THEN s[x] ELSE t[x - n]
      BY <2>3
    <3> HIDE DEF c
    <3> DEFINE z == n + i
    <3>3. z \in 1..n + k /\ z = n + i /\ ~(z <= n) /\ z - n = i
      BY <2>2
    <3> HIDE DEF z
    <3>5. c[z] = t[i]
      BY <3>2, <3>3
    <3>4. c[n + i] = t[i]
      BY <3>3, <3>5
    <3> QED
      BY <3>4 DEF c
  <2> QED
    BY <2>1, <2>3, <2>4, <2>5 DEF s, t, n, k
<1>14. pool' = pool /\ Running' = Running
  BY <1>1 DEF pool, Running
<1>15. \A q \in Reqs \ Running : toks'[q] = toks[q]
  BY <1>1
<1>16. PoolTypes'
  <2>1. \A x \in Models : DOMAIN cells'[x] = pool.slot
    BY <1>4, <1>7, <1>8, <1>9
  <2>2. \A q \in Reqs : toks'[q] \in Seq(AnyToken)
    BY <1>0, <1>13, <1>15 DEF PoolTypes
  <2>3. toks' = [q \in Reqs |-> toks'[q]]
    BY <1>1
  <2>4. toks' \in [Reqs -> Seq(AnyToken)]
    BY <2>2, <2>3
  <2>5. DOMAIN rowbuf = pool.row
    BY <1>0 DEF PoolTypes
  <2>6. DOMAIN rowbuf' = pool.row /\ \A b \in pool.row : DOMAIN rowbuf'[b] = Rows
    BY <1>1, <2>5
  <2> QED
    BY <1>0, <1>1, <1>9, <1>14, <2>1, <2>4, <2>6 DEF PoolTypes
<1>17. Homed' /\ PagesApart'
  BY <1>0, <1>1, <1>14 DEF Homed, PagesApart
<1>18. Roomy'
  <2> SUFFICES ASSUME NEW q \in Running
               PROVE  Len(toks'[q]) > 0 /\ Len(toks'[q]) <= Len(pages[q]) * PageSlots
    BY <1>1, <1>14 DEF Roomy, SeqLen
  <2> DEFINE n == SeqLen(q)
             k == Len(path[q])
             M == Len(pages[q]) * PageSlots
  <2>1. n \in Nat /\ n > 0 /\ n + DraftTokens <= M /\ M \in Nat /\ DraftTokens \in Nat
    BY <1>2, PoolSizes
  <2>2. k \in Nat /\ k <= DraftTokens /\ Len(toks'[q]) = n + k
    BY <1>12, <1>13
  <2> HIDE DEF n, k, M
  <2>3. Len(toks'[q]) > 0 /\ Len(toks'[q]) <= M
    BY <2>1, <2>2
  <2> QED
    BY <2>3 DEF M
<1>19. Copied'
  <2>1. \A q \in Reqs : status'[q] = "retracted" => status[q] = "retracted" /\ toks'[q] = toks[q]
    BY <1>1, <1>15 DEF Running
  <2> QED
    BY <1>0, <1>1, <2>1, StillCopied
<1>20. ASSUME NEW r \in Running, NEW b \in pool.row PROVE rowbuf'[b][row[r]] = Last(toks'[r])
  <2>1. row[r] \in Rows /\ \A x, y \in Running : row[x] = row[y] => x = y
    BY <1>0 DEF Homed
  <2>2. (CHOOSE q \in Running : row[q] = row[r]) = r
    BY <2>1
  <2>3. b \in DOMAIN rowbuf
    BY <1>0 DEF PoolTypes
  <2>4. rowbuf'[b][row[r]] = Last(acc(r))
    BY <1>1, <2>1, <2>2, <2>3
  <2> DEFINE n == SeqLen(r)
             k == Len(path[r])
  <2>5. k \in 1..k /\ Len(acc(r)) = k /\ Len(toks'[r]) = n + k /\ \A i \in 1..k : toks'[r][n + i] = acc(r)[i]
    BY <1>12, <1>13
  <2> HIDE DEF n, k
  <2>6. Last(acc(r)) = acc(r)[k] /\ Last(toks'[r]) = toks'[r][n + k]
    BY <2>5 DEF Last
  <2> QED
    BY <2>4, <2>5, <2>6
<1>21. ASSUME NEW q \in Running'
       PROVE  /\ \A b \in pool.slot : \A i \in 1..Len(toks'[q]) :
                   cells'["target"][b][SlotOf(pages'[q], i - 1)] = toks'[q][i]
              /\ \A b \in pool.row : rowbuf'[b][row'[q]] = Last(toks'[q])
              /\ \A b \in pool.slot : \A i \in lost'[q] + 1..Len(toks'[q]) :
                   cells'["draft"][b][SlotOf(pages'[q], i - 1)] = toks'[q][i]
  <2>1. q \in Running
    BY <1>14
  <2>2. \A i : SlotOf(pages'[q], i) = Loc(q, i)
    BY <1>1 DEF Loc
  <2> DEFINE n == SeqLen(q)
             k == Len(path[q])
             upto == Len(toks'[q])
  <2>3. n \in Nat /\ k \in Nat /\ upto = n + k /\ lost[q] \in Nat
    BY <1>2, <1>12, <1>13, <2>1
  <2>4. \A i \in 1..n : toks'[q][i] = toks[q][i]
    BY <1>13, <2>1
  <2>5. \A i \in 1..k : toks'[q][n + i] = Token(q, n, path[q][i])
    BY <1>12, <1>13, <2>1
  <2> HIDE DEF n, k, upto
  <2>6. \A i \in 1..upto : i \in 1..n \/ \E j \in 1..k : i = n + j
    <3> SUFFICES ASSUME NEW i \in 1..upto, i \notin 1..n PROVE \E j \in 1..k : i = n + j
      OBVIOUS
    <3>1. i - n \in 1..k /\ i = n + (i - n)
      BY <2>3
    <3> QED
      BY <3>1
  <2>7. ASSUME NEW b \in pool.slot, NEW i \in 1..upto PROVE target[b][Loc(q, i - 1)] = toks'[q][i]
    <3>1. CASE i \in 1..n
      <4>1. cells["target"][b][Loc(q, i - 1)] = toks[q][i]
        BY <1>0, <2>1, <3>1 DEF Whole, n
      <4>2. target[b][Loc(q, i - 1)] = cells["target"][b][Loc(q, i - 1)]
        BY <1>11, <2>1, <3>1 DEF n
      <4> QED
        BY <2>4, <3>1, <4>1, <4>2
    <3>2. CASE \E j \in 1..k : i = n + j
      <4>1. PICK j \in 1..k : i = n + j
        BY <3>2
      <4>2. target[b][Loc(q, n + j - 1)] = Token(q, n, path[q][j])
        BY <1>11, <2>1 DEF n, k
      <4>3. toks'[q][n + j] = Token(q, n, path[q][j])
        BY <2>5
      <4>5. i - 1 = n + j - 1
        BY <2>3, <4>1
      <4>4. target[b][Loc(q, i - 1)] = Token(q, n, path[q][j])
        BY <4>2, <4>5
      <4> QED
        BY ONLY <4>1, <4>3, <4>4
    <3> QED
      BY <2>6, <3>1, <3>2
  <2>8. ASSUME NEW b \in pool.slot, NEW i \in lost[q] + 1..upto PROVE draft[b][Loc(q, i - 1)] = toks'[q][i]
    <3>0. i \in 1..upto
      BY <2>3
    <3>1. CASE i \in 1..n
      <4>0. i \in lost[q] + 1..n
        BY <2>3, <3>1
      <4>1. cells["draft"][b][Loc(q, i - 1)] = toks[q][i]
        BY <1>0, <2>1, <4>0 DEF BranchesWhole, n
      <4>2. draft[b][Loc(q, i - 1)] = cells["draft"][b][Loc(q, i - 1)]
        BY <1>11, <2>1, <3>1 DEF n
      <4> QED
        BY <2>4, <3>1, <4>1, <4>2
    <3>2. CASE \E j \in 1..k : i = n + j
      <4>1. PICK j \in 1..k : i = n + j
        BY <3>2
      <4>2. draft[b][Loc(q, n + j - 1)] = Token(q, n, path[q][j])
        BY <1>11, <2>1 DEF n, k
      <4>3. toks'[q][n + j] = Token(q, n, path[q][j])
        BY <2>5
      <4>5. i - 1 = n + j - 1
        BY <2>3, <4>1
      <4>4. draft[b][Loc(q, i - 1)] = Token(q, n, path[q][j])
        BY <4>2, <4>5
      <4> QED
        BY ONLY <4>1, <4>3, <4>4
    <3>3. i \in 1..n \/ \E j \in 1..k : i = n + j
      BY <2>6, <3>0
    <3> QED
      BY <3>1, <3>2, <3>3
  <2>9. \A b \in pool.row : rowbuf'[b][row'[q]] = Last(toks'[q])
    <3>1. row'[q] = row[q]
      BY <1>1
    <3>2. \A b \in pool.row : rowbuf'[b][row[q]] = Last(toks'[q])
      BY <1>20, <2>1
    <3> QED
      BY <3>1, <3>2
  <2> QED
    <3>1. cells'["target"] = target /\ cells'["draft"] = draft /\ lost' = lost
      BY <1>1, <1>9
    <3>2. \A b \in pool.slot : \A i \in 1..upto : cells'["target"][b][SlotOf(pages'[q], i - 1)] = toks'[q][i]
      BY <2>2, <2>7, <3>1
    <3>3. \A b \in pool.slot : \A i \in lost'[q] + 1..upto :
            cells'["draft"][b][SlotOf(pages'[q], i - 1)] = toks'[q][i]
      BY <2>2, <2>8, <3>1
    <3> QED
      BY <2>9, <3>2, <3>3 DEF upto
<1>22. Whole' /\ BranchesWhole'
  BY <1>1, <1>21, WholeStep
<1> QED
  BY <1>16, <1>17, <1>18, <1>19, <1>22 DEF PoolInv

-----------------------------------------------------------------------------
(* The pools as a whole                                                      *)

\* The invariant holds at the start, when nothing runs.
LEMMA StartHolds ==
  ASSUME PoolInit
  PROVE  PoolInv
<1>1. /\ kind \in Kinds
      /\ cells = [m \in Models |-> [b \in pool.slot |-> [s \in Locs |-> Empty]]]
      /\ rowbuf = [b \in pool.row |-> [w \in Rows |-> Empty]]
      /\ rowfree = [i \in Rows |-> i] /\ row = [r \in Reqs |-> NoRow]
      /\ pages = [r \in Reqs |-> <<>>] /\ toks = [r \in Reqs |-> <<>>]
      /\ status = [r \in Reqs |-> "waiting"] /\ host = [r \in Reqs |-> <<>>]
      /\ drafted = FALSE /\ lost = [r \in Reqs |-> 0]
  BY DEF PoolInit
<1>2. Running = {}
  BY <1>1 DEF Running
<1>3. Cardinality(Reqs) \in Nat
  BY PoolSizes, FS_CardinalityType
<1>4. rowfree \in Seq(Rows) /\ Len(rowfree) = Cardinality(Reqs) /\ \A i \in Rows : rowfree[i] = i
  <2>1. rowfree \in [1..Cardinality(Reqs) -> Rows]
    BY <1>1 DEF Rows
  <2>2. \A i \in Rows : rowfree[i] = i
    BY <1>1
  <2> QED
    BY <1>3, <2>1, <2>2, ListIs
<1>5. PoolTypes
  <2>1. <<>> \in Seq(1..NumPages) /\ <<>> \in Seq(AnyToken)
    BY EmptySeq
  <2> QED
    BY <1>1, <1>4, <2>1 DEF PoolTypes
<1>6. Homed
  BY <1>2, <1>4 DEF Homed, Distinct, Rows
<1>7. PagesApart
  BY <1>1 DEF PagesApart
<1> QED
  BY <1>1, <1>2, <1>5, <1>6, <1>7 DEF PoolInv, Roomy, Copied, Whole, BranchesWhole

\* And in a step that changes nothing.
LEMMA StayHolds ==
  ASSUME PoolInv, UNCHANGED pool_vars
  PROVE  PoolInv'
<1>1. /\ kind' = kind /\ cells' = cells /\ rowbuf' = rowbuf /\ rowfree' = rowfree /\ row' = row
      /\ pages' = pages /\ toks' = toks /\ status' = status /\ host' = host /\ drafted' = drafted
      /\ lost' = lost
  BY DEF pool_vars
<1>2. pool' = pool /\ Running' = Running /\ Topk' = Topk
  BY <1>1 DEF pool, Running, Topk
<1>3. \A r : SeqLen(r)' = SeqLen(r) /\ NeededPages(r)' = NeededPages(r) /\ LastPage(r)' = LastPage(r)
        /\ PrefixBase(r)' = PrefixBase(r) /\ \A t : BranchBase(r, t)' = BranchBase(r, t)
  BY <1>1, <1>2 DEF SeqLen, NeededPages, LastPage, PrefixBase, BranchBase, NewPages
<1>4. \A r, i : Loc(r, i)' = Loc(r, i)
  BY <1>1 DEF Loc
<1>5. \A r, t : /\ BranchSlots(r, t)' = BranchSlots(r, t)
                /\ LocsAt(r, BranchBase(r, t), LastPage(r))' = LocsAt(r, BranchBase(r, t), LastPage(r))
                /\ LocsAt(r, PrefixBase(r), LastPage(r))' = LocsAt(r, PrefixBase(r), LastPage(r))
                /\ \A s : Draft(r, t, s)' = Draft(r, t, s)
  BY <1>1, <1>2, <1>3, <1>4 DEF BranchSlots, LocsAt, Draft
<1>6. PoolTypes' /\ Homed' /\ PagesApart' /\ Roomy' /\ Copied'
  BY <1>1, <1>2, <1>3, StillCopied DEF PoolInv, PoolTypes, Homed, PagesApart, Roomy
<1>7. Whole'
  BY <1>1, <1>2, <1>3, <1>4 DEF PoolInv, Whole
<1>8. BranchesWhole'
  BY <1>1, <1>2, <1>3, <1>4, <1>5 DEF PoolInv, BranchesWhole, Get
<1> QED
  BY <1>6, <1>7, <1>8 DEF PoolInv

\* Every step keeps it.
LEMMA StepHolds ==
  ASSUME Complete, PoolInv, [PoolNext]_pool_vars
  PROVE  PoolInv'
<1>1. ASSUME NEW r \in Reqs, Prefill(r) PROVE PoolInv'
  BY <1>1, PrefillHolds
<1>2. ASSUME NEW r \in Reqs, Retract(r) PROVE PoolInv'
  BY <1>2, RetractHolds
<1>3. ASSUME NEW r \in Reqs, Resume(r) PROVE PoolInv'
  BY <1>3, ResumeHolds
<1>4. ASSUME NEW r \in Reqs, Finish(r) PROVE PoolInv'
  BY <1>4, FinishHolds
<1>5. ASSUME NEW batch \in SetToSeqs(Running), Reserve(batch) PROVE PoolInv'
  BY <1>5, ReserveHolds
<1>6. ASSUME NEW batch \in SetToSeqs(Running), DraftTree(batch) PROVE PoolInv'
  BY <1>6, DraftTreeHolds
<1>7. ASSUME NEW batch \in SetToSeqs(Running), NEW path \in [Running -> Paths], NEW whole \in BOOLEAN,
             Verify(batch, path, whole)
      PROVE  PoolInv'
  BY <1>7, VerifyHolds
<1>8. CASE UNCHANGED pool_vars
  BY <1>8, StayHolds
<1> QED
  BY <1>1, <1>2, <1>3, <1>4, <1>5, <1>6, <1>7, <1>8 DEF PoolNext


-----------------------------------------------------------------------------
(* The workspace                                                             *)

\* A class that keeps the keys' scales keeps the keys.
LEMMA ScaledKeys ==
  ASSUME Kinds \subseteq DOMAIN Class, kind \in Kinds, "k_scale" \in pool.slot
  PROVE  "k" \in pool.slot
<1> DEFINE Keyed(c) == "k_scale" \in c.slot => "k" \in c.slot
<1>1. Keyed(MHA)
  BY DEF MHA
<1>2. Keyed(Quantized)
  BY DEF MHA, Quantized
<1>3. Keyed(FP4)
  BY DEF MHA, FP4
<1>4. Keyed(MXFP8)
  BY DEF MHA, FP4, MXFP8
<1>5. Keyed(MLA)
  BY DEF MLA
<1>6. Keyed(MLAFP4)
  BY DEF MLA, MLAFP4
<1>7. Keyed(DSA)
  BY DEF MLA, DSA
<1>8. Keyed(Hybrid)
  BY DEF MHA, Hybrid
<1>9. Keyed(QSA)
  BY DEF MHA, Hybrid, QSA
<1>10. Keyed(MiniMax)
  BY DEF MHA, MiniMax
<1>11. kind \in {"mha", "quantized", "fp4", "mxfp8", "mla", "mla_fp4", "dsa", "hybrid", "qsa", "minimax"}
  BY DEF Class
<1>12. pool \in {MHA, Quantized, FP4, MXFP8, MLA, MLAFP4, DSA, Hybrid, QSA, MiniMax}
  BY <1>11 DEF pool, Class
<1> QED
  BY <1>1, <1>2, <1>3, <1>4, <1>5, <1>6, <1>7, <1>8, <1>9, <1>10, <1>12

\* The slots of a running request dequantize to its tokens.
LEMMA DecodedIs ==
  ASSUME Complete, PoolInv, "k_scale" \in pool.slot, NEW r \in Running, NEW i \in 1..SeqLen(r)
  PROVE  Dequantized(Loc(r, i - 1)) = toks[r][i] /\ Decoded[Loc(r, i - 1)] = toks[r][i]
<1>1. PoolTypes /\ Roomy /\ Whole /\ r \in Reqs
  BY RunningIs DEF PoolInv
<1>2. "k" \in pool.slot
  BY <1>1, ScaledKeys DEF Complete, PoolTypes
<1>3. cells["target"]["k"][Loc(r, i - 1)] = toks[r][i]
      /\ cells["target"]["k_scale"][Loc(r, i - 1)] = toks[r][i]
  BY <1>1, <1>2 DEF Whole
<1>4. Dequantized(Loc(r, i - 1)) = toks[r][i]
  BY <1>3 DEF Dequantized
<1>5. i - 1 \in 0..Len(pages[r]) * PageSlots - 1
  BY <1>1, KeptPlaces DEF Places
<1>6. Loc(r, i - 1) \in Held
  BY <1>1, <1>5 DEF Held
<1>7. Decoded[Loc(r, i - 1)] = Dequantized(Loc(r, i - 1))
  BY <1>6 DEF Decoded
<1> QED
  BY <1>4, <1>7

\* B counts the pages of the requests before each, every one rounded up.
PagesBefore(B, w, n) ==
  /\ n \in Nat /\ Len(w) = n /\ \A i \in 1..n : w[i] \in Nat
  /\ B \in [0..n -> Nat] /\ B[0] = 0
  /\ \A i \in 1..n : B[i] = B[i - 1] + PagesFor(w[i])

\* They begin where a table that counts their pages from 1 finds them.
LEMMA StartsAre ==
  ASSUME NEW w, NEW n, NEW B, PagesBefore(B, w, n)
  PROVE  \A i \in 1..n : Starts(w)[i] = (1 + B[i - 1]) * PageSlots
<1> DEFINE Begin(i) == (1 + B[i - 1]) * PageSlots
           Sat(f) == f = [i \in 1..n + 1 |-> IF i = 1 THEN PageSlots ELSE Align(f[i - 1] + w[i - 1])]
           g == [i \in 1..n + 1 |-> Begin(i)]
           s == Starts(w)
<1>1. /\ n \in Nat /\ Len(w) = n /\ \A i \in 1..n : w[i] \in Nat
      /\ B \in [0..n -> Nat] /\ B[0] = 0
      /\ \A i \in 1..n : B[i] = B[i - 1] + PagesFor(w[i])
      /\ PageSlots \in Nat
  BY PoolSizes DEF PagesBefore
<1>2. Begin(1) = PageSlots
  BY <1>1
<1>3. ASSUME NEW i \in 1..n PROVE Begin(i + 1) = Align(Begin(i) + w[i])
  <2> DEFINE a == 1 + B[i - 1]
             p == PagesFor(w[i])
  <2>1. a \in Nat /\ w[i] \in Nat
    <3>1. i - 1 \in 0..n
      BY <1>1
    <3>2. B[i - 1] \in Nat
      BY <1>1, <3>1
    <3> QED
      BY <1>1, <3>2
  <2>2. B[i] = B[i - 1] + p /\ p \in Nat
    BY <1>1, <2>1, PagesForIs
  <2>3. i + 1 - 1 = i
    OBVIOUS
  <2>4. 1 + B[i] = a + p
    <3>1. i - 1 \in 0..n
      BY <1>1
    <3>2. B[i - 1] \in Nat
      BY <1>1, <3>1
    <3> HIDE DEF p
    <3> QED
      BY <2>2, <3>2
  <2>5. Begin(i) = a * PageSlots
    OBVIOUS
  <2>6. Begin(i + 1) = (a + p) * PageSlots
    BY <2>3, <2>4
  <2>7. PagesFor(a * PageSlots + w[i]) = a + p
    <3> HIDE DEF a
    <3> QED
      BY <2>1, PagesForJoin
  <2> HIDE DEF Begin, a, p
  <2> QED
    BY <2>5, <2>6, <2>7 DEF Align
<1> HIDE DEF Begin
<1>4. Sat(g)
  <2> DEFINE H == [i \in 1..n + 1 |-> IF i = 1 THEN PageSlots ELSE Align(g[i - 1] + w[i - 1])]
  <2>1. ASSUME NEW i \in 1..n + 1 PROVE g[i] = H[i]
    <3>1. CASE i = 1
      BY <1>2, <3>1
    <3>2. CASE i # 1
      <4> DEFINE k == i - 1
      <4>1. k \in 1..n /\ k \in 1..n + 1 /\ k + 1 = i
        BY <1>1, <3>2
      <4>2. g[i] = Begin(i) /\ g[k] = Begin(k) /\ H[i] = Align(g[k] + w[k])
        BY <3>2, <4>1
      <4> HIDE DEF k, g, H
      <4>3. Begin(k + 1) = Align(Begin(k) + w[k])
        BY <1>3, <4>1
      <4> QED
        BY <4>1, <4>2, <4>3
    <3> QED
      BY <3>1, <3>2
  <2>2. g = [i \in 1..n + 1 |-> g[i]] /\ H = [i \in 1..n + 1 |-> H[i]]
    OBVIOUS
  <2> HIDE DEF H, g
  <2>3. g = H
    BY <2>1, <2>2
  <2> QED
    BY <2>3 DEF H
<1>5. s = CHOOSE f : Sat(f)
  BY <1>1 DEF Starts
<1>6. Sat(CHOOSE f : Sat(f))
  <2> HIDE DEF Sat, g
  <2> QED
    BY <1>4
<1>7. Sat(s)
  <2> HIDE DEF Sat, s
  <2> QED
    BY <1>5, <1>6
<1> HIDE DEF s
<1>8. s[1] = PageSlots /\ \A i \in 1..n : s[i + 1] = Align(s[i] + w[i])
  <2>1. 1 \in 1..n + 1 /\ \A i \in 1..n : i + 1 \in 1..n + 1 /\ i + 1 # 1 /\ i + 1 - 1 = i
    BY <1>1
  <2>2. s = [i \in 1..n + 1 |-> IF i = 1 THEN PageSlots ELSE Align(s[i - 1] + w[i - 1])]
    BY <1>7
  <2>3. s[1] = PageSlots
    BY <2>1, <2>2
  <2>4. ASSUME NEW i \in 1..n PROVE s[i + 1] = Align(s[i] + w[i])
    <3> DEFINE k == i + 1
    <3>1. k \in 1..n + 1 /\ k # 1 /\ k - 1 = i
      BY <2>1
    <3> HIDE DEF k
    <3>2. s[k] = Align(s[k - 1] + w[k - 1])
      BY <2>2, <3>1
    <3> QED
      BY <3>1, <3>2 DEF k
  <2> QED
    BY <2>3, <2>4
<1> DEFINE Bad == {i \in 1..n : s[i] # Begin(i)}
<1>9. Bad = {}
  <2> SUFFICES ASSUME Bad # {} PROVE FALSE
    OBVIOUS
  <2>1. PICK i \in Bad : \A y \in Bad : i <= y
    <3>1. Bad \in SUBSET Nat
      BY <1>1
    <3> QED
      BY <3>1, Smallest
  <2>2. i \in 1..n /\ s[i] # Begin(i)
    BY <2>1
  <2>3. i # 1
    BY <1>2, <1>8, <2>2
  <2> DEFINE k == i - 1
  <2>4. k \in 1..n /\ ~(i <= k) /\ k + 1 = i
    BY <1>1, <2>2, <2>3
  <2> HIDE DEF k
  <2>5. s[k] = Begin(k)
    BY <2>1, <2>4
  <2>6. s[k + 1] = Align(s[k] + w[k]) /\ Begin(k + 1) = Align(Begin(k) + w[k])
    BY <1>3, <1>8, <2>4
  <2> QED
    BY <2>2, <2>4, <2>5, <2>6
<1> QED
  BY <1>9 DEF Begin, s

\* And their rows do not overlap.
LEMMA SpansApart ==
  ASSUME NEW w, NEW n, NEW B, PagesBefore(B, w, n), B = Sums([i \in 1..n |-> PagesFor(w[i])]),
         NEW i \in 1..n, NEW k \in 1..n, NEW j \in 1..w[i], NEW l \in 1..w[k],
         (1 + B[i - 1]) * PageSlots + j - 1 = (1 + B[k - 1]) * PageSlots + l - 1
  PROVE  i = k /\ j = l
<1> DEFINE Begin(x) == (1 + B[x - 1]) * PageSlots
<1>1. /\ n \in Nat /\ \A x \in 1..n : w[x] \in Nat
      /\ B \in [0..n -> Nat] /\ \A x \in 1..n : B[x] = B[x - 1] + PagesFor(w[x])
      /\ PageSlots \in Nat
  BY PoolSizes DEF PagesBefore
<1>2. \A x \in 1..n : B[x - 1] \in Nat /\ B[x] \in Nat /\ PagesFor(w[x]) \in Nat
  <2> TAKE x \in 1..n
  <2>1. x - 1 \in 0..n /\ x \in 0..n
    BY <1>1
  <2> QED
    BY <1>1, <2>1, PagesForIs
<1>3. \A x \in 1..n : Begin(x) \in Nat
  <2> TAKE x \in 1..n
  <2> DEFINE a == 1 + B[x - 1]
  <2>1. a \in Nat
    BY <1>2
  <2> HIDE DEF a
  <2>2. a * PageSlots \in Nat
    BY <1>1, <2>1, Products
  <2> QED
    BY <2>2 DEF a
<1>4. ASSUME NEW x \in 1..n, NEW y \in 1..n, x < y PROVE Begin(x) + w[x] <= Begin(y)
  <2> DEFINE a == 1 + B[x - 1]
             p == PagesFor(w[x])
             b == 1 + B[y - 1]
             c == a + p
  <2>1. w[x] \in Nat /\ a \in Nat /\ b \in Nat /\ p \in Nat
    <3>1. w[x] \in Nat /\ p \in Nat
      BY <1>1, <1>2
    <3>2. B[x - 1] \in Nat /\ B[y - 1] \in Nat
      BY <1>2
    <3>3. a \in Nat /\ b \in Nat
      BY ONLY <3>2
    <3> QED
      BY <3>1, <3>3
  <2>2. x \in 0..n /\ y - 1 \in 0..n /\ x <= y - 1
    <3>1. n \in Nat
      BY <1>1
    <3> QED
      BY ONLY <3>1, <1>4, x \in 1..n, y \in 1..n
  <2>3. B[x] <= B[y - 1]
    <3> DEFINE W == [z \in 1..n |-> PagesFor(w[z])]
    <3>1. W \in [1..n -> Nat]
      BY <1>2
    <3>2. Len(W) = n /\ \A z \in 1..n : W[z] \in Nat
      BY <1>1, <3>1, ListIs
    <3>3. B = Sums(W)
      OBVIOUS
    <3> HIDE DEF W
    <3> QED
      BY <1>1, <2>2, <3>2, <3>3, SumsGrow
  <2>4. B[x] = B[x - 1] + p
    BY <1>1
  <2>5. B[x] \in Nat /\ B[x - 1] \in Nat /\ B[y - 1] \in Nat
    BY <1>2
  <2>6. c <= b /\ c \in Nat
    <3> DEFINE u == B[x - 1]
               v == B[y - 1]
               z == B[x]
    <3>1. /\ u \in Nat /\ v \in Nat /\ z \in Nat /\ p \in Nat /\ z <= v /\ z = u + p
          /\ a = 1 + u /\ b = 1 + v
      BY <2>1, <2>3, <2>4, <2>5
    <3> HIDE DEF a, b, p, u, v, z
    <3> QED
      BY <3>1
  <2>7. w[x] <= p * PageSlots /\ p * PageSlots \in Nat
    BY <2>1, PagesForIs
  <2> HIDE DEF a, b, p
  <2>8. c * PageSlots = a * PageSlots + p * PageSlots /\ a * PageSlots \in Nat
    BY <1>1, <2>1, Products, SMT DEF c
  <2> HIDE DEF c
  <2>9. c * PageSlots <= b * PageSlots /\ b * PageSlots \in Nat /\ c * PageSlots \in Nat
    BY <1>1, <2>1, <2>6, Products
  <2>10. Begin(x) = a * PageSlots /\ Begin(y) = b * PageSlots
    BY DEF a, b
  <2> DEFINE ap == a * PageSlots
             bp == b * PageSlots
             cp == c * PageSlots
             pp == p * PageSlots
  <2>11. /\ ap \in Nat /\ bp \in Nat /\ cp \in Nat /\ pp \in Nat
         /\ cp = ap + pp /\ cp <= bp /\ w[x] <= pp /\ Begin(x) = ap /\ Begin(y) = bp
    BY <2>7, <2>8, <2>9, <2>10
  <2> HIDE DEF ap, bp, cp, pp, Begin
  <2> QED
    BY <2>1, <2>11
<1>5. w[i] \in Nat /\ w[k] \in Nat /\ Begin(i) \in Nat /\ Begin(k) \in Nat /\ Begin(i) + j - 1 = Begin(k) + l - 1
  BY <1>1, <1>3
<1> HIDE DEF Begin
<1>6. ~(i < k)
  <2> SUFFICES ASSUME i < k PROVE FALSE
    OBVIOUS
  <2>1. Begin(i) + w[i] <= Begin(k)
    BY <1>4
  <2> QED
    BY <1>5, <2>1
<1>7. ~(k < i)
  <2> SUFFICES ASSUME k < i PROVE FALSE
    OBVIOUS
  <2>1. Begin(k) + w[k] <= Begin(i)
    BY <1>4
  <2> QED
    BY <1>5, <2>1
<1>8. i = k
  BY <1>1, <1>6, <1>7
<1> QED
  BY <1>5, <1>8

\* Every batch's workspace holds, where its page table looks, each request's
\* cached prefix and then its chunk; a decode finds its tokens at its slots.
LEMMA WorkspaceHolds ==
  ASSUME Complete, PoolInv
  PROVE  WorkspaceExact
<1> SUFFICES ASSUME "k_scale" \in pool.slot PROVE WorkspaceExact
  BY DEF WorkspaceExact
<1>1. ASSUME NEW r \in Running, NEW i \in 1..SeqLen(r)
      PROVE  Dequantized(Loc(r, i - 1)) = toks[r][i] /\ Decoded[Loc(r, i - 1)] = toks[r][i]
  BY DecodedIs
<1>2. ASSUME NEW batch \in SetToSeqs(Running), NEW ragged \in BOOLEAN,
             NEW chunk \in [1..Len(batch) -> 1..PageSlots + 1]
      PROVE  LET width == Widths(batch, chunk, ragged)
                 rows == ExtendRows(batch, chunk, ragged)
                 before == Sums([i \in 1..Len(batch) |-> PagesFor(width[i])])
             IN \A i \in 1..Len(batch) : \A j \in 1..width[i] :
                  {x[2] : x \in {x \in rows : x[1] = (1 + before[i - 1]) * PageSlots + j - 1}}
                  = {IF j <= SeqLen(batch[i]) THEN toks[batch[i]][j] ELSE Token(batch[i], j - 1, 0)}
  <2> DEFINE n == Len(batch)
             w == Widths(batch, chunk, ragged)
             rows == ExtendRows(batch, chunk, ragged)
             P == [i \in 1..n |-> PagesFor(w[i])]
             B == Sums(P)
             content(r, j) == IF j <= SeqLen(r) THEN Dequantized(Loc(r, j - 1)) ELSE Token(r, j - 1, 0)
             Row(k, l) == <<Starts(w)[k] + l - 1, content(batch[k], l)>>
             RowsOf(k) == {Row(k, l) : l \in 1..w[k]}
  <2>1. n \in Nat /\ \A i \in 1..n : batch[i] \in Running /\ batch[i] \in Reqs
    BY RunningIs, BatchIs
  <2>2. Len(w) = n /\ \A i \in 1..n : w[i] \in Nat
    <3>1. \A i \in 1..n : SeqLen(batch[i]) + (IF ragged THEN 0 ELSE chunk[i]) \in Nat
      <4> TAKE i \in 1..n
      <4>1. SeqLen(batch[i]) \in Nat
        BY <2>1, SeqLenIs DEF PoolInv
      <4>2. chunk[i] \in Nat
        BY PoolSizes
      <4> QED
        BY <4>1, <4>2
    <3>2. w = [i \in 1..n |-> SeqLen(batch[i]) + (IF ragged THEN 0 ELSE chunk[i])]
      BY DEF Widths
    <3> HIDE DEF w, n
    <3>3. w \in [1..n -> Nat]
      BY <3>1, <3>2
    <3> QED
      BY <2>1, <3>3, ListIs
  <2>3. PagesBefore(B, w, n)
    <3>1. \A i \in 1..n : PagesFor(w[i]) \in Nat
      BY <2>2, PagesForIs
    <3> HIDE DEF w, n
    <3>2. P \in [1..n -> Nat] /\ \A i \in 1..n : P[i] = PagesFor(w[i])
      BY <3>1
    <3>3. Len(P) = n /\ \A i \in 1..n : P[i] \in Nat
      BY <2>1, <3>2, ListIs
    <3> HIDE DEF P
    <3>4. B \in [0..n -> Nat] /\ B[0] = 0 /\ \A i \in 1..n : B[i] = B[i - 1] + P[i]
      BY <2>1, <3>3, SumsAre
    <3> HIDE DEF B
    <3> QED
      BY <2>1, <2>2, <3>2, <3>4 DEF PagesBefore
  <2>4. \A i \in 1..n : Starts(w)[i] = (1 + B[i - 1]) * PageSlots
    <3> HIDE DEF w, n, B
    <3> QED
      BY <2>3, StartsAre
  <2>5. rows = UNION {RowsOf(k) : k \in 1..n}
    BY DEF ExtendRows
  <2>6. B = Sums([i \in 1..n |-> PagesFor(w[i])])
    OBVIOUS
  <2> HIDE DEF rows, w, n, B, P, content
  <2>7. /\ \A k \in 1..n : \A l \in 1..w[k] : Row(k, l) \in rows
        /\ \A x \in rows : \E k \in 1..n : \E l \in 1..w[k] : x = Row(k, l)
    <3> HIDE DEF Row
    <3> QED
      BY <2>5
  <2> SUFFICES ASSUME NEW i \in 1..n, NEW j \in 1..w[i]
               PROVE  {x[2] : x \in {x \in rows : x[1] = (1 + B[i - 1]) * PageSlots + j - 1}}
                      = {IF j <= SeqLen(batch[i]) THEN toks[batch[i]][j] ELSE Token(batch[i], j - 1, 0)}
    BY DEF n, w, rows, B, P
  <2> DEFINE at == (1 + B[i - 1]) * PageSlots + j - 1
             here == {x \in rows : x[1] = at}
             value == content(batch[i], j)
  <2>8. value = IF j <= SeqLen(batch[i]) THEN toks[batch[i]][j] ELSE Token(batch[i], j - 1, 0)
    <3>1. CASE j <= SeqLen(batch[i])
      <4>1. SeqLen(batch[i]) \in Nat /\ w[i] \in Nat
        BY <2>1, <2>2, SeqLenIs DEF PoolInv
      <4>2. j \in 1..SeqLen(batch[i])
        BY <3>1, <4>1
      <4>3. Dequantized(Loc(batch[i], j - 1)) = toks[batch[i]][j]
        BY <1>1, <2>1, <4>2
      <4> QED
        BY <3>1, <4>3 DEF content
    <3>2. CASE ~(j <= SeqLen(batch[i]))
      BY <3>2 DEF content
    <3> QED
      BY <3>1, <3>2
  <2>9. Row(i, j) \in here /\ Row(i, j)[2] = value
    <3>1. Row(i, j)[1] = Starts(w)[i] + j - 1 /\ Row(i, j)[2] = value
      OBVIOUS
    <3>2. Row(i, j) \in rows
      BY <2>7
    <3> HIDE DEF Row, value
    <3> QED
      BY <2>4, <3>1, <3>2
  <2>10. ASSUME NEW x \in here PROVE x[2] = value
    <3>1. x \in rows /\ x[1] = at
      OBVIOUS
    <3>2. PICK k \in 1..n : \E l \in 1..w[k] : x = Row(k, l)
      BY <2>7, <3>1
    <3>3. PICK l \in 1..w[k] : x = Row(k, l)
      BY <3>2
    <3>4. x[1] = Starts(w)[k] + l - 1 /\ x[2] = content(batch[k], l)
      BY <3>3
    <3>5. (1 + B[i - 1]) * PageSlots + j - 1 = (1 + B[k - 1]) * PageSlots + l - 1
      BY <2>4, <3>1, <3>4
    <3>6. i = k /\ j = l
      BY <2>3, <2>6, <3>5, SpansApart
    <3> QED
      BY <3>4, <3>6
  <2> HIDE DEF here, value, Row
  <2>11. {x[2] : x \in here} = {value}
    BY <2>9, <2>10
  <2> QED
    BY <2>8, <2>11 DEF here
<1> QED
  BY <1>1, <1>2 DEF WorkspaceExact

-----------------------------------------------------------------------------
(* The pools of a server that runs with complete classes.                    *)

\* Every behaviour keeps the inductive invariant.
THEOREM PoolsHold ==
  ASSUME Complete
  PROVE  PoolSpec => []PoolInv
<1>1. PoolInit => PoolInv
  BY StartHolds
<1>2. PoolInv /\ [PoolNext]_pool_vars => PoolInv'
  BY StepHolds
<1> QED
  BY <1>1, <1>2, PTL DEF PoolSpec

\* Through prefill, reservation of pages, tree drafting, the move of the accepted
\* path, retraction and resumption in other slots and another row: every buffer
\* of the target's pool, in every slot of a running request, holds the request's
\* token there, and its row's buffers the state after its last one.
THEOREM TokensWhole ==
  ASSUME Complete
  PROVE  PoolSpec => []Whole
<1>1. PoolInv => Whole
  BY DEF PoolInv
<1> QED
  BY <1>1, PoolsHold, PTL

\* The draft's pool holds the committed tokens a retraction did not drop, and
\* while a tree is drafted every branch reads the prefix's tail and its drafts.
THEOREM TreesWhole ==
  ASSUME Complete
  PROVE  PoolSpec => []BranchesWhole
<1>1. PoolInv => BranchesWhole
  BY DEF PoolInv
<1> QED
  BY <1>1, PoolsHold, PTL

\* The workspace rebuilt before an attention holds each token of every request of
\* the batch where its page table looks, for every batch order, length and chunk.
THEOREM WorkspacesExact ==
  ASSUME Complete
  PROVE  PoolSpec => []WorkspaceExact
<1>1. PoolInv => WorkspaceExact
  BY WorkspaceHolds
<1> QED
  BY <1>1, PoolsHold, PTL
=============================================================================
