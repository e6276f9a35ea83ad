------------------------- MODULE DraftGraphsProofs -------------------------
(***************************************************************************)
(* What the graph runners replay is what an eager forward would run, shared*)
(* selections and the handoffs of the screened heads belong to their own   *)
(* forward: for any pool, captured sizes, step counts and requests.        *)
(*                                                                         *)
(* The three properties speak of the last forwards, which start from what  *)
(* was left by the ones before.  IInv says what they may rely on: a seed   *)
(* and, where it is shared, a selection for every request at its committed *)
(* length; the flags of the target head as between two verifies; and,      *)
(* whatever the buffers hold, gather rows that lie in their own window.    *)
(***************************************************************************)
EXTENDS DraftGraphs, FiniteSetTheorems, WellFoundedInduction, TLAPS

Live(r) == id[r] > 0
Own(r) == [id |-> id[r], len |-> len[r]]

TypesOK ==
  /\ server \in Servers
  /\ ids \in Nat
  /\ id \in [Rows -> Nat] /\ len \in [Rows -> Nat]
  /\ DOMAIN seed = Rows
  /\ DOMAIN table = Rows \cup {0}

\* The rows that place i of a padded window of s steps may gather.
Place(s, i) == ((i - 1) * Width(s))..(i * Width(s) - 1)
Buffers(st) ==
  /\ DOMAIN st = {"slots", "seeds", "locs", "windows", "accepts", "select"}
  /\ \A f \in {"slots", "seeds", "accepts"} : DOMAIN st[f] = 1..MaxBs
  /\ \A f \in {"locs", "windows", "select"} : DOMAIN st[f] = StepCounts(server)
  /\ \A s \in StepCounts(server) :
       /\ DOMAIN st.locs[s] = 1..(MaxBs * s)
       /\ DOMAIN st.windows[s] = 1..MaxBs
       /\ DOMAIN st.select[s] = 1..MaxBs
       /\ \A i \in 1..MaxBs : st.select[s][i] \in Place(s, i)

\* The draft input and the selection of every request are of its tokens.
SeedsOwn == \A r \in Rows : Live(r) => seed[r] = Own(r)
TableOwn == Shares => \A r \in Rows : Live(r) => table[r] = Own(r)
\* Between forwards the target head computes every logit, and it remembers
\* eager calls that screen only.
HeadClosed(h) ==
  /\ DOMAIN h = {"rows", "dense", "active"}
  /\ h.rows \in 0..HeadRows /\ h.dense = TRUE /\ h.active = FALSE

Standing == TypesOK /\ Buffers(static) /\ SeedsOwn /\ TableOwn /\ HeadClosed(head)
IInv == Standing /\ ReplayExact /\ SharedExact /\ HandoffExact

-----------------------------------------------------------------------------
(* Numbers                                                                   *)

\* Division with remainder gives back what was put together.
LEMMA Divided ==
  ASSUME NEW q \in Nat, NEW w \in Nat \ {0}, NEW x \in 0..(w - 1)
  PROVE  (q * w + x) \div w = q /\ (q * w + x) % w = x
<1> DEFINE n == q * w + x
           d == n \div w
<1>0. n \in Nat
  OBVIOUS
<1>1. d \in Nat /\ n % w \in 0..(w - 1) /\ n = w * d + (n % w)
  BY <1>0
<1>2. CASE d <= q - 1
  <2>1. w * d <= w * (q - 1) /\ w * (q - 1) = w * q - w
    BY <1>1, <1>2
  <2> QED
    BY <1>1, <2>1
<1>3. CASE q + 1 <= d
  <2>1. w * (q + 1) <= w * d /\ w * (q + 1) = w * q + w
    BY <1>1, <1>3
  <2> QED
    BY <1>1, <2>1
<1>4. CASE d = q
  BY <1>1, <1>4
<1> QED
  BY <1>1, <1>2, <1>3, <1>4

\* A set of naturals with a member has a smallest one.
LEMMA Smallest ==
  ASSUME NEW S \in SUBSET Nat, S # {}
  PROVE  Min(S) \in S /\ \A x \in S : Min(S) <= x
<1>1. PICK x \in S : \A y \in S : ~ (<<y, x>> \in OpToRel(<, Nat))
  BY WFMin, NatLessThanWellFounded
<1>2. \A y \in S : x <= y
  <2> SUFFICES ASSUME NEW y \in S, y < x
               PROVE  FALSE
    OBVIOUS
  <2>1. <<y, x>> \in {ss \in Nat \X Nat : ss[1] < ss[2]}
    OBVIOUS
  <2> QED
    BY <1>1, <2>1 DEF OpToRel
<1> QED
  BY <1>2 DEF Min

-----------------------------------------------------------------------------
(* Batches, buckets and buffers                                              *)

\* A batch names different rows of the pool.
LEMMA BatchRows ==
  ASSUME NEW S \in SUBSET Rows, NEW b \in Batches(S)
  PROVE  /\ Len(b) \in 1..MaxBs /\ DOMAIN b = 1..Len(b)
         /\ \A i \in 1..Len(b) : b[i] \in S
         /\ \A i, j \in 1..Len(b) : b[i] = b[j] => i = j
<1>1. IsFiniteSet(S) /\ Cardinality(S) <= MaxBs /\ Cardinality(S) \in Nat /\ MaxBs \in Nat
  BY GraphsAssumption, FS_Subset, FS_CardinalityType DEF GraphsAssumption, MaxBs
<1>2. PICK n \in 1..Cardinality(S) : b \in [1..n -> S]
  BY DEF Batches
<1>3. n \in Nat /\ Len(b) = n /\ n \in 1..MaxBs
  BY <1>1, <1>2
<1>4. \A i, j \in DOMAIN b : b[i] = b[j] => i = j
  BY DEF Batches, IsInjective
<1> QED
  BY <1>2, <1>3, <1>4

LEMMA Steps ==
  ASSUME server \in Servers, NEW s \in StepCounts(server)
  PROVE  s \in Nat /\ Width(s) \in Nat \ {0} /\ server.buckets[s] \subseteq 1..MaxBs
<1>1. s \in 0..MaxLen /\ MaxLen \in Nat
  BY GraphsAssumption DEF GraphsAssumption, StepCounts
<1> QED
  BY <1>1, GraphsAssumption DEF GraphsAssumption, StepCounts, Width, MaxBs

\* A batch is padded to a captured size that holds it.
LEMMA Padded ==
  ASSUME server \in Servers, NEW s \in StepCounts(server), NEW n \in Nat \ {0}, Fits(s, n)
  PROVE  /\ PadToBucket(s, n) \in server.buckets[s]
         /\ PadToBucket(s, n) \in 1..MaxBs /\ MaxBs \in Nat /\ n <= PadToBucket(s, n)
         /\ n \in server.buckets[s] => PadToBucket(s, n) = n
<1> DEFINE S == {k \in server.buckets[s] : n <= k}
<1>1. S \subseteq 1..MaxBs /\ MaxBs \in Nat
  BY Steps, GraphsAssumption, FS_CardinalityType DEF GraphsAssumption, MaxBs
<1>2. S \in SUBSET Nat /\ S # {}
  BY <1>1 DEF Fits
<1>3. Min(S) \in S /\ \A x \in S : Min(S) <= x
  <2> HIDE DEF S
  <2> QED
    BY <1>2, Smallest
<1>4. PadToBucket(s, n) = Min(S)
  BY DEF PadToBucket
<1>5. n \in server.buckets[s] => n \in S
  OBVIOUS
<1>6. Min(S) \in server.buckets[s] /\ Min(S) \in 1..MaxBs /\ n <= Min(S)
  BY <1>1, <1>3
<1> HIDE DEF S
<1> QED
  BY <1>1, <1>3, <1>4, <1>5, <1>6

\* A row that a batch names once gets what the batch has there, others keep theirs.
LEMMA Scattered ==
  ASSUME NEW f, NEW b, NEW g
  PROVE  /\ DOMAIN Scatter(f, b, g) = DOMAIN f
         /\ \A i \in DOMAIN b : b[i] \in DOMAIN f /\ (\A j \in DOMAIN b : b[j] = b[i] => j = i)
              => Scatter(f, b, g)[b[i]] = g[i]
         /\ \A r \in DOMAIN f : (\A j \in DOMAIN b : b[j] # r) => Scatter(f, b, g)[r] = f[r]
<1>1. DOMAIN Scatter(f, b, g) = DOMAIN f
  BY DEF Scatter
<1>2. ASSUME NEW i \in DOMAIN b, b[i] \in DOMAIN f, \A j \in DOMAIN b : b[j] = b[i] => j = i
      PROVE  Scatter(f, b, g)[b[i]] = g[i]
  <2>1. (CHOOSE j \in DOMAIN b : b[j] = b[i]) = i
    BY <1>2
  <2> QED
    BY <1>2, <2>1 DEF Scatter
<1>3. ASSUME NEW r \in DOMAIN f, \A j \in DOMAIN b : b[j] # r
      PROVE  Scatter(f, b, g)[r] = f[r]
  BY <1>3 DEF Scatter
<1> QED
  BY <1>1, <1>2, <1>3

\* In the flat cache slots of a draft, those of a row follow one another.
LEMMA Flat ==
  ASSUME NEW s \in Nat \ {0}, NEW n \in Nat, NEW i \in 1..n, NEW j \in 1..s
  PROVE  /\ (i - 1) * s + j \in 1..(n * s)
         /\ ((i - 1) * s + j - 1) \div s + 1 = i
         /\ (((i - 1) * s + j - 1) % s) + 1 = j
<1>1. i - 1 \in Nat /\ j - 1 \in 0..(s - 1)
  OBVIOUS
<1>2. ((i - 1) * s + (j - 1)) \div s = i - 1 /\ ((i - 1) * s + (j - 1)) % s = j - 1
  BY <1>1, Divided
<1>3. (i - 1) * s \in Nat /\ (i - 1) * s + s = i * s /\ i * s <= n * s
  BY <1>1
<1>4. (i - 1) * s + j - 1 = (i - 1) * s + (j - 1)
  BY <1>3
<1> QED
  BY <1>2, <1>3, <1>4

-----------------------------------------------------------------------------
(* Replays                                                                   *)

\* Padding starts from blank rows; a batch that fills its bucket needs none.
LEMMA DraftClean ==
  ASSUME server \in Servers, NEW s \in StepCounts(server), NEW st, Buffers(st)
  PROVE  /\ Buffers(DraftReset(st, s))
         /\ DraftReset(st, s).slots = Blank
         /\ DraftReset(st, s).locs[s] = [k \in 1..(MaxBs * s) |-> <<0, 0>>]
<1> DEFINE new == DraftReset(st, s)
           empty == [k \in 1..(MaxBs * s) |-> <<0, 0>>]
<1>1. DraftInit(server).locs[s] = empty
  BY DEF DraftInit
<1>2. DOMAIN new = DOMAIN st
  BY DEF DraftReset
<1>3. /\ new.slots = Blank /\ new.locs = [st.locs EXCEPT ![s] = empty]
      /\ new.seeds = DraftInit(server).seeds
      /\ new.windows = st.windows /\ new.accepts = st.accepts /\ new.select = st.select
  <2> HIDE DEF empty
  <2> QED
    BY <1>1 DEF DraftReset, Buffers
<1>4. DOMAIN Blank = 1..MaxBs /\ DOMAIN DraftInit(server).seeds = 1..MaxBs
  BY DEF Blank, DraftInit
<1>5. /\ DOMAIN new.locs = StepCounts(server) /\ new.locs[s] = empty
      /\ \A t \in StepCounts(server) : t # s => new.locs[t] = st.locs[t]
  <2> HIDE DEF empty, new
  <2> QED
    BY <1>3 DEF Buffers
<1>6. DOMAIN empty = 1..(MaxBs * s)
  OBVIOUS
<1> HIDE DEF empty, new
<1>7. Buffers(new)
  BY <1>2, <1>3, <1>4, <1>5, <1>6 DEF Buffers
<1> QED
  BY <1>3, <1>5, <1>7 DEF new, empty

\* The buffers hold a batch of n rows, then blank ones up to the bucket p.
DraftHolds(d, s, b, n, p) ==
  /\ \A i \in 1..p : d.slots[i] = IF i <= n THEN b[i] ELSE 0
  /\ \A k \in 1..(p * s) : d.locs[s][k] = IF k <= n * s THEN DraftLocs(s, b)[k] ELSE <<0, 0>>
  /\ \A i \in 1..n : d.seeds[i] = seed[b[i]]
ExtendHolds(d, s, b, n, p, acc) ==
  /\ \A i \in 1..p : /\ d.slots[i] = IF i <= n THEN b[i] ELSE 0
                     /\ d.windows[s][i] = IF i <= n THEN b[i] ELSE 0
                     /\ d.select[s][i] \in Place(s, i)
  /\ \A i \in 1..n : /\ d.accepts[i] = acc[i]
                     /\ d.select[s][i] = (i - 1) * Width(s) + acc[i] - 1

LEMMA DraftCopied ==
  ASSUME server \in Servers, NEW s \in StepCounts(server), s > 0, NEW st, Buffers(st), NEW b,
         NEW n \in Nat \ {0}, n = Len(b), DOMAIN b = 1..n, Fits(s, n),
         NEW d, d = DraftExecute(st, s, b), NEW p, p = PadToBucket(s, n)
  PROVE  Buffers(d) /\ DraftHolds(d, s, b, n, p)
<1> DEFINE c == IF p = n THEN st ELSE DraftReset(st, s)
           seeds == [i \in DOMAIN b |-> seed[b[i]]]
<1>1. Buffers(c)
  BY DraftClean
<1>2. d = [c EXCEPT !.slots = Put(c.slots, b), !.locs[s] = Put(c.locs[s], DraftLocs(s, b)),
                    !.seeds = Put(c.seeds, seeds)]
  BY DEF DraftExecute
<1>3. p \in 1..MaxBs /\ MaxBs \in Nat /\ n <= p /\ s \in Nat \ {0}
  BY Padded, Steps
<1>4. p # n => c.slots = Blank /\ c.locs[s] = [k \in 1..(MaxBs * s) |-> <<0, 0>>]
  BY DraftClean
<1> HIDE DEF c, seeds
<1>5. /\ DOMAIN d = DOMAIN c
      /\ d.slots = Put(c.slots, b)
      /\ d.locs = [c.locs EXCEPT ![s] = Put(c.locs[s], DraftLocs(s, b))]
      /\ d.seeds = Put(c.seeds, seeds)
      /\ d.windows = c.windows /\ d.accepts = c.accepts /\ d.select = c.select
  BY <1>1, <1>2 DEF Buffers
<1>6. /\ DOMAIN d.locs = StepCounts(server) /\ d.locs[s] = Put(c.locs[s], DraftLocs(s, b))
      /\ \A t \in StepCounts(server) : t # s => d.locs[t] = c.locs[t]
  BY <1>1, <1>5 DEF Buffers
<1>7. Buffers(d)
  BY <1>1, <1>5, <1>6 DEF Buffers, Put
<1>8. ASSUME NEW i \in 1..p
      PROVE  d.slots[i] = IF i <= n THEN b[i] ELSE 0
  <2>1. i \in 1..MaxBs /\ DOMAIN c.slots = 1..MaxBs
    BY <1>1, <1>3 DEF Buffers
  <2>2. CASE i <= n
    BY <1>3, <1>5, <2>1, <2>2 DEF Put
  <2>3. CASE i > n
    <3>1. c.slots = Blank
      BY <1>3, <1>4, <2>3
    <3> QED
      BY <1>3, <1>5, <2>1, <2>3, <3>1 DEF Put, Blank
  <2> QED
    BY <1>3, <2>2, <2>3
<1>9. ASSUME NEW k \in 1..(p * s)
      PROVE  d.locs[s][k] = IF k <= n * s THEN DraftLocs(s, b)[k] ELSE <<0, 0>>
  <2>1. p * s <= MaxBs * s /\ p * s \in Nat /\ MaxBs * s \in Nat /\ n * s \in Nat
    BY <1>3
  <2>2. k \in 1..(MaxBs * s) /\ DOMAIN c.locs[s] = 1..(MaxBs * s)
    BY <1>1, <2>1 DEF Buffers
  <2>3. DOMAIN DraftLocs(s, b) = 1..(n * s)
    BY DEF DraftLocs
  <2>4. CASE k <= n * s
    <3>1. k \in 1..(n * s)
      BY <2>1, <2>4
    <3> QED
      BY <1>6, <2>2, <2>3, <2>4, <3>1 DEF Put
  <2>5. CASE ~(k <= n * s)
    <3>1. p # n
      BY <2>1, <2>5
    <3>2. k \notin 1..(n * s)
      BY <2>1, <2>5
    <3> QED
      BY <1>4, <1>6, <2>2, <2>3, <2>5, <3>1, <3>2 DEF Put
  <2> QED
    BY <2>4, <2>5
<1>10. ASSUME NEW i \in 1..n
       PROVE  d.seeds[i] = seed[b[i]]
  <2>1. i \in 1..MaxBs /\ DOMAIN c.seeds = 1..MaxBs
    BY <1>1, <1>3 DEF Buffers
  <2> QED
    BY <1>5, <2>1 DEF Put, seeds
<1> QED
  BY <1>7, <1>8, <1>9, <1>10 DEF DraftHolds

LEMMA ExtendClean ==
  ASSUME server \in Servers, NEW s \in StepCounts(server), NEW st, Buffers(st)
  PROVE  /\ Buffers(ExtendReset(st, s))
         /\ ExtendReset(st, s).slots = Blank /\ ExtendReset(st, s).windows[s] = Blank
<1> DEFINE new == ExtendReset(st, s)
           ones == [i \in 1..MaxBs |-> Width(s)]
<1>1. /\ DOMAIN new = DOMAIN st
      /\ new.slots = Blank /\ new.windows = [st.windows EXCEPT ![s] = Blank] /\ new.accepts = ones
      /\ new.seeds = st.seeds /\ new.locs = st.locs /\ new.select = st.select
  <2> HIDE DEF ones
  <2>1. new = [st EXCEPT !.slots = Blank, !.windows[s] = Blank, !.accepts = ones]
    BY DEF ExtendReset, ones
  <2> HIDE DEF new
  <2> QED
    BY <2>1 DEF Buffers
<1>2. DOMAIN Blank = 1..MaxBs /\ DOMAIN ones = 1..MaxBs
  BY DEF Blank
<1> HIDE DEF new, ones
<1>3. /\ DOMAIN new.windows = StepCounts(server) /\ new.windows[s] = Blank
      /\ \A t \in StepCounts(server) : t # s => new.windows[t] = st.windows[t]
  BY <1>1 DEF Buffers
<1>4. Buffers(new)
  BY <1>1, <1>2, <1>3 DEF Buffers
<1> QED
  BY <1>1, <1>3, <1>4 DEF new

\* A row gathers from its own window, at the last token it accepted.
LEMMA OwnPlace ==
  ASSUME server \in Servers, NEW s \in StepCounts(server), NEW i \in Nat \ {0}, NEW a \in 1..Width(s)
  PROVE  /\ (i - 1) * Width(s) + a - 1 \in Place(s, i)
         /\ ((i - 1) * Width(s) + a - 1) \div Width(s) + 1 = i
         /\ ((i - 1) * Width(s) + a - 1) % Width(s) = a - 1
         /\ AnchorRow(s, i, a) = (i - 1) * Width(s) + a - 1
<1> DEFINE w == Width(s)
<1>1. w \in Nat \ {0} /\ a \in 1..w
  BY Steps
<1> HIDE DEF w
<1>2. i - 1 \in Nat /\ a - 1 \in 0..(w - 1)
  BY <1>1
<1>3. ((i - 1) * w + (a - 1)) \div w = i - 1 /\ ((i - 1) * w + (a - 1)) % w = a - 1
  BY <1>1, <1>2, Divided
<1>4. (i - 1) * w \in Nat /\ i * w = (i - 1) * w + w
  BY <1>1, <1>2
<1>5. (i - 1) * w + a - 1 = (i - 1) * w + (a - 1)
  BY <1>1, <1>4
<1>6. (i - 1) * w + a - 1 \in ((i - 1) * w)..(i * w - 1)
  BY <1>1, <1>4
<1>7. i * w - 1 - (w - a) = (i - 1) * w + a - 1
  BY <1>1, <1>4
<1>8. ((i - 1) * w + a - 1) \div w + 1 = i /\ ((i - 1) * w + a - 1) % w = a - 1
  <2>1. ((i - 1) * w + a - 1) \div w = i - 1 /\ ((i - 1) * w + a - 1) % w = a - 1
    BY <1>3, <1>5
  <2> QED
    BY <1>1, <2>1
<1>9. w = Width(s)
  BY DEF w
<1> QED
  BY <1>6, <1>7, <1>8, <1>9, Zenon DEF Place, AnchorRow

\* Likewise after the copies of a draft extend.
LEMMA ExtendCopied ==
  ASSUME server \in Servers, NEW s \in StepCounts(server), NEW st, Buffers(st), NEW b,
         NEW n \in Nat \ {0}, n = Len(b), DOMAIN b = 1..n, Fits(s, n),
         NEW acc \in [1..n -> 1..Width(s)],
         NEW d, d = ExtendExecute(st, s, b, acc), NEW p, p = PadToBucket(s, n)
  PROVE  Buffers(d) /\ ExtendHolds(d, s, b, n, p, acc)
<1> DEFINE c == IF p = n THEN st ELSE ExtendReset(st, s)
           picks == SelectIndex(s, acc)
<1>1. Buffers(c)
  BY ExtendClean
<1>2. d = [c EXCEPT !.slots = Put(c.slots, b), !.windows[s] = Put(c.windows[s], b),
                    !.accepts = Put(c.accepts, acc), !.select = CopySelect(c.select, s, picks)]
  BY DEF ExtendExecute
<1>3. p \in 1..MaxBs /\ MaxBs \in Nat /\ n <= p /\ s \in Nat
  BY Padded, Steps
<1>4. p # n => c.slots = Blank /\ c.windows[s] = Blank
  BY ExtendClean
<1>5. DOMAIN picks = 1..n /\ \A i \in 1..n : picks[i] = (i - 1) * Width(s) + acc[i] - 1
  BY DEF SelectIndex
<1> HIDE DEF c, picks
<1>6. /\ DOMAIN d = DOMAIN c
      /\ d.slots = Put(c.slots, b)
      /\ d.windows = [c.windows EXCEPT ![s] = Put(c.windows[s], b)]
      /\ d.accepts = Put(c.accepts, acc)
      /\ d.select = CopySelect(c.select, s, picks)
      /\ d.seeds = c.seeds /\ d.locs = c.locs
  BY <1>1, <1>2 DEF Buffers
<1>7. /\ DOMAIN d.windows = StepCounts(server) /\ d.windows[s] = Put(c.windows[s], b)
      /\ \A t \in StepCounts(server) : t # s => d.windows[t] = c.windows[t]
      /\ DOMAIN d.select = StepCounts(server) /\ d.select[s] = Put(c.select[s], picks)
      /\ \A t \in StepCounts(server) : t # s => d.select[t] = c.select[t]
  BY <1>1, <1>6 DEF Buffers, CopySelect
<1>8. ASSUME NEW i \in 1..MaxBs
      PROVE  d.select[s][i] \in Place(s, i)
  <2>1. i \in DOMAIN c.select[s] /\ c.select[s][i] \in Place(s, i)
    BY <1>1 DEF Buffers
  <2>2. CASE i \in 1..n
    <3>1. d.select[s][i] = (i - 1) * Width(s) + acc[i] - 1
      BY <1>5, <1>7, <2>1, <2>2 DEF Put
    <3>2. acc[i] \in 1..Width(s) /\ i \in Nat \ {0}
      BY <2>2
    <3> QED
      BY <3>1, <3>2, OwnPlace
  <2>3. CASE i \notin 1..n
    BY <1>5, <1>7, <2>1, <2>3 DEF Put
  <2> QED
    BY <2>2, <2>3
<1>9. Buffers(d)
  <2>1. /\ DOMAIN d.slots = 1..MaxBs /\ DOMAIN d.accepts = 1..MaxBs /\ DOMAIN d.seeds = 1..MaxBs
        /\ DOMAIN d.locs = StepCounts(server)
    BY <1>1, <1>6 DEF Buffers, Put
  <2>2. ASSUME NEW t \in StepCounts(server)
        PROVE  /\ DOMAIN d.locs[t] = 1..(MaxBs * t)
               /\ DOMAIN d.windows[t] = 1..MaxBs /\ DOMAIN d.select[t] = 1..MaxBs
    BY <1>1, <1>6, <1>7 DEF Buffers, Put
  <2>3. ASSUME NEW t \in StepCounts(server), NEW i \in 1..MaxBs
        PROVE  d.select[t][i] \in Place(t, i)
    BY <1>1, <1>7, <1>8 DEF Buffers
  <2>4. DOMAIN d = {"slots", "seeds", "locs", "windows", "accepts", "select"}
    BY <1>1, <1>6 DEF Buffers
  <2> QED
    BY <1>7, <2>1, <2>2, <2>3, <2>4 DEF Buffers
<1>10. ASSUME NEW i \in 1..p
       PROVE  /\ d.slots[i] = IF i <= n THEN b[i] ELSE 0
              /\ d.windows[s][i] = IF i <= n THEN b[i] ELSE 0
              /\ d.select[s][i] \in Place(s, i)
  <2>1. i \in 1..MaxBs /\ DOMAIN c.slots = 1..MaxBs /\ DOMAIN c.windows[s] = 1..MaxBs
    BY <1>1, <1>3 DEF Buffers
  <2>2. CASE i <= n
    BY <1>3, <1>6, <1>7, <1>8, <2>1, <2>2 DEF Put
  <2>3. CASE i > n
    <3>1. c.slots = Blank /\ c.windows[s] = Blank
      BY <1>3, <1>4, <2>3
    <3> QED
      BY <1>3, <1>6, <1>7, <1>8, <2>1, <2>3, <3>1 DEF Put, Blank
  <2> QED
    BY <1>3, <2>2, <2>3
<1>11. ASSUME NEW i \in 1..n
       PROVE  d.accepts[i] = acc[i] /\ d.select[s][i] = (i - 1) * Width(s) + acc[i] - 1
  <2>1. i \in 1..MaxBs /\ DOMAIN c.accepts = 1..MaxBs /\ DOMAIN c.select[s] = 1..MaxBs
    BY <1>1, <1>3 DEF Buffers
  <2> QED
    BY <1>5, <1>6, <1>7, <2>1 DEF Put
<1> QED
  BY <1>9, <1>10, <1>11 DEF ExtendHolds

LocsInOrder(s, b, n) ==
  \A i \in 1..n, j \in 1..s :
    (i - 1) * s + j \in 1..(n * s) /\ DraftLocs(s, b)[(i - 1) * s + j] = <<b[i], j>>
LEMMA OwnLocs ==
  ASSUME NEW s \in Nat \ {0}, NEW b, NEW n \in Nat, n = Len(b)
  PROVE  LocsInOrder(s, b, n)
<1> SUFFICES ASSUME NEW i \in 1..n, NEW j \in 1..s
             PROVE  (i - 1) * s + j \in 1..(n * s) /\ DraftLocs(s, b)[(i - 1) * s + j] = <<b[i], j>>
  BY DEF LocsInOrder
<1> DEFINE k == (i - 1) * s + j
<1>1. k \in 1..(n * s) /\ (k - 1) \div s + 1 = i /\ ((k - 1) % s) + 1 = j
  BY Flat
<1> HIDE DEF k
<1>2. DraftLocs(s, b) = [x \in 1..(n * s) |-> <<b[(x - 1) \div s + 1], ((x - 1) % s) + 1>>]
  BY DEF DraftLocs
<1>3. DraftLocs(s, b)[k] = <<b[i], j>>
  BY <1>1, <1>2, Zenon
<1> QED
  BY <1>1, <1>3, Zenon DEF k

\* What a draft forward reads: its own rows, slots and seeds, and blank ones
\* for padding.
DraftReads(in, b, n) ==
  \A i \in DOMAIN in :
    IF i <= n THEN /\ in[i].row = b[i] /\ in[i].seed = seed[b[i]]
                   /\ \A j \in DOMAIN in[i].locs : in[i].locs[j] = <<b[i], j>>
    ELSE in[i].row = 0 /\ \A j \in DOMAIN in[i].locs : in[i].locs[j] = <<0, 0>>
\* What a draft extend reads and gathers: for its own rows, their slots and
\* their last accepted token; for padding, some row of the window.
ExtendReads(in, s, b, n, acc) ==
  /\ Len(in) \in Nat /\ n <= Len(in) /\ DOMAIN in = 1..Len(in)
  /\ \A i \in 1..n : /\ in[i].row = b[i] /\ in[i].loc = b[i] /\ in[i].accept = acc[i]
                     /\ in[i].pick = (i - 1) * Width(s) + acc[i] - 1
  /\ \A i \in 1..Len(in) : i > n =>
       in[i].row = 0 /\ in[i].loc = 0 /\ in[i].pick \in 0..(Len(in) * Width(s) - 1)

\* Both hold of replayed and of eager forwards.
LEMMA DraftRead ==
  ASSUME server \in Servers, NEW s \in StepCounts(server), s > 1, Buffers(static), NEW b,
         NEW n \in Nat \ {0}, n = Len(b), DOMAIN b = 1..n,
         NEW d, d = (IF DraftGraph(s, n) THEN DraftExecute(static, s, b) ELSE static),
         NEW in, in = DraftInputs(d, s, b)
  PROVE  /\ 1..n \subseteq DOMAIN in /\ DOMAIN in \subseteq Nat \ {0}
         /\ DraftReads(in, b, n)
<1>1. s \in Nat \ {0}
  BY Steps
<1>2. LocsInOrder(s, b, n)
  BY <1>1, OwnLocs
<1>3. CASE DraftGraph(s, n)
  <2> DEFINE p == PadToBucket(s, n)
  <2>1. Fits(s, n) /\ p \in Nat /\ n <= p
    <3>1. Fits(s, n)
      BY <1>3 DEF DraftGraph
    <3> QED
      BY <3>1, Padded
  <2>2. DraftHolds(d, s, b, n, p)
    <3>1. d = DraftExecute(static, s, b)
      BY <1>3
    <3> QED
      BY <1>1, <2>1, <3>1, DraftCopied
  <2>3. in = [i \in 1..p |-> [row |-> d.slots[i], locs |-> StepLocs(d.locs[s], p, s, i), seed |-> d.seeds[i]]]
    BY <1>3 DEF DraftInputs
  <2> HIDE DEF p
  <2>4. ASSUME NEW i \in 1..n
        PROVE  /\ in[i].row = b[i] /\ in[i].seed = seed[b[i]]
               /\ \A j \in DOMAIN in[i].locs : in[i].locs[j] = <<b[i], j>>
    <3>1. i \in 1..p /\ i <= n
      BY <2>1
    <3>2. ASSUME NEW j \in 1..s
          PROVE  d.locs[s][(i - 1) * s + j] = <<b[i], j>>
      <4>1. n * s <= p * s /\ n * s \in Nat /\ p * s \in Nat
        BY <1>1, <2>1
      <4>2. (i - 1) * s + j \in 1..(p * s) /\ (i - 1) * s + j <= n * s
        BY <1>2, <4>1 DEF LocsInOrder
      <4> QED
        BY <1>2, <2>2, <4>2 DEF DraftHolds, LocsInOrder
    <3>3. in[i].row = d.slots[i] /\ in[i].seed = d.seeds[i] /\ in[i].locs = StepLocs(d.locs[s], p, s, i)
      BY <1>1, <2>1, <2>3, <3>1
    <3>4. \A j \in DOMAIN in[i].locs : in[i].locs[j] = <<b[i], j>>
      BY <3>2, <3>3 DEF StepLocs
    <3> QED
      BY <2>2, <3>1, <3>3, <3>4 DEF DraftHolds
  <2>5. ASSUME NEW i \in 1..p, i > n
        PROVE  in[i].row = 0 /\ \A j \in DOMAIN in[i].locs : in[i].locs[j] = <<0, 0>>
    <3>1. ASSUME NEW j \in 1..s
          PROVE  d.locs[s][(i - 1) * s + j] = <<0, 0>>
      <4>1. (i - 1) * s + j \in 1..(p * s)
        BY <1>1, <2>1, Flat
      <4>2. n <= i - 1 /\ n * s <= (i - 1) * s /\ n * s \in Nat /\ (i - 1) * s \in Nat
        BY <1>1, <2>1, <2>5
      <4>3. ~((i - 1) * s + j <= n * s)
        BY <4>2
      <4> QED
        BY <2>2, <4>1, <4>3 DEF DraftHolds
    <3>2. in[i].row = d.slots[i] /\ in[i].locs = StepLocs(d.locs[s], p, s, i)
      BY <1>1, <2>1, <2>3
    <3>3. \A j \in DOMAIN in[i].locs : in[i].locs[j] = <<0, 0>>
      BY <3>1, <3>2 DEF StepLocs
    <3>4. ~(i <= n)
      BY <2>1, <2>5
    <3> QED
      BY <2>2, <3>2, <3>3, <3>4 DEF DraftHolds
  <2>6. DOMAIN in = 1..p
    BY <2>3
  <2> QED
    BY <2>1, <2>4, <2>5, <2>6 DEF DraftReads
<1>4. CASE ~DraftGraph(s, n)
  <2>1. in = [i \in 1..n |-> [row |-> b[i], locs |-> StepLocs(DraftLocs(s, b), n, s, i), seed |-> seed[b[i]]]]
    BY <1>4 DEF DraftInputs
  <2>2. ASSUME NEW i \in 1..n
        PROVE  /\ in[i].row = b[i] /\ in[i].seed = seed[b[i]]
               /\ \A j \in DOMAIN in[i].locs : in[i].locs[j] = <<b[i], j>>
    <3>1. /\ in[i].row = b[i] /\ in[i].seed = seed[b[i]]
          /\ in[i].locs = StepLocs(DraftLocs(s, b), n, s, i)
      BY <2>1
    <3>2. \A j \in DOMAIN in[i].locs : in[i].locs[j] = <<b[i], j>>
      BY <1>1, <1>2, <3>1 DEF StepLocs, LocsInOrder
    <3> QED
      BY <3>1, <3>2
  <2>3. DOMAIN in = 1..n
    BY <2>1
  <2> QED
    BY <2>2, <2>3 DEF DraftReads
<1> QED
  BY <1>3, <1>4

LEMMA ExtendRead ==
  ASSUME server \in Servers, NEW s \in StepCounts(server), NEW st, Buffers(st), NEW b,
         NEW n \in Nat \ {0}, n = Len(b), DOMAIN b = 1..n, NEW acc \in [1..n -> 1..Width(s)],
         NEW d, d = (IF ExtendGraph(s, n) THEN ExtendExecute(st, s, b, acc) ELSE st),
         NEW in, in = ExtendInputs(d, s, b, acc)
  PROVE  Buffers(d) /\ ExtendReads(in, s, b, n, acc)
<1>0. s \in Nat /\ Width(s) \in Nat
  BY Steps
<1>1. CASE ExtendGraph(s, n)
  <2> DEFINE p == PadToBucket(s, n)
  <2>1. Fits(s, n) /\ p \in Nat /\ n <= p
    <3>1. Fits(s, n)
      BY <1>1 DEF ExtendGraph
    <3> QED
      BY <3>1, Padded
  <2>2. d = ExtendExecute(st, s, b, acc)
    BY <1>1
  <2>3. Buffers(d) /\ ExtendHolds(d, s, b, n, p, acc)
    BY <2>1, <2>2, ExtendCopied
  <2>4. in = [i \in 1..p |-> [row |-> d.slots[i], loc |-> d.windows[s][i], accept |-> d.accepts[i],
                              pick |-> d.select[s][i]]]
    BY <1>1 DEF ExtendInputs
  <2> HIDE DEF p
  <2>5. Len(in) = p /\ DOMAIN in = 1..p
    BY <2>1, <2>4
  <2>9. \A i \in 1..p : /\ in[i].row = d.slots[i] /\ in[i].loc = d.windows[s][i]
                         /\ in[i].accept = d.accepts[i] /\ in[i].pick = d.select[s][i]
    BY <1>0, <2>1, <2>4
  <2>6. ASSUME NEW i \in 1..p
        PROVE  in[i].pick \in 0..(p * Width(s) - 1)
    <3>1. Width(s) \in Nat \ {0}
      BY Steps
    <3>2. 0 <= (i - 1) * Width(s) /\ i * Width(s) <= p * Width(s) /\ (i - 1) * Width(s) \in Nat
          /\ i * Width(s) \in Nat /\ p * Width(s) \in Nat
      BY <2>1, <3>1
    <3>3. in[i].pick \in Place(s, i)
      BY <2>3, <2>9 DEF ExtendHolds
    <3> QED
      BY <3>2, <3>3 DEF Place
  <2>7. ASSUME NEW i \in 1..n
        PROVE  /\ in[i].row = b[i] /\ in[i].loc = b[i] /\ in[i].accept = acc[i]
               /\ in[i].pick = (i - 1) * Width(s) + acc[i] - 1
    <3>1. i \in 1..p /\ i <= n
      BY <2>1
    <3>2. d.slots[i] = b[i] /\ d.windows[s][i] = b[i] /\ d.accepts[i] = acc[i]
      BY <2>3, <3>1 DEF ExtendHolds
    <3>3. d.select[s][i] = (i - 1) * Width(s) + acc[i] - 1
      BY <2>3, Zenon DEF ExtendHolds
    <3> QED
      BY <2>9, <3>1, <3>2, <3>3, Zenon
  <2>8. ASSUME NEW i \in 1..p, i > n
        PROVE  in[i].row = 0 /\ in[i].loc = 0
    <3>1. ~(i <= n)
      BY <2>1, <2>8
    <3>2. d.slots[i] = 0 /\ d.windows[s][i] = 0
      BY <2>3, <3>1 DEF ExtendHolds
    <3> QED
      BY <2>9, <3>2
  <2> QED
    BY <2>1, <2>3, <2>5, <2>6, <2>7, <2>8 DEF ExtendReads
<1>2. CASE ~ExtendGraph(s, n)
  <2>1. in = [i \in 1..n |-> [row |-> b[i], loc |-> b[i], accept |-> acc[i], pick |-> SelectIndex(s, acc)[i]]]
    BY <1>2 DEF ExtendInputs
  <2>2. Len(in) = n /\ DOMAIN in = 1..n
    BY <2>1
  <2>3. \A i \in 1..n : SelectIndex(s, acc)[i] = (i - 1) * Width(s) + acc[i] - 1
    BY DEF SelectIndex
  <2> QED
    BY <1>2, <2>1, <2>2, <2>3 DEF ExtendReads
<1> QED
  BY <1>1, <1>2

\* Place a of row i's window is of the token that it says.
Gathers(s, b, i, a) ==
  WindowRow(s, b, (i - 1) * Width(s) + a - 1) = [id |-> id[b[i]], len |-> len[b[i]] + a]
\* Row number x of a window is of the token that its place in it says.
LEMMA GatheredRow ==
  ASSUME server \in Servers, TypesOK, NEW s \in StepCounts(server), NEW b, NEW n \in Nat, DOMAIN b = 1..n,
         NEW i \in 1..n, b[i] \in Rows, NEW a \in 1..Width(s)
  PROVE  Gathers(s, b, i, a)
<1> DEFINE x == (i - 1) * Width(s) + a - 1
<1>1. i \in Nat \ {0} /\ len[b[i]] \in Nat /\ Width(s) \in Nat
  BY Steps DEF TypesOK
<1>2. x \div Width(s) + 1 = i /\ x % Width(s) = a - 1
  <2>1. /\ ((i - 1) * Width(s) + a - 1) \div Width(s) + 1 = i
        /\ ((i - 1) * Width(s) + a - 1) % Width(s) = a - 1
    BY <1>1, OwnPlace
  <2> QED
    BY <2>1
<1> HIDE DEF x
<1>4. WindowRow(s, b, x) = [id |-> id[b[i]], len |-> len[b[i]] + (x % Width(s)) + 1]
  BY <1>2 DEF WindowRow
<1> QED
  <2>1. len[b[i]] + (a - 1) + 1 = len[b[i]] + a
    BY <1>1
  <2>2. WindowRow(s, b, x) = [id |-> id[b[i]], len |-> len[b[i]] + a]
    BY <1>2, <1>4, <2>1
  <2> QED
    BY <2>2 DEF x, Gathers

-----------------------------------------------------------------------------
(* The heads                                                                 *)

\* With one width and every replayed size captured, the hidden states a fix-up
\* finds are those of its own batch.
LEMMA FixupOwn ==
  ASSUME server \in Servers, Single, NEW s \in StepCounts(server), NEW n \in 1..MaxBs,
         NEW h, h.rows \in 0..HeadRows
  PROVE  FixupSource(h, s, n, Fits(s, n)) # "other"
<1> DEFINE m == n * Width(s)
           captured == {g \in HeadGraphs : g.bs * Width(g.step) = m}
           own == [step |-> s, bs |-> n]
<1>1. StepCounts(server) = {s}
  <2>1. IsFiniteSet(0..MaxLen) /\ StepCounts(server) \in SUBSET (0..MaxLen)
    <3>1. MaxLen \in Int /\ StepCounts(server) \in SUBSET (0..MaxLen)
      BY GraphsAssumption DEF GraphsAssumption, StepCounts
    <3>2. IsFiniteSet(0..MaxLen)
      BY <3>1, FS_Interval
    <3> QED
      BY <3>1, <3>2
  <2>2. IsFiniteSet(StepCounts(server)) /\ Cardinality(StepCounts(server)) = 1
    BY <2>1, FS_Subset DEF Single
  <2> QED
    BY <2>2, FS_Singleton
<1>2. /\ Width(s) \in Nat \ {0} /\ n \in Nat \ {0} /\ HeadRows \in Nat /\ m \in Nat
      /\ server.buckets[s] \subseteq 1..MaxBs
  <2>1. MaxBs \in Nat
    BY GraphsAssumption, FS_CardinalityType DEF GraphsAssumption, MaxBs
  <2>2. HeadRows \in Nat
    BY GraphsAssumption DEF GraphsAssumption
  <2>3. Width(s) \in Nat \ {0} /\ server.buckets[s] \subseteq 1..MaxBs /\ n \in Nat \ {0}
    BY <2>1, Steps
  <2> QED
    BY <2>2, <2>3
<1>3. ASSUME NEW g \in captured
      PROVE  g = own /\ n \in server.buckets[s] /\ m <= HeadRows
  <2>1. /\ g \in [step : StepCounts(server), bs : 1..MaxBs]
        /\ g.bs \in server.buckets[g.step] /\ g.bs * Width(g.step) <= HeadRows
        /\ g.bs * Width(g.step) = m
    BY DEF HeadGraphs
  <2>2. g.step = s /\ g.bs \in Nat /\ g.bs * Width(s) = n * Width(s)
    <3>1. g.step = s
      BY <1>1, <2>1
    <3> QED
      BY <2>1, <3>1
  <2>3. g.bs = n
    <3> DEFINE k == g.bs
    <3>1. k \in Nat /\ k * Width(s) = n * Width(s)
      BY <2>2
    <3> HIDE DEF k
    <3>2. ~(k < n)
      <4> SUFFICES ASSUME k + 1 <= n PROVE FALSE
        BY <1>2, <3>1
      <4>1. (k + 1) * Width(s) <= n * Width(s) /\ (k + 1) * Width(s) = k * Width(s) + Width(s)
        BY <1>2, <3>1
      <4> QED
        BY <1>2, <3>1, <4>1
    <3>3. ~(n < k)
      <4> SUFFICES ASSUME n + 1 <= k PROVE FALSE
        BY <1>2, <3>1
      <4>1. (n + 1) * Width(s) <= k * Width(s) /\ (n + 1) * Width(s) = n * Width(s) + Width(s)
        BY <1>2, <3>1
      <4> QED
        BY <1>2, <3>1, <4>1
    <3>4. k = n
      BY <1>2, <3>1, <3>2, <3>3
    <3> QED
      BY <3>4 DEF k
  <2>4. g = own
    BY <2>1, <2>2, <2>3
  <2> QED
    BY <2>1, <2>2, <2>3, <2>4
<1>4. CASE captured # {}
  <2>1. captured = {own} /\ n \in server.buckets[s]
    BY <1>3, <1>4
  <2>2. Fits(s, n)
    BY <1>2, <2>1 DEF Fits
  <2>3. PadToBucket(s, n) = n
    BY <1>2, <2>1, <2>2, Padded
  <2> HIDE DEF captured
  <2>4. FixupSource(h, s, n, Fits(s, n)) = "own"
    <3>1. FixupSource(h, s, n, Fits(s, n)) =
            IF captured # {}
            THEN IF Fits(s, n) /\ PadToBucket(s, n) = n /\ captured = {own} THEN "own" ELSE "other"
            ELSE IF h.rows # m THEN "raise" ELSE IF Fits(s, n) THEN "other" ELSE "own"
      BY Zenon DEF FixupSource, captured, own, m
    <3> QED
      BY <1>4, <2>1, <2>2, <2>3, <3>1, Zenon
  <2> QED
    BY <2>4
<1>5. CASE captured = {}
  <2>1. FixupSource(h, s, n, Fits(s, n)) =
          IF h.rows # m THEN "raise" ELSE IF Fits(s, n) THEN "other" ELSE "own"
    BY <1>5, Zenon DEF FixupSource
  <2>2. CASE Fits(s, n)
    <3>1. n \in server.buckets[s]
      BY <2>2 DEF Single
    <3>2. m > HeadRows
      <4> SUFFICES ASSUME m <= HeadRows PROVE FALSE
        BY <1>2
      <4>1. own \in captured
        BY <3>1 DEF HeadGraphs
      <4> QED
        BY <1>5, <4>1
    <3>3. h.rows # m
      BY <1>2, <3>2
    <3> QED
      BY <2>1, <3>3
  <2>3. CASE ~Fits(s, n)
    BY <2>1, <2>3
  <2> QED
    BY <2>2, <2>3
<1> QED
  BY <1>4, <1>5

\* An eager call that screens is remembered; nothing else changes.
LEMMA HeadRun ==
  ASSUME NEW h, HeadClosed(h), NEW m \in Nat, NEW graph, NEW k, k = RunHead(h, m, graph)
  PROVE  HeadClosed(k)
<1>1. CASE ~graph /\ m <= HeadRows
  <2>1. k = [h EXCEPT !.rows = m] /\ HeadRows \in Nat
    BY <1>1, GraphsAssumption DEF RunHead, GraphsAssumption
  <2>2. DOMAIN k = DOMAIN h /\ k.rows = m /\ k.dense = h.dense /\ k.active = h.active
    BY <2>1 DEF HeadClosed
  <2> QED
    BY <1>1, <2>1, <2>2 DEF HeadClosed
<1>2. CASE ~(~graph /\ m <= HeadRows)
  BY <1>2 DEF RunHead
<1> QED
  BY <1>1, <1>2

\* A verify leaves the target head as it found it, and reads logits that were
\* computed, by the fix-up from its own batch.
LEMMA VerifyReads ==
  ASSUME server \in Servers, NEW s \in StepCounts(server), NEW n \in 1..MaxBs,
         NEW h, HeadClosed(h), NEW narrow \in BOOLEAN, NEW v, v = VerifyHead(h, s, n, narrow)
  PROVE  HeadClosed(v.head) /\ v.read # "part" /\ (Single => v.read # "other")
<1> DEFINE graph == Fits(s, n)
           m == (IF graph THEN PadToBucket(s, n) ELSE n) * Width(s)
           run == RunHead(BeginScreen(h, narrow), m, graph)
<1>1. m \in Nat
  <2>1. MaxBs \in Nat
    BY GraphsAssumption, FS_CardinalityType DEF GraphsAssumption, MaxBs
  <2>2. n \in Nat \ {0} /\ Width(s) \in Nat
    BY <2>1, Steps
  <2>3. graph => PadToBucket(s, n) \in Nat
    BY <2>2, Padded
  <2> HIDE DEF graph
  <2> QED
    BY <2>2, <2>3
<1>2. /\ v.head = EndScreen(run)
      /\ v.read = IF Sparse(s, narrow) THEN "candidates"
                  ELSE IF run.active THEN FixupSource(run, s, n, graph)
                  ELSE IF Screened(run, m) THEN "part" ELSE "own"
  BY DEF VerifyHead
<1> HIDE DEF m, graph
<1>3. CASE narrow = FALSE
  <2>1. BeginScreen(h, narrow) = h
    BY <1>3 DEF BeginScreen
  <2>2. HeadClosed(run)
    <3>1. run = RunHead(h, m, graph)
      BY <2>1
    <3> HIDE DEF run
    <3> QED
      BY <1>1, <3>1, HeadRun
  <2> HIDE DEF run
  <2>3. run.dense = TRUE /\ run.active = FALSE
    BY <2>2 DEF HeadClosed
  <2>4. v.head = run /\ ~Screened(run, m)
    BY <1>2, <2>3, Zenon DEF EndScreen, Screened
  <2>5. v.read \in {"candidates", "own"}
    BY <1>2, <2>3, <2>4, Zenon
  <2> QED
    BY <2>2, <2>4, <2>5
<1>4. CASE narrow = TRUE
  <2> DEFINE x == [h EXCEPT !.dense = FALSE, !.active = TRUE]
  <2>1. BeginScreen(h, narrow) = x
    BY <1>4, Zenon DEF BeginScreen
  <2>2. /\ DOMAIN x = {"rows", "dense", "active"}
        /\ x.rows \in 0..HeadRows /\ x.dense = FALSE /\ x.active = TRUE
    BY DEF HeadClosed
  <2>3. run = RunHead(x, m, graph)
    BY <2>1
  <2> HIDE DEF x, run
  <2>4. /\ DOMAIN run = {"rows", "dense", "active"}
        /\ run.rows \in 0..HeadRows /\ run.dense = FALSE /\ run.active = TRUE
    <3>1. CASE ~graph /\ m <= HeadRows
      <4>1. run = [x EXCEPT !.rows = m] /\ HeadRows \in Nat
        BY <2>3, <3>1, GraphsAssumption DEF RunHead, GraphsAssumption
      <4>2. DOMAIN run = DOMAIN x /\ run.rows = m /\ run.dense = x.dense /\ run.active = x.active
        BY <2>2, <4>1
      <4> QED
        BY <1>1, <2>2, <3>1, <4>1, <4>2
    <3>2. CASE ~(~graph /\ m <= HeadRows)
      BY <2>2, <2>3, <3>2 DEF RunHead
    <3> QED
      BY <3>1, <3>2
  <2>5. v.head = [run EXCEPT !.dense = TRUE, !.active = FALSE]
    BY <1>2, <2>4, Zenon DEF EndScreen
  <2>6. HeadClosed(v.head)
    BY <2>4, <2>5 DEF HeadClosed
  <2>7. v.read \in {"candidates", FixupSource(run, s, n, graph)}
    BY <1>2, <2>4, Zenon
  <2>8. FixupSource(run, s, n, graph) # "part"
    BY DEF FixupSource
  <2>9. Single => FixupSource(run, s, n, graph) # "other"
    BY <2>4, FixupOwn DEF graph
  <2> QED
    BY <2>6, <2>7, <2>8, <2>9
<1> QED
  BY <1>3, <1>4

-----------------------------------------------------------------------------
(* Steps                                                                     *)

\* The rows of a batch move on to the tokens of e, the others stay.
Moved(b, e) ==
  /\ server' = server
  /\ \A i \in DOMAIN b : /\ seed'[b[i]] = e[i] /\ (Shares => table'[b[i]] = e[i])
                         /\ e[i] = [id |-> id'[b[i]], len |-> len'[b[i]]]
  /\ \A r \in Rows : (\A i \in DOMAIN b : b[i] # r) =>
       /\ id'[r] = id[r] /\ len'[r] = len[r] /\ seed'[r] = seed[r]
       /\ (Shares => table'[r] = table[r])

LEMMA MovedOwn ==
  ASSUME SeedsOwn, TableOwn, NEW b, NEW e, Moved(b, e)
  PROVE  SeedsOwn' /\ TableOwn'
<1>1. Shares' <=> Shares
  BY DEF Moved, Shares, StepCounts
<1>2. ASSUME NEW r \in Rows, Live(r)'
      PROVE  seed'[r] = Own(r)' /\ (Shares => table'[r] = Own(r)')
  <2>1. CASE \E i \in DOMAIN b : b[i] = r
    <3>1. PICK i \in DOMAIN b : b[i] = r
      BY <2>1
    <3>2. e[i] = Own(r)' /\ seed'[r] = e[i] /\ (Shares => table'[r] = e[i])
      BY <3>1 DEF Moved, Own
    <3> QED
      BY <3>2
  <2>2. CASE \A i \in DOMAIN b : b[i] # r
    <3>1. /\ id'[r] = id[r] /\ len'[r] = len[r] /\ seed'[r] = seed[r]
          /\ (Shares => table'[r] = table[r])
      BY <2>2 DEF Moved
    <3>2. Live(r) /\ Own(r)' = Own(r)
      BY <1>2, <3>1 DEF Live, Own
    <3> QED
      BY <3>1, <3>2 DEF SeedsOwn, TableOwn
  <2> QED
    BY <2>1, <2>2
<1> QED
  BY <1>1, <1>2 DEF SeedsOwn, TableOwn

\* What lands on the rows of a batch is g, and nothing else changes.
Distinct(b) ==
  /\ \A i \in DOMAIN b : b[i] \in Rows
  /\ \A i, j \in DOMAIN b : b[i] = b[j] => i = j
Lands(new, old, b, g) ==
  /\ DOMAIN new = DOMAIN old
  /\ \A i \in DOMAIN b : new[b[i]] = g[i]
  /\ \A r \in Rows : (\A i \in DOMAIN b : b[i] # r) => new[r] = old[r]

LEMMA ScatterLands ==
  ASSUME NEW f, Rows \subseteq DOMAIN f, NEW b, Distinct(b), NEW g
  PROVE  Lands(Scatter(f, b, g), f, b, g)
<1>1. DOMAIN Scatter(f, b, g) = DOMAIN f
  BY Scattered
<1>2. ASSUME NEW i \in DOMAIN b
      PROVE  Scatter(f, b, g)[b[i]] = g[i]
  <2>1. b[i] \in DOMAIN f /\ \A j \in DOMAIN b : b[j] = b[i] => j = i
    BY DEF Distinct
  <2> QED
    BY <2>1, Scattered
<1>3. ASSUME NEW r \in Rows, \A i \in DOMAIN b : b[i] # r
      PROVE  Scatter(f, b, g)[r] = f[r]
  BY <1>3, Scattered
<1> QED
  BY <1>1, <1>2, <1>3 DEF Lands

\* Captures overwrite the selections of their rows but for the trash row; a
\* batch may be followed by padding that captures into it.
LEMMA Captured ==
  ASSUME DOMAIN table = Rows \cup {0}, NEW b, Distinct(b), NEW rows, NEW e,
         DOMAIN b \subseteq DOMAIN rows, \A i \in DOMAIN b : rows[i] = b[i],
         \A i \in (DOMAIN rows) \ (DOMAIN b) : rows[i] = 0
  PROVE  Lands(Capture(table, rows, e), table, b, e)
<1> DEFINE t == Scatter(table, rows, e)
<1>1. 0 \notin Rows
  BY GraphsAssumption DEF GraphsAssumption
<1>2. DOMAIN t = Rows \cup {0}
  BY Scattered
<1>3. ASSUME NEW i \in DOMAIN b
      PROVE  t[b[i]] = e[i] /\ b[i] # 0 /\ b[i] \in Rows
  <2>1. i \in DOMAIN rows /\ rows[i] = b[i] /\ b[i] \in Rows
    BY DEF Distinct
  <2>2. ASSUME NEW j \in DOMAIN rows, rows[j] = rows[i]
        PROVE  j = i
    <3>1. j \in DOMAIN b
      BY <1>1, <2>1, <2>2
    <3> QED
      BY <2>1, <2>2, <3>1 DEF Distinct
  <2>3. rows[i] \in DOMAIN table
    BY <2>1
  <2>4. t[rows[i]] = e[i]
    BY <2>1, <2>2, <2>3, Scattered
  <2> QED
    BY <1>1, <2>1, <2>4
<1>4. ASSUME NEW r \in Rows, \A i \in DOMAIN b : b[i] # r
      PROVE  t[r] = table[r]
  <2>1. \A j \in DOMAIN rows : rows[j] # r
    BY <1>1, <1>4
  <2> QED
    BY <2>1, Scattered
<1>5. Capture(table, rows, e) = [t EXCEPT ![0] = table[0]]
  BY DEF Capture
<1> HIDE DEF t
<1>6. /\ DOMAIN Capture(table, rows, e) = DOMAIN table
      /\ \A r \in Rows : Capture(table, rows, e)[r] = t[r]
  BY <1>1, <1>2, <1>5
<1> QED
  BY <1>3, <1>4, <1>6 DEF Lands

LEMMA InitInv == Init => IInv
<1> SUFFICES ASSUME Init PROVE IInv
  OBVIOUS
<1>1. server \in Servers /\ static = StaticInit(server)
  BY DEF Init
<1>2. TypesOK
  BY DEF Init, TypesOK, TableInit
<1>3. Buffers(static)
  <2> DEFINE d == DraftInit(server)
             e == ExtendInit(server)
  <2>1. /\ DOMAIN static = {"slots", "seeds", "locs", "windows", "accepts", "select"}
        /\ static.slots = d.slots /\ static.seeds = d.seeds /\ static.locs = d.locs
        /\ static.windows = e.windows /\ static.accepts = e.accepts /\ static.select = e.select
    BY <1>1 DEF StaticInit
  <2>2. DOMAIN d.slots = 1..MaxBs /\ DOMAIN d.seeds = 1..MaxBs /\ DOMAIN e.accepts = 1..MaxBs
    BY DEF DraftInit, ExtendInit, Blank
  <2>3. /\ d.locs = [s \in StepCounts(server) |-> [k \in 1..(MaxBs * s) |-> <<0, 0>>]]
        /\ e.windows = [s \in StepCounts(server) |-> Blank]
        /\ e.select = [s \in StepCounts(server) |-> [i \in 1..MaxBs |-> i * Width(s) - 1]]
    BY DEF DraftInit, ExtendInit
  <2> HIDE DEF d, e
  <2>4. ASSUME NEW s \in StepCounts(server), NEW i \in 1..MaxBs
        PROVE  static.select[s][i] \in Place(s, i)
    <3>1. static.select[s] = [j \in 1..MaxBs |-> j * Width(s) - 1]
      BY <2>1, <2>3
    <3>2. static.select[s][i] = i * Width(s) - 1
      BY <3>1
    <3>3. Width(s) \in Nat \ {0} /\ i \in Nat \ {0}
      BY <1>1, Steps, GraphsAssumption, FS_CardinalityType DEF GraphsAssumption, MaxBs
    <3>4. (i - 1) * Width(s) \in Nat /\ i * Width(s) = (i - 1) * Width(s) + Width(s)
      BY <3>3
    <3> QED
      BY <3>2, <3>3, <3>4 DEF Place
  <2>5. ASSUME NEW s \in StepCounts(server)
        PROVE  /\ DOMAIN static.locs[s] = 1..(MaxBs * s)
               /\ DOMAIN static.windows[s] = 1..MaxBs /\ DOMAIN static.select[s] = 1..MaxBs
    BY <2>1, <2>3 DEF Blank
  <2>6. /\ DOMAIN static.locs = StepCounts(server) /\ DOMAIN static.windows = StepCounts(server)
        /\ DOMAIN static.select = StepCounts(server)
    BY <2>1, <2>3
  <2> QED
    BY <2>1, <2>2, <2>4, <2>5, <2>6 DEF Buffers
<1>4. SeedsOwn /\ TableOwn
  <2>1. \A r \in Rows : ~Live(r)
    BY DEF Init, Live
  <2> QED
    BY <2>1 DEF SeedsOwn, TableOwn
<1>5. HeadClosed(head)
  BY GraphsAssumption DEF Init, HeadClosed, HeadInit, GraphsAssumption
<1>6. ReplayExact /\ SharedExact /\ HandoffExact
  <2>1. view.kind = "none"
    BY DEF Init, Idle
  <2> QED
    BY <2>1 DEF ReplayExact, SharedExact, HandoffExact
<1> QED
  BY <1>2, <1>3, <1>4, <1>5, <1>6 DEF IInv, Standing

LEMMA ReleaseStep ==
  ASSUME IInv, Release
  PROVE  IInv'
<1>1. PICK r \in Rows :
        /\ id' = [id EXCEPT ![r] = 0] /\ len' = [len EXCEPT ![r] = 0]
        /\ seed' = [seed EXCEPT ![r] = Nobody] /\ view' = Idle
        /\ UNCHANGED <<server, ids, static, table, cand, head, up>>
  BY DEF Release
<1>2. TypesOK /\ Buffers(static) /\ SeedsOwn /\ TableOwn /\ HeadClosed(head)
  BY DEF IInv, Standing
<1>3. TypesOK'
  BY <1>1, <1>2 DEF TypesOK
<1>4. /\ ~Live(r)'
      /\ \A q \in Rows : q # r => id'[q] = id[q] /\ len'[q] = len[q] /\ seed'[q] = seed[q]
  BY <1>1, <1>2 DEF TypesOK, Live
<1>5. SeedsOwn' /\ TableOwn'
  BY <1>1, <1>2, <1>4 DEF SeedsOwn, TableOwn, Live, Own, Shares, StepCounts
<1>6. Buffers(static)' /\ HeadClosed(head)'
  BY <1>1, <1>2 DEF Buffers, HeadClosed, StepCounts, Place
<1>7. ReplayExact' /\ SharedExact' /\ HandoffExact'
  <2>1. view'.kind = "none"
    BY <1>1 DEF Idle
  <2> QED
    BY <2>1 DEF ReplayExact, SharedExact, HandoffExact
<1> QED
  BY <1>3, <1>5, <1>6, <1>7 DEF IInv, Standing

LEMMA PrefillStep ==
  ASSUME IInv, Prefill
  PROVE  IInv'
<1>1. PICK b \in Batches(Rows) : \E n \in [DOMAIN b -> 1..MaxPrompt] : PrefillBatch(b, n)
  BY DEF Prefill
<1>2. PICK n \in [DOMAIN b -> 1..MaxPrompt] : PrefillBatch(b, n)
  BY <1>1
<1> DEFINE new == {i \in DOMAIN b : id[b[i]] = 0}
           owner == [i \in DOMAIN b |-> IF i \in new THEN ids + Cardinality({j \in new : j <= i})
                                        ELSE id[b[i]]]
           entries == [i \in DOMAIN b |-> [id |-> owner[i], len |-> len[b[i]] + n[i]]]
           lens == [i \in DOMAIN b |-> entries[i].len]
<1>3. TypesOK /\ Buffers(static) /\ SeedsOwn /\ TableOwn /\ HeadClosed(head)
  BY DEF IInv, Standing
<1>4. /\ DOMAIN b = 1..Len(b) /\ Len(b) \in Nat
      /\ Distinct(b) /\ \A i \in DOMAIN b : b[i] \in Rows
  <2>1. MaxBs \in Nat
    BY GraphsAssumption, FS_CardinalityType DEF GraphsAssumption, MaxBs
  <2>2. /\ Len(b) \in 1..MaxBs /\ DOMAIN b = 1..Len(b)
        /\ \A i \in 1..Len(b) : b[i] \in Rows
        /\ \A i, j \in 1..Len(b) : b[i] = b[j] => i = j
    BY BatchRows
  <2> QED
    BY <2>1, <2>2 DEF Distinct
<1>5. \A i \in DOMAIN b : n[i] \in Nat
  BY GraphsAssumption DEF GraphsAssumption
<1>6. Cardinality(new) \in Nat /\ \A i \in DOMAIN b : Cardinality({j \in new : j <= i}) \in Nat
  <2>1. IsFiniteSet(1..Len(b))
    BY <1>4, FS_Interval
  <2>2. \A i \in DOMAIN b : {j \in new : j <= i} \in SUBSET (1..Len(b))
    BY <1>4
  <2>3. new \in SUBSET (1..Len(b))
    BY <1>4
  <2> QED
    BY <2>1, <2>2, <2>3, FS_Subset, FS_CardinalityType
<1>7. /\ DOMAIN owner = DOMAIN b /\ DOMAIN entries = DOMAIN b /\ DOMAIN lens = DOMAIN b
      /\ \A i \in DOMAIN b :
           /\ owner[i] \in Nat /\ lens[i] \in Nat
           /\ entries[i] = [id |-> owner[i], len |-> lens[i]]
  <2>1. \A i \in DOMAIN b : id[b[i]] \in Nat /\ len[b[i]] \in Nat
    BY <1>3, <1>4 DEF TypesOK
  <2>2. DOMAIN owner = DOMAIN b /\ \A i \in DOMAIN b : owner[i] \in Nat
    BY <1>3, <1>6, <2>1 DEF TypesOK
  <2> HIDE DEF owner
  <2>3. DOMAIN entries = DOMAIN b
        /\ \A i \in DOMAIN b : entries[i] = [id |-> owner[i], len |-> len[b[i]] + n[i]]
    OBVIOUS
  <2> HIDE DEF entries
  <2>4. DOMAIN lens = DOMAIN b /\ \A i \in DOMAIN b : lens[i] = entries[i].len
    OBVIOUS
  <2> HIDE DEF lens
  <2>5. \A i \in DOMAIN b : lens[i] = len[b[i]] + n[i] /\ lens[i] \in Nat
    BY <1>5, <2>1, <2>3, <2>4
  <2> QED
    BY <2>2, <2>3, <2>4, <2>5
<1>8. /\ ids' = ids + Cardinality(new)
      /\ id' = Scatter(id, b, owner) /\ len' = Scatter(len, b, lens)
      /\ seed' = Scatter(seed, b, entries)
      /\ table' = CapturePrefill(table, b, entries)
      /\ head' = RunHead(head, Len(b), FALSE)
      /\ view' = [kind |-> "prefill", logits |-> entries,
                  taken |-> IF server.rejection THEN Take(RunDraftHead(entries), entries) ELSE <<>>,
                  read |-> IF Screened(head, Len(b)) THEN "part" ELSE "own"]
      /\ server' = server /\ static' = static
  BY <1>2 DEF PrefillBatch
<1> HIDE DEF new, owner, entries, lens
<1>9. /\ DOMAIN id = Rows /\ DOMAIN len = Rows /\ DOMAIN seed = Rows /\ DOMAIN table = Rows \cup {0}
      /\ \A r \in Rows : id[r] \in Nat /\ len[r] \in Nat
  BY <1>3 DEF TypesOK
<1>10. Lands(id', id, b, owner) /\ Lands(len', len, b, lens) /\ Lands(seed', seed, b, entries)
  BY <1>4, <1>8, <1>9, ScatterLands
<1>11. DOMAIN table' = DOMAIN table /\ (Shares => Lands(table', table, b, entries))
  <2>1. CASE Shares
    <3>1. table' = Capture(table, b, entries)
      BY <1>8, <2>1 DEF CapturePrefill
    <3>2. Lands(table', table, b, entries)
      BY <1>4, <1>9, <3>1, Captured
    <3> QED
      BY <3>2 DEF Lands
  <2>2. CASE ~Shares
    BY <1>8, <2>2 DEF CapturePrefill
  <2> QED
    BY <2>1, <2>2
<1>12. TypesOK'
  <2>1. \A r \in Rows : id'[r] \in Nat /\ len'[r] \in Nat
    <3> SUFFICES ASSUME NEW r \in Rows PROVE id'[r] \in Nat /\ len'[r] \in Nat
      OBVIOUS
    <3>1. CASE \E i \in DOMAIN b : b[i] = r
      BY <1>7, <1>10, <3>1 DEF Lands
    <3>2. CASE \A i \in DOMAIN b : b[i] # r
      BY <1>9, <1>10, <3>2 DEF Lands
    <3> QED
      BY <3>1, <3>2
  <2>2. id' \in [Rows -> Nat] /\ len' \in [Rows -> Nat]
    <3>1. id' = [r \in Rows |-> id'[r]] /\ len' = [r \in Rows |-> len'[r]]
      BY <1>8, <1>9 DEF Scatter
    <3> QED
      BY <2>1, <3>1
  <2>3. DOMAIN table' = Rows \cup {0}
    BY <1>8, <1>9, <1>11 DEF Lands
  <2> QED
    BY <1>3, <1>6, <1>8, <1>9, <1>10, <2>2, <2>3 DEF TypesOK, Lands
<1>13. SeedsOwn' /\ TableOwn'
  <2>1. Moved(b, entries)
    BY <1>7, <1>8, <1>10, <1>11 DEF Moved, Lands
  <2> QED
    BY <1>3, <2>1, MovedOwn
<1>14. Buffers(static)' /\ HeadClosed(head)'
  <2>1. Buffers(static)'
    BY <1>3, <1>8 DEF Buffers, StepCounts, Place
  <2>2. HeadClosed(head')
    BY <1>3, <1>4, <1>8, HeadRun
  <2> QED
    BY <2>1, <2>2 DEF HeadClosed
<1>15. ReplayExact' /\ SharedExact' /\ HandoffExact'
  <2>1. /\ view'.kind = "prefill" /\ view'.logits = entries
        /\ view'.taken = IF server.rejection THEN Take(RunDraftHead(entries), entries) ELSE <<>>
        /\ view'.read = IF Screened(head, Len(b)) THEN "part" ELSE "own"
    BY <1>8
  <2>2. view'.taken \in {<<>>, entries}
    BY <2>1 DEF Take, RunDraftHead
  <2>3. ~Screened(head, Len(b))
    BY <1>3, Zenon DEF Screened, HeadClosed
  <2>4. view'.read = "own"
    BY <2>1, <2>3
  <2> QED
    BY <2>1, <2>2, <2>4 DEF ReplayExact, SharedExact, HandoffExact
<1> QED
  BY <1>12, <1>13, <1>14, <1>15 DEF IInv, Standing

\* The candidates that a draft extend leaves, and its logits.
Slot(s, b, n, logits, in, graph, slot) ==
  slot = IF graph THEN Restore(in, n, logits)
         ELSE RunDraftHead([x \in 1..(n * Width(s)) |-> WindowRow(s, b, x - 1)])
Accepted(s, b, n, acc, logits) ==
  /\ acc \in [1..n -> 1..Width(s)]
  /\ logits = [i \in 1..n |-> [id |-> id[b[i]], len |-> len[b[i]] + acc[i]]]
\* A proposal takes candidates of its own logits or none: a replay restores
\* those of its batch, and an eager window has more rows than the batch unless
\* it is one token wide.
LEMMA TakenOwn ==
  ASSUME server \in Servers, TypesOK, NEW s \in StepCounts(server), NEW b, NEW n \in Nat \ {0},
         n = Len(b), DOMAIN b = 1..n, \A i \in 1..n : b[i] \in Rows,
         NEW acc, NEW logits, Accepted(s, b, n, acc, logits),
         NEW in, NEW graph, NEW slot, Slot(s, b, n, logits, in, graph, slot)
  PROVE  Take(slot, logits) \in {<<>>, logits}
<1> USE DEF Slot, Accepted
<1> DEFINE all == [x \in 1..(n * Width(s)) |-> WindowRow(s, b, x - 1)]
<1>1. Len(logits) = n
  OBVIOUS
<1>2. CASE slot \in {<<>>, logits}
  BY <1>2 DEF Take
<1>3. CASE slot = all
  <2>1. Width(s) \in Nat \ {0} /\ n * Width(s) \in Nat
    BY Steps
  <2>2. Len(all) = n * Width(s)
    BY <2>1
  <2>3. CASE Width(s) = 1
    <3>1. ASSUME NEW x \in 1..n
          PROVE  WindowRow(s, b, x - 1) = logits[x]
      <4>1. acc[x] = 1
        BY <2>3
      <4>2. WindowRow(s, b, (x - 1) * Width(s) + 1 - 1) = [id |-> id[b[x]], len |-> len[b[x]] + 1]
        <5>1. 1 \in 1..Width(s) /\ n \in Nat /\ b[x] \in Rows
          BY <2>3
        <5>2. DOMAIN b = 1..n /\ x \in 1..n
          OBVIOUS
        <5>3. Gathers(s, b, x, 1)
          BY <5>1, <5>2, GatheredRow
        <5> QED
          BY <5>3, Zenon DEF Gathers
      <4>3. (x - 1) * Width(s) + 1 - 1 = x - 1
        BY <2>3
      <4>4. logits[x] = [id |-> id[b[x]], len |-> len[b[x]] + acc[x]]
        OBVIOUS
      <4> QED
        BY <4>1, <4>2, <4>3, <4>4
    <3>2. all = [x \in 1..n |-> WindowRow(s, b, x - 1)]
      BY <2>3
    <3>3. DOMAIN logits = 1..n /\ logits = [x \in 1..n |-> logits[x]]
      OBVIOUS
    <3>4. all = logits
      BY <3>1, <3>2, <3>3
    <3> QED
      BY <1>2, <1>3, <3>4
  <2>4. CASE Width(s) # 1
    <3>1. n * Width(s) > n
      <4>1. ASSUME NEW w \in Nat \ {0}, w # 1
            PROVE  n * w > n
        <5>1. w - 2 \in Nat /\ n * (w - 2) \in Nat /\ n * w = n + n + n * (w - 2)
          BY <4>1
        <5> QED
          BY <5>1
      <4> QED
        BY <2>1, <2>4, <4>1
    <3>2. Len(slot) # Len(logits)
      BY <1>1, <1>3, <2>1, <2>2, <3>1
    <3> QED
      BY <3>2 DEF Take
  <2> QED
    BY <2>3, <2>4
<1>4. slot \in {<<>>, logits, all}
  BY DEF Restore, RunDraftHead
<1> QED
  BY <1>2, <1>3, <1>4

\* Between the anchor row's length and the step's, nothing is missing.
LEMMA TailWhole ==
  ASSUME NEW s \in Nat, NEW n \in Nat, NEW j \in 1..(s - 1)
  PROVE  ReuseTail(s, n, n + j - 1) = n..(n + j - 1)
<1>1. ASSUME NEW p
      PROVE  p \in ReuseTail(s, n, n + j - 1) <=> p \in n..(n + j - 1)
  BY DEF ReuseTail, TailWidth
<1> QED
  BY <1>1

LEMMA DecodeStep ==
  ASSUME IInv, Decode
  PROVE  IInv'
<1>1. PICK b \in Batches({r \in Rows : id[r] > 0}), s \in StepCounts(server), narrow \in BOOLEAN :
        \E acc \in [DOMAIN b -> 1..Width(s)] : DecodeBatch(b, s, narrow, acc)
  BY DEF Decode
<1>2. PICK acc \in [DOMAIN b -> 1..Width(s)] : DecodeBatch(b, s, narrow, acc)
  BY <1>1
<1> DEFINE n == Len(b)
           drafted == IF DraftGraph(s, n) THEN DraftExecute(static, s, b) ELSE static
           extended == IF ExtendGraph(s, n) THEN ExtendExecute(drafted, s, b, acc) ELSE drafted
           draftIn == IF s > 1 THEN DraftInputs(drafted, s, b) ELSE <<>>
           extendIn == ExtendInputs(extended, s, b, acc)
           logits == [i \in DOMAIN b |-> WindowRow(s, b, extendIn[i].pick)]
           all == [x \in 1..(n * Width(s)) |-> WindowRow(s, b, x - 1)]
           slot == IF ExtendGraph(s, n) THEN Restore(extendIn, n, logits) ELSE RunDraftHead(all)
           verified == VerifyHead(head, s, n, narrow)
           lens == [i \in DOMAIN b |-> len[b[i]] + acc[i]]
           batch == [i \in DOMAIN b |-> [row |-> b[i], id |-> id[b[i]], len |-> len[b[i]]]]
           shared == IF Shares THEN [i \in DOMAIN b |-> Lookup(table, s, draftIn[i].row, len[b[i]])]
                     ELSE <<>>
           taken == IF server.rejection THEN Take(slot, logits) ELSE <<>>
<1>3. TypesOK /\ Buffers(static) /\ SeedsOwn /\ TableOwn /\ HeadClosed(head) /\ server \in Servers
  BY DEF IInv, Standing, TypesOK
<1>4. /\ n \in 1..MaxBs /\ n \in Nat \ {0} /\ DOMAIN b = 1..n
      /\ \A i \in 1..n : b[i] \in Rows /\ Live(b[i])
      /\ Distinct(b)
  <2>1. MaxBs \in Nat
    BY GraphsAssumption, FS_CardinalityType DEF GraphsAssumption, MaxBs
  <2>2. /\ Len(b) \in 1..MaxBs /\ DOMAIN b = 1..Len(b)
        /\ \A i \in 1..Len(b) : b[i] \in {r \in Rows : id[r] > 0}
        /\ \A i, j \in 1..Len(b) : b[i] = b[j] => i = j
    BY BatchRows
  <2> QED
    BY <2>1, <2>2 DEF Distinct, Live
<1>5. s \in Nat /\ Width(s) \in Nat \ {0} /\ acc \in [1..n -> 1..Width(s)]
  BY <1>3, <1>4, Steps
<1>6. /\ head' = verified.head /\ len' = Scatter(len, b, lens) /\ seed' = Scatter(seed, b, logits)
      /\ static' = extended /\ table' = CaptureExtend(table, s, b, extendIn)
      /\ view' = [kind |-> "decode", steps |-> s, acc |-> acc, batch |-> batch, draft |-> draftIn,
                  extend |-> extendIn, shared |-> shared, logits |-> logits, taken |-> taken,
                  read |-> verified.read]
      /\ server' = server /\ ids' = ids /\ id' = id
  BY <1>2 DEF DecodeBatch
<1>7. Buffers(drafted)
  <2>1. CASE DraftGraph(s, n)
    <3>1. s > 0 /\ Fits(s, n) /\ drafted = DraftExecute(static, s, b)
      BY <1>5, <2>1 DEF DraftGraph
    <3> HIDE DEF drafted
    <3> QED
      BY <1>3, <1>4, <3>1, DraftCopied
  <2>2. CASE ~DraftGraph(s, n)
    BY <1>3, <2>2
  <2> QED
    BY <2>1, <2>2
<1>8. s > 1 => /\ 1..n \subseteq DOMAIN draftIn /\ DOMAIN draftIn \subseteq Nat \ {0}
               /\ DraftReads(draftIn, b, n)
  <2> SUFFICES ASSUME s > 1
               PROVE  /\ 1..n \subseteq DOMAIN draftIn /\ DOMAIN draftIn \subseteq Nat \ {0}
                      /\ DraftReads(draftIn, b, n)
    OBVIOUS
  <2>1. draftIn = DraftInputs(drafted, s, b)
    OBVIOUS
  <2>2. drafted = IF DraftGraph(s, n) THEN DraftExecute(static, s, b) ELSE static
    OBVIOUS
  <2> HIDE DEF drafted, draftIn
  <2> QED
    BY <1>3, <1>4, <2>1, <2>2, DraftRead
<1>9. Buffers(extended) /\ ExtendReads(extendIn, s, b, n, acc)
  <2>1. /\ extended = IF ExtendGraph(s, n) THEN ExtendExecute(drafted, s, b, acc) ELSE drafted
        /\ extendIn = ExtendInputs(extended, s, b, acc)
    OBVIOUS
  <2> HIDE DEF drafted, extended, extendIn
  <2> QED
    BY <1>3, <1>4, <1>5, <1>7, <2>1, ExtendRead
<1>10. slot = IF ExtendGraph(s, n) THEN Restore(extendIn, n, logits) ELSE RunDraftHead(all)
  OBVIOUS
<1> HIDE DEF drafted, extended, draftIn, extendIn, slot
<1>11. logits = [i \in 1..n |-> [id |-> id[b[i]], len |-> len[b[i]] + acc[i]]]
  <2>1. ASSUME NEW i \in 1..n
        PROVE  WindowRow(s, b, extendIn[i].pick) = [id |-> id[b[i]], len |-> len[b[i]] + acc[i]]
    <3>1. extendIn[i].pick = (i - 1) * Width(s) + acc[i] - 1
      BY <1>9 DEF ExtendReads
    <3>2. acc[i] \in 1..Width(s) /\ b[i] \in Rows
      BY <1>4, <1>5
    <3>3. Gathers(s, b, i, acc[i])
      BY <1>3, <1>4, <3>2, GatheredRow
    <3> QED
      BY <3>1, <3>3 DEF Gathers
  <2> QED
    BY <1>4, <2>1
<1> HIDE DEF logits
<1>12. HeadClosed(verified.head) /\ verified.read # "part" /\ (Single => verified.read # "other")
  BY <1>3, <1>4, VerifyReads
<1>13. /\ DOMAIN lens = 1..n /\ \A i \in 1..n : lens[i] = len[b[i]] + acc[i] /\ lens[i] \in Nat
  <2>1. \A i \in 1..n : len[b[i]] \in Nat /\ acc[i] \in Nat
    BY <1>3, <1>4, <1>5 DEF TypesOK
  <2> QED
    BY <1>4, <2>1
<1>14. taken \in {<<>>, logits}
  <2>1. \A i \in 1..n : b[i] \in Rows
    BY <1>4
  <2>2. Slot(s, b, n, logits, extendIn, ExtendGraph(s, n), slot)
    BY <1>10 DEF Slot
  <2>3. Accepted(s, b, n, acc, logits)
    BY <1>5, <1>11 DEF Accepted
  <2>4. Take(slot, logits) \in {<<>>, logits}
    BY <1>3, <1>4, <2>1, <2>2, <2>3, TakenOwn
  <2> QED
    BY <2>4
<1> HIDE DEF lens, taken, verified
<1>15. /\ DOMAIN id = Rows /\ DOMAIN len = Rows /\ DOMAIN seed = Rows /\ DOMAIN table = Rows \cup {0}
       /\ \A r \in Rows : id[r] \in Nat /\ len[r] \in Nat
  BY <1>3 DEF TypesOK
<1>16. Lands(len', len, b, lens) /\ Lands(seed', seed, b, logits)
  BY <1>4, <1>6, <1>15, ScatterLands
<1>17. DOMAIN table' = DOMAIN table /\ (Shares => Lands(table', table, b, logits))
  <2>1. CASE Shares
    <3> DEFINE rows == [i \in DOMAIN extendIn |-> extendIn[i].row]
               e == [i \in DOMAIN extendIn |-> WindowRow(s, b, AnchorRow(s, i, extendIn[i].accept))]
    <3>1. table' = Capture(table, rows, e)
      BY <1>6, <2>1 DEF CaptureExtend
    <3>2. /\ DOMAIN extendIn = 1..Len(extendIn) /\ n <= Len(extendIn) /\ Len(extendIn) \in Nat
          /\ \A i \in 1..n : extendIn[i].row = b[i] /\ extendIn[i].accept = acc[i]
          /\ \A i \in 1..Len(extendIn) : i > n => extendIn[i].row = 0
      BY <1>9 DEF ExtendReads
    <3>3. /\ DOMAIN b \subseteq DOMAIN rows /\ \A i \in DOMAIN b : rows[i] = b[i]
          /\ \A i \in (DOMAIN rows) \ (DOMAIN b) : rows[i] = 0
      BY <1>4, <3>2
    <3>4. ASSUME NEW i \in DOMAIN b
          PROVE  e[i] = logits[i]
      <4>1. acc[i] \in 1..Width(s) /\ i \in Nat \ {0} /\ i \in DOMAIN extendIn /\ i \in 1..n /\ b[i] \in Rows
        BY <1>4, <1>5, <3>2
      <4>2. AnchorRow(s, i, acc[i]) = (i - 1) * Width(s) + acc[i] - 1
        BY <1>3, <4>1, OwnPlace
      <4>3. e[i] = WindowRow(s, b, AnchorRow(s, i, acc[i]))
        BY <3>2, <4>1
      <4>4. Gathers(s, b, i, acc[i])
        BY <1>3, <1>4, <4>1, GatheredRow
      <4>5. logits[i] = [id |-> id[b[i]], len |-> len[b[i]] + acc[i]]
        BY <1>11, <4>1
      <4> HIDE DEF e
      <4> QED
        BY <4>2, <4>3, <4>4, <4>5, Zenon DEF Gathers
    <3> HIDE DEF rows, e
    <3>5. Lands(table', table, b, e)
      BY <1>4, <1>15, <3>1, <3>3, Captured
    <3> QED
      BY <3>4, <3>5 DEF Lands
  <2>2. CASE ~Shares
    BY <1>6, <2>2 DEF CaptureExtend
  <2> QED
    BY <2>1, <2>2
<1>18. TypesOK'
  <2>1. \A r \in Rows : len'[r] \in Nat
    <3> SUFFICES ASSUME NEW r \in Rows PROVE len'[r] \in Nat
      OBVIOUS
    <3>1. CASE \E i \in DOMAIN b : b[i] = r
      BY <1>4, <1>13, <1>16, <3>1 DEF Lands
    <3>2. CASE \A i \in DOMAIN b : b[i] # r
      BY <1>15, <1>16, <3>2 DEF Lands
    <3> QED
      BY <3>1, <3>2
  <2>2. len' \in [Rows -> Nat]
    <3>1. len' = [r \in Rows |-> len'[r]]
      BY <1>6, <1>15 DEF Scatter
    <3> QED
      BY <2>1, <3>1
  <2> QED
    BY <1>3, <1>6, <1>15, <1>16, <1>17, <2>2 DEF TypesOK, Lands
<1>19. SeedsOwn' /\ TableOwn'
  <2>1. ASSUME NEW i \in DOMAIN b
        PROVE  logits[i] = [id |-> id'[b[i]], len |-> len'[b[i]]]
    <3>1. i \in 1..n /\ len'[b[i]] = lens[i] /\ lens[i] = len[b[i]] + acc[i]
      BY <1>4, <1>13, <1>16 DEF Lands
    <3>2. logits[i] = [id |-> id[b[i]], len |-> len[b[i]] + acc[i]]
      BY <1>11, <3>1
    <3> QED
      BY <1>6, <3>1, <3>2
  <2>2. Moved(b, logits)
    BY <1>6, <1>16, <1>17, <2>1 DEF Moved, Lands
  <2> QED
    BY <1>3, <2>2, MovedOwn
<1>20. Buffers(static)' /\ HeadClosed(head)'
  <2>1. Buffers(static)'
    BY <1>6, <1>9 DEF Buffers, StepCounts, Place
  <2> QED
    BY <1>6, <1>12, <2>1 DEF HeadClosed
<1>21. /\ view'.kind = "decode" /\ view'.steps = s /\ view'.acc = acc /\ view'.batch = batch
       /\ view'.draft = draftIn /\ view'.extend = extendIn /\ view'.shared = shared
       /\ view'.logits = logits /\ view'.taken = taken /\ view'.read = verified.read
  BY <1>6
<1>22. /\ Len(batch) = n /\ DOMAIN batch = 1..n
       /\ \A i \in 1..n : batch[i] = [row |-> b[i], id |-> id[b[i]], len |-> len[b[i]]]
  BY <1>4
<1>23. ReplayExact'
  <2>1. ASSUME NEW i \in DOMAIN draftIn
        PROVE  IF i <= n THEN /\ draftIn[i].row = batch[i].row
                              /\ \A j \in DOMAIN draftIn[i].locs : draftIn[i].locs[j] = <<batch[i].row, j>>
                              /\ draftIn[i].seed = [id |-> batch[i].id, len |-> batch[i].len]
               ELSE draftIn[i].row = 0 /\ \A j \in DOMAIN draftIn[i].locs : draftIn[i].locs[j] = <<0, 0>>
    <3>1. s > 1
      BY DEF draftIn
    <3>2. i \in Nat \ {0} /\ DraftReads(draftIn, b, n)
      BY <1>8, <3>1
    <3>3. CASE i <= n
      <4>1. i \in 1..n
        BY <1>4, <3>2, <3>3
      <4>2. batch[i].row = b[i] /\ batch[i].id = id[b[i]] /\ batch[i].len = len[b[i]]
        BY <1>22, <4>1
      <4>3. seed[b[i]] = [id |-> id[b[i]], len |-> len[b[i]]]
        BY <1>3, <1>4, <4>1 DEF SeedsOwn, Own
      <4> HIDE DEF batch
      <4> QED
        BY <3>2, <3>3, <4>2, <4>3 DEF DraftReads
    <3>4. CASE ~(i <= n)
      BY <3>2, <3>4 DEF DraftReads
    <3> QED
      BY <3>3, <3>4
  <2>2. ASSUME NEW i \in DOMAIN extendIn
        PROVE  IF i <= n THEN /\ extendIn[i].row = batch[i].row /\ extendIn[i].loc = batch[i].row
                              /\ extendIn[i].accept = acc[i]
                              /\ logits[i] = [id |-> batch[i].id, len |-> batch[i].len + acc[i]]
               ELSE /\ extendIn[i].row = 0 /\ extendIn[i].loc = 0
                    /\ extendIn[i].pick \in 0..(Len(extendIn) * Width(s) - 1)
    <3>1. i \in 1..Len(extendIn) /\ Len(extendIn) \in Nat
      BY <1>9 DEF ExtendReads
    <3>2. CASE i <= n
      <4>1. i \in 1..n
        BY <1>4, <3>1, <3>2
      <4>2. batch[i].row = b[i] /\ batch[i].id = id[b[i]] /\ batch[i].len = len[b[i]]
        BY <1>22, <4>1
      <4>3. logits[i] = [id |-> id[b[i]], len |-> len[b[i]] + acc[i]]
        BY <1>11, <4>1
      <4>4. extendIn[i].row = b[i] /\ extendIn[i].loc = b[i] /\ extendIn[i].accept = acc[i]
        BY <1>9, <4>1 DEF ExtendReads
      <4> HIDE DEF batch
      <4> QED
        BY <3>2, <4>2, <4>3, <4>4
    <3>3. CASE ~(i <= n)
      <4>1. i > n
        BY <1>4, <3>1, <3>3
      <4> QED
        BY <1>9, <3>1, <3>3, <4>1 DEF ExtendReads
    <3> QED
      BY <3>2, <3>3
  <2> HIDE DEF batch
  <2> QED
    BY <1>21, <1>22, <2>1, <2>2 DEF ReplayExact, Width
<1>24. SharedExact'
  <2>1. ASSUME NEW i \in DOMAIN shared
        PROVE  /\ shared[i].frozen = [id |-> batch[i].id, len |-> batch[i].len]
               /\ \A j \in DOMAIN shared[i].tails :
                    shared[i].tails[j] = batch[i].len..(batch[i].len + j - 1)
    <3>1. Shares /\ shared = [k \in DOMAIN b |-> Lookup(table, s, draftIn[k].row, len[b[k]])]
      BY DEF shared
    <3>2. i \in 1..n /\ b[i] \in Rows /\ Live(b[i]) /\ len[b[i]] \in Nat
      BY <1>4, <1>15, <3>1
    <3>3. s > 1
      BY <3>1 DEF Shares
    <3>4. draftIn[i].row = b[i]
      BY <1>4, <1>8, <3>2, <3>3 DEF DraftReads
    <3>5. table[b[i]] = [id |-> id[b[i]], len |-> len[b[i]]]
      BY <1>3, <3>1, <3>2 DEF TableOwn, Own
    <3>6. shared[i] = Lookup(table, s, b[i], len[b[i]])
      BY <1>4, <3>1, <3>2, <3>4
    <3>7. /\ shared[i].frozen = table[b[i]]
          /\ shared[i].tails = [j \in 1..(s - 1) |-> ReuseTail(s, table[b[i]].len, len[b[i]] + j - 1)]
      <4> HIDE DEF shared
      <4>1. Lookup(table, s, b[i], len[b[i]])
              = [frozen |-> table[b[i]],
                 tails |-> [j \in 1..(s - 1) |-> ReuseTail(s, table[b[i]].len, len[b[i]] + j - 1)]]
        BY Zenon DEF Lookup
      <4> DEFINE tails == [j \in 1..(s - 1) |-> ReuseTail(s, table[b[i]].len, len[b[i]] + j - 1)]
      <4> HIDE DEF tails
      <4>2. shared[i] = [frozen |-> table[b[i]], tails |-> tails]
        BY <3>6, <4>1 DEF tails
      <4>3. shared[i].frozen = table[b[i]] /\ shared[i].tails = tails
        BY <4>2
      <4> QED
        BY <4>3 DEF tails
    <3>8. ASSUME NEW j \in 1..(s - 1)
          PROVE  shared[i].tails[j] = len[b[i]]..(len[b[i]] + j - 1)
      <4> HIDE DEF shared
      <4>1. shared[i].tails[j] = ReuseTail(s, table[b[i]].len, len[b[i]] + j - 1)
        BY <3>7
      <4>2. table[b[i]].len = len[b[i]]
        BY <3>5
      <4> QED
        BY <1>5, <3>2, <4>1, <4>2, TailWhole
    <3>9. batch[i].id = id[b[i]] /\ batch[i].len = len[b[i]] /\ DOMAIN shared[i].tails = 1..(s - 1)
      BY <1>22, <3>2, <3>7
    <3> HIDE DEF batch, shared
    <3> QED
      BY <3>5, <3>7, <3>8, <3>9
  <2> HIDE DEF batch, shared
  <2> QED
    BY <1>21, <2>1 DEF SharedExact
<1>25. HandoffExact'
  <2>1. Single' <=> Single
    BY <1>6 DEF Single, StepCounts, Fits
  <2> QED
    BY <1>12, <1>14, <1>21, <2>1 DEF HandoffExact
<1> QED
  BY <1>18, <1>19, <1>20, <1>23, <1>24, <1>25 DEF IInv, Standing

-----------------------------------------------------------------------------
(* The theorems                                                              *)

LEMMA Invariance == Spec => []IInv
<1>1. IInv /\ [Next]_vars => IInv'
  <2> SUFFICES ASSUME IInv, [Next]_vars PROVE IInv'
    OBVIOUS
  <2>1. CASE UNCHANGED vars
    <3>1. /\ server' = server /\ ids' = ids /\ id' = id /\ len' = len /\ seed' = seed
          /\ static' = static /\ table' = table /\ head' = head /\ view' = view
      BY <2>1 DEF vars
    <3>2. TypesOK' /\ HeadClosed(head)'
      BY <3>1 DEF IInv, Standing, TypesOK, HeadClosed
    <3>3. Buffers(static)'
      BY <3>1, Zenon DEF IInv, Standing, Buffers, StepCounts, Place, MaxBs, Width
    <3>4. SeedsOwn' /\ TableOwn'
      BY <3>1, Zenon DEF IInv, Standing, SeedsOwn, TableOwn, Live, Own, Shares, StepCounts
    <3>5. ReplayExact'
      BY <3>1, Zenon DEF IInv, ReplayExact, Width
    <3>6. SharedExact'
      BY <3>1, Zenon DEF IInv, SharedExact
    <3>7. Single' <=> Single
      BY <3>1, Zenon DEF Single, StepCounts, Fits
    <3>8. HandoffExact'
      BY <3>1, <3>7, Zenon DEF IInv, HandoffExact
    <3> QED
      BY <3>2, <3>3, <3>4, <3>5, <3>6, <3>8 DEF IInv, Standing
  <2> QED
    BY <2>1, PrefillStep, DecodeStep, ReleaseStep DEF Next
<1> QED
  BY <1>1, InitInv, PTL DEF Spec

\* Whatever ran before in the buffers that the graph runners share, and by
\* whichever runner, a batch reads and writes what an eager forward of it
\* would, and padding stays in the reserved row: for any captured sizes, step
\* counts and pool (EAGLEDraftCudaGraphRunner.execute and its twin).
THEOREM ReplaysExact == Spec => []ReplayExact
<1>1. IInv => ReplayExact
  BY DEF IInv
<1> QED
  BY <1>1, Invariance, PTL

\* A draft that reuses a sparse selection has its own request's, of its
\* committed tokens, and the tokens drafted since besides it, whatever was
\* captured eagerly or by a replay with padding (QSAMTPSharedSparseIndices).
THEOREM SelectionsShared == Spec => []SharedExact
<1>1. IInv => SharedExact
  BY DEF IInv
<1> QED
  BY <1>1, Invariance, PTL

\* What the screened heads leave in globals is read by the forward that left
\* it: candidates by proposals from the same logits, dense logits only where
\* they were computed, and the fix-up's hidden states by their own batch where
\* one width and every replayed size are captured (qwenfast.py).
THEOREM HandoffsExact == Spec => []HandoffExact
<1>1. IInv => HandoffExact
  BY DEF IInv
<1> QED
  BY <1>1, Invariance, PTL
=============================================================================
