------------------------- MODULE SpeculationProofs -------------------------
(***************************************************************************)
(* Proofs about the two views of speculation.  SpecLoop, for any number of *)
(* rows, step counts, prompts and lengths: types, that the KV of both      *)
(* models is that of the accepted tokens, and that draft inputs and        *)
(* proposals belong to them.  TreeVerify, for any tree shapes, batches and *)
(* mask layouts: that what is verified is exact, and so is what a round    *)
(* leaves at the front of every block; and for any vocabulary and rows,    *)
(* that sampling on the top candidates is as good as sampling on all, and  *)
(* that the token a position emits has the target's distribution.          *)
(***************************************************************************)
EXTENDS SpecLoop, TreeVerify, FiniteSetTheorems, SequenceTheorems,
        WellFoundedInduction, TLAPS

-----------------------------------------------------------------------------
(* SpecLoop                                                                  *)

\* The proposals that a verify of r would be given now.
Proposals(r) == IF probs.in = "stack" THEN stack[r] ELSE probs.val[r]

\* What a verify leaves for the draft extend: the tokens of the window up to
\* the last accepted one, and what follows each of them, are r's own.
WindowAccepted(r) ==
  /\ accept[r] > 0 /\ Len(predict[r]) = steps + 1
  /\ \A j \in 0..accept[r] - 1 :
       /\ cand[r][j + 1] = At(r, len[r] - accept[r] + j)
       /\ predict[r][j + 1] = At(r, len[r] - accept[r] + j + 1)

\* Where r stands: all but its last token is committed once it is ready, and
\* only then, and all through a forward, it is in the batch.
Standing(r) ==
  /\ out[r] = <<>> => len[r] = 0 /\ seed[r] = NoSeed
  /\ out[r] # <<>> => len[r] < Len(out[r])
  /\ r \in Ready => len[r] > 0 /\ len[r] + 1 = Len(out[r])
  /\ accept[r] <= len[r] /\ accept[r] <= steps + 1
  /\ pc # "extend" => accept[r] = 0
  /\ pc = "schedule" => cand[r] = <<>>
  /\ pc # "schedule" => (cand[r] # <<>> <=> r \in Ready)
  /\ cand[r] = <<>> => accept[r] = 0
  /\ cand[r] # <<>> => Len(cand[r]) = steps + 1

\* The KV of both models; between verify and draft extend the draft model's
\* lags behind by the tokens just accepted.
Committed(r) ==
  /\ \A p \in 0..len[r] - 1 : target[r][p] = At(r, p)
  /\ \A p \in 0..len[r] - accept[r] - 1 : draft[r][p] = Entry(At(r, p + 1), At(r, p))

\* The draft input is of the last committed token, and the proposal it carries
\* is the one its token was drawn from.
Seeded(r) ==
  /\ seed[r].q = seed[r].tok
  /\ pc # "extend" /\ r \in Ready => seed[r].row = Entry(At(r, len[r]), At(r, len[r] - 1))

\* A forward under way.
Underway(r) ==
  /\ pc = "verify" /\ cand[r] # <<>> =>
       /\ cand[r][1] = At(r, len[r]) /\ len[r] + steps + 1 <= MaxLen
       /\ probs.in \in {"own", "stack"}
       /\ \A i \in 1..steps : Proposals(r) # <<>> /\ Proposals(r)[i] = cand[r][i + 1]
  /\ pc = "extend" /\ cand[r] # <<>> =>
       /\ WindowAccepted(r)
       /\ \A i \in 1..steps : handed[r] # <<>> /\ handed[r][i] = cand[r][i + 1]

RowInv(r) == Standing(r) /\ Committed(r) /\ Seeded(r) /\ Underway(r)

Shape ==
  /\ out \in [Rows -> Seq(Tokens)] /\ len \in [Rows -> 0..MaxLen]
  /\ target \in [Rows -> [Positions -> Tokens]]
  /\ draft \in [Rows -> [Positions -> Entries]]
  /\ seed \in [Rows -> [row : Entries, tok : Tokens, q : Tokens]]
  /\ pc \in {"schedule", "verify", "extend"} /\ steps \in StepChoices \cup {0}
  /\ cand \in [Rows -> Seq(Tokens)] /\ predict \in [Rows -> Seq(Tokens)]
  /\ accept \in [Rows -> Nat]
  /\ clock \in 1..MaxClock /\ (pc # "schedule" => clock < MaxClock)

IInv == Shape /\ \A r \in Rows : RowInv(r)

-----------------------------------------------------------------------------
(* Lemmas.                                                                 *)

\* The largest step count bounds all of them.
LEMMA Sizes ==
  /\ MaxSteps \in StepChoices /\ MaxSteps \in Nat
  /\ \A k \in StepChoices : k \in 0..MaxSteps
  /\ MaxLen \in Nat /\ MaxPrompt \in Nat \ {0} /\ MaxClock \in Nat \ {0}
  /\ Rows \subseteq Nat
  /\ \A p \in 0..MaxLen + MaxSteps + 1 : p \in Positions
<1>1. MaxSteps \in StepChoices /\ \A j \in StepChoices : j <= MaxSteps
  BY SpecLoopAssumption DEF MaxSteps
<1>2. \A k \in StepChoices : k \in Nat BY SpecLoopAssumption
<1> QED BY <1>1, <1>2, SpecLoopAssumption DEF Positions

\* Names of tokens.
LEMMA TokenType ==
  ASSUME clock \in 1..MaxClock, NEW r \in Rows, NEW i \in 0..MaxPrompt + MaxSteps + 1
  PROVE  /\ Token("prompt", r, i) \in Tokens /\ Token("target", r, i) \in Tokens
         /\ Token("draft", r, i) \in Tokens
         /\ Token("draft", r, i) # NoToken
BY Sizes DEF Token, Tokens, NoToken

LEMMA NoTokenType == NoToken \in Tokens /\ NoEntry \in Entries
BY Sizes DEF NoToken, NoEntry, Entry, Entries, Tokens

\* Entries are equal when their parts are.
LEMMA EntryParts ==
  \A a, b \in Tokens : Entry(a, b) \in Entries /\ Entry(a, b).next = a /\ Entry(a, b).hid = b
BY DEF Entry, Entries

\* A draft input drawn from a token is not the empty one.
LEMMA SeedType ==
  \A e \in Entries, t \in Tokens :
    /\ Seed(e, t) \in [row : Entries, tok : Tokens, q : Tokens]
    /\ Seed(e, t).row = e /\ Seed(e, t).tok = t /\ Seed(e, t).q = t
    /\ t # NoToken => Seed(e, t) # NoSeed
BY DEF Seed, NoSeed

LEMMA NoSeedType == NoSeed \in [row : Entries, tok : Tokens, q : Tokens] /\ NoSeed.q = NoSeed.tok
BY NoTokenType DEF NoSeed

\* A function on 1..k is a sequence.
LEMMA Listed ==
  ASSUME NEW S, NEW k \in Nat, NEW f \in [1..k -> S]
  PROVE  f \in Seq(S) /\ Len(f) = k
<1>1. f \in Seq(S) BY SeqDef
<1>2. Len(f) \in Nat /\ DOMAIN f = 1..Len(f) BY <1>1, LenProperties
<1> QED BY <1>1, <1>2

\* The tokens of a row, by position.
LEMMA AtType ==
  ASSUME Shape, NEW r \in Rows, NEW p \in 0..Len(out[r]) - 1
  PROVE  At(r, p) \in Tokens /\ At(r, p) = out[r][p + 1] /\ p + 1 \in 1..Len(out[r])
<1>1. Len(out[r]) \in Nat BY LenProperties DEF Shape
<1>2. p + 1 \in 1..Len(out[r]) BY <1>1
<1> QED BY <1>2, ElementOfSeq DEF Shape, At

\* Lengths of rows.
LEMMA RowTypes ==
  ASSUME Shape, NEW r \in Rows
  PROVE  /\ out[r] \in Seq(Tokens) /\ Len(out[r]) \in Nat /\ (out[r] = <<>> <=> Len(out[r]) = 0)
         /\ len[r] \in Nat /\ len[r] <= MaxLen /\ accept[r] \in Nat
         /\ cand[r] \in Seq(Tokens) /\ Len(cand[r]) \in Nat /\ (cand[r] = <<>> <=> Len(cand[r]) = 0)
         /\ predict[r] \in Seq(Tokens) /\ Len(predict[r]) \in Nat
         /\ seed[r] \in [row : Entries, tok : Tokens, q : Tokens]
         /\ steps \in 0..MaxSteps /\ steps \in Nat
BY LenProperties, EmptySeq, Sizes DEF Shape

\* A row whose tokens, KV and place in the forward stay.
LEMMA RowUntouched ==
  ASSUME NEW r \in Rows, RowInv(r), steps' = steps, pc' = pc,
         out'[r] = out[r], len'[r] = len[r], target'[r] = target[r], draft'[r] = draft[r],
         seed'[r] = seed[r], cand'[r] = cand[r], predict'[r] = predict[r],
         accept'[r] = accept[r], probs' = probs, handed' = handed, stack' = stack
  PROVE  RowInv(r)'
BY DEF RowInv, Standing, Committed, Seeded, Underway, WindowAccepted, Proposals, At, Ready

LEMMA InitInv == Init => IInv
<1> SUFFICES ASSUME Init PROVE IInv OBVIOUS
<1>1. Shape BY Sizes, NoTokenType, NoSeedType, EmptySeq DEF Init, Shape, None
<1>2. ASSUME NEW r \in Rows PROVE RowInv(r)
  BY Sizes, NoSeedType, EmptySeq
     DEF Init, RowInv, Standing, Committed, Seeded, Underway, None, Ready
<1> QED BY <1>1, <1>2 DEF IInv

-----------------------------------------------------------------------------
(* Rows come and go.                                                       *)

LEMMA AdmitStep ==
  ASSUME IInv, NEW q \in Rows, NEW n \in 1..MaxPrompt, Admit(q, n)
  PROVE  IInv'
<1> DEFINE prompt == [i \in 1..n |-> Token("prompt", q, i)]
<1>1. n \in Nat /\ n <= MaxPrompt BY Sizes
<1>2. prompt \in [1..n -> Tokens]
  <2>1. \A i \in 1..n : i \in 0..MaxPrompt + MaxSteps + 1 BY <1>1, Sizes
  <2> QED BY <2>1, TokenType DEF IInv, Shape
<1>3. prompt \in Seq(Tokens) /\ Len(prompt) = n BY <1>1, <1>2, Listed
<1>4. out' = [out EXCEPT ![q] = prompt] /\ out[q] = <<>> /\ pc = "schedule" BY DEF Admit
<1> HIDE DEF prompt
<1>5. Shape'
  <2>1. out' \in [Rows -> Seq(Tokens)] BY <1>3, <1>4 DEF IInv, Shape
  <2>2. clock' \in 1..MaxClock BY Sizes DEF IInv, Shape, Admit
  <2> QED BY <2>1, <2>2 DEF IInv, Shape, Admit
<1>6. ASSUME NEW r \in Rows PROVE RowInv(r)'
  <2>1. CASE r # q
    BY <1>4, <2>1, RowUntouched DEF IInv, Shape, Admit
  <2>2. CASE r = q
    <3>1. out'[r] = prompt /\ len'[r] = 0 /\ seed'[r] = NoSeed /\ accept'[r] = 0 /\ cand'[r] = <<>>
      BY <1>4, <2>2 DEF IInv, Shape, RowInv, Standing, Admit
    <3>2. out'[r] # <<>> /\ len'[r] < Len(out'[r]) BY <1>1, <1>3, <3>1, EmptySeq
    <3> QED
      BY <1>4, <3>1, <3>2, NoSeedType, Sizes, RowTypes
         DEF IInv, Shape, RowInv, Standing, Committed, Seeded, Underway, Ready, Admit
  <2> QED BY <2>1, <2>2
<1> QED BY <1>5, <1>6 DEF IInv

LEMMA ReleaseStep ==
  ASSUME IInv, NEW q \in Rows, Release(q)
  PROVE  IInv'
<1>1. Shape'
  BY Sizes, NoSeedType, EmptySeq DEF IInv, Shape, Release
<1>2. ASSUME NEW r \in Rows PROVE RowInv(r)'
  <2>1. CASE r # q
    BY <2>1, RowUntouched DEF IInv, Shape, Release
  <2>2. CASE r = q
    <3>1. out'[r] = <<>> /\ len'[r] = 0 /\ seed'[r] = NoSeed /\ accept'[r] = 0 /\ cand'[r] = <<>>
      BY <2>2 DEF IInv, Shape, RowInv, Standing, Release
    <3>2. /\ pc' = "schedule" /\ steps' \in Nat /\ r \notin Ready'
          /\ len'[r] - 1 < 0 /\ len'[r] - accept'[r] - 1 < 0
      BY <3>1, RowTypes DEF IInv, Release, Ready
    <3>3. Standing(r)'
      <4>1. accept'[r] <= len'[r] /\ accept'[r] <= steps' + 1
        <5>1. 0 <= 0 /\ \A n \in Nat : 0 <= n + 1 OBVIOUS
        <5>2. 0 <= steps' + 1 BY <3>2, <5>1
        <5>3. accept'[r] = 0 /\ len'[r] = 0 BY <3>1
        <5> QED BY <5>1, <5>2, <5>3
      <4>2. r \notin Ready' /\ pc' = "schedule" BY <3>2
      <4> QED BY <3>1, <4>1, <4>2 DEF Standing
    <3>4. Committed(r)' BY <3>1, <3>2 DEF Committed
    <3>5. Seeded(r)' /\ Underway(r)' BY <3>1, <3>2, NoSeedType DEF Seeded, Underway
    <3> QED BY <3>3, <3>4, <3>5 DEF RowInv
  <2> QED BY <2>1, <2>2
<1> QED BY <1>1, <1>2 DEF IInv

-----------------------------------------------------------------------------
(* Prefill.                                                                *)

LEMMA PrefillStep ==
  ASSUME IInv, NEW n \in Chunks, Prefill(n)
  PROVE  IInv'
<1> DEFINE R == DOMAIN n
           Given(r) == Token("target", r, 0)
           Rotated(r, p) == IF p = len[r] + n[r] - 1 THEN TailToken(r, n[r], Given(r))
                            ELSE At(r, p + 1)
           Row(r, p) == Entry(Rotated(r, p), At(r, p))
<1>1. R \in SUBSET Rows /\ \A r \in R : n[r] \in 1..MaxPrompt BY DEF Chunks
<1>2. pc = "schedule" /\ clock \in 1..MaxClock /\ clock + 1 <= MaxClock
  BY Sizes DEF IInv, Shape, Prefill
<1>3. \A r \in Rows : Given(r) \in Tokens /\ Token("draft", r, 0) \in Tokens
                      /\ Token("draft", r, 0) # NoToken
  BY <1>2, TokenType, Sizes
\* What a row of the batch is: between its length and its tokens' end.
<1>4. ASSUME NEW r \in R
      PROVE  /\ n[r] \in Nat \ {0} /\ len[r] + n[r] <= Len(out[r]) /\ len[r] + n[r] <= MaxLen
             /\ \A p \in len[r]..len[r] + n[r] - 1 :
                  /\ At(r, p) \in Tokens /\ Rotated(r, p) \in Tokens /\ Row(r, p) \in Entries
                  /\ Row(r, p).next = Rotated(r, p) /\ Row(r, p).hid = At(r, p)
  <2>1. n[r] \in Nat \ {0} /\ len[r] + n[r] <= Len(out[r]) /\ len[r] + n[r] <= MaxLen
    BY <1>1, <1>4, Sizes DEF Prefill
  <2>2. r \in Rows /\ len[r] \in Nat /\ Len(out[r]) \in Nat BY <1>1, RowTypes DEF IInv
  <2>3. ASSUME NEW p \in len[r]..len[r] + n[r] - 1
        PROVE  At(r, p) \in Tokens /\ Rotated(r, p) \in Tokens
    <3>1. At(r, p) \in Tokens
      <4>1. p \in 0..Len(out[r]) - 1 BY <2>1, <2>2
      <4> QED BY <2>2, <4>1, AtType DEF IInv
    <3>2. CASE p = len[r] + n[r] - 1
      <4>1. CASE len[r] + n[r] < Len(out[r])
        <5>1. len[r] + n[r] \in 0..Len(out[r]) - 1 BY <2>1, <2>2, <4>1
        <5>2. At(r, len[r] + n[r]) \in Tokens BY <2>2, <5>1, AtType DEF IInv
        <5> QED BY <3>1, <3>2, <4>1, <5>2 DEF TailToken
      <4> QED BY <1>3, <2>2, <3>1, <3>2, <4>1 DEF TailToken
    <3>3. CASE p # len[r] + n[r] - 1
      <4>1. p + 1 \in 0..Len(out[r]) - 1 BY <2>1, <2>2, <3>3
      <4>2. At(r, p + 1) \in Tokens BY <2>2, <4>1, AtType DEF IInv
      <4> QED BY <3>1, <3>3, <4>2
    <3> QED BY <3>2, <3>3
  <2> QED
    <3> HIDE DEF Rotated
    <3> QED BY <2>1, <2>3, EntryParts
<1>5. /\ target' = [r \in Rows |-> IF r \notin R THEN target[r] ELSE
                     [p \in Positions |-> IF p \in len[r]..len[r] + n[r] - 1 THEN At(r, p) ELSE target[r][p]]]
      /\ draft' = [r \in Rows |-> IF r \notin R THEN draft[r] ELSE
                     [p \in Positions |-> IF p \in len[r]..len[r] + n[r] - 1 THEN Row(r, p) ELSE draft[r][p]]]
      /\ len' = [r \in Rows |-> IF r \in R THEN len[r] + n[r] ELSE len[r]]
      /\ out' = [r \in Rows |-> IF r \in R /\ Done(r, n[r]) THEN Append(out[r], Given(r)) ELSE out[r]]
      /\ seed' = [r \in Rows |-> IF r \in R /\ Done(r, n[r])
                    THEN Seed(Row(r, len[r] + n[r] - 1), Token("draft", r, 0)) ELSE seed[r]]
      /\ clock' = clock + 1
      /\ UNCHANGED <<pc, steps, cand, predict, accept, probs, handed, stack>>
  BY DEF Prefill
<1>6. \A r \in R : len[r] + n[r] - 1 \in len[r]..len[r] + n[r] - 1
  BY <1>1, <1>4, RowTypes DEF IInv
<1> HIDE DEF Row, Rotated, Given, R
<1>7. Shape'
  <2>1. len' \in [Rows -> 0..MaxLen]
    <3>1. ASSUME NEW r \in Rows PROVE (IF r \in R THEN len[r] + n[r] ELSE len[r]) \in 0..MaxLen
      <4>1. r \in R => len[r] + n[r] <= MaxLen /\ n[r] \in Nat BY <1>4
      <4>2. len[r] \in Nat /\ len[r] <= MaxLen BY RowTypes DEF IInv
      <4> QED BY <4>1, <4>2, Sizes
    <3> QED BY <1>5, <3>1
  <2>2. out' \in [Rows -> Seq(Tokens)]
    <3>1. \A r \in Rows : Append(out[r], Given(r)) \in Seq(Tokens)
      BY <1>3, AppendProperties DEF IInv, Shape
    <3> QED BY <1>5, <3>1 DEF IInv, Shape
  <2>3. target' \in [Rows -> [Positions -> Tokens]]
    <3>1. ASSUME NEW r \in R, NEW p \in Positions
          PROVE (IF p \in len[r]..len[r] + n[r] - 1 THEN At(r, p) ELSE target[r][p]) \in Tokens
      BY <1>1, <1>4 DEF IInv, Shape
    <3> QED BY <1>5, <3>1 DEF IInv, Shape
  <2>4. draft' \in [Rows -> [Positions -> Entries]]
    <3>1. ASSUME NEW r \in R, NEW p \in Positions
          PROVE (IF p \in len[r]..len[r] + n[r] - 1 THEN Row(r, p) ELSE draft[r][p]) \in Entries
      BY <1>1, <1>4 DEF IInv, Shape
    <3> QED BY <1>5, <3>1 DEF IInv, Shape
  <2>5. seed' \in [Rows -> [row : Entries, tok : Tokens, q : Tokens]]
    <3>1. ASSUME NEW r \in R
          PROVE  Seed(Row(r, len[r] + n[r] - 1), Token("draft", r, 0))
                   \in [row : Entries, tok : Tokens, q : Tokens]
      BY <1>1, <1>3, <1>4, <1>6, SeedType
    <3> QED BY <1>5, <3>1 DEF IInv, Shape
  <2>6. clock' \in 1..MaxClock BY <1>2, <1>5, Sizes
  <2> QED BY <1>2, <1>5, <2>1, <2>2, <2>3, <2>4, <2>5, <2>6 DEF IInv, Shape
<1>8. ASSUME NEW r \in Rows PROVE RowInv(r)'
  <2>0. /\ RowInv(r) /\ accept[r] = 0 /\ cand[r] = <<>> /\ len[r] \in Nat /\ Len(out[r]) \in Nat
        /\ out[r] \in Seq(Tokens)
    BY <1>2, RowTypes DEF IInv, RowInv, Standing
  <2>1. CASE r \notin R
    BY <1>5, <2>0, <2>1, RowUntouched
  <2>2. CASE r \in R
    <3>1. /\ n[r] \in Nat \ {0} /\ len[r] + n[r] <= Len(out[r]) /\ len[r] + n[r] <= MaxLen
          /\ len'[r] = len[r] + n[r]
      BY <1>4, <1>5, <2>2
    <3>a. /\ (Done(r, n[r]) <=> len[r] + n[r] = Len(out[r]))
          /\ (~Done(r, n[r]) => len[r] + n[r] < Len(out[r]))
      <4> DEFINE l == len[r]
                 m == n[r]
                 L == Len(out[r])
      <4>1. l \in Nat /\ m \in Nat /\ L \in Nat /\ l + m <= L BY <2>0, <3>1
      <4>2. Done(r, n[r]) <=> l + m = L BY DEF Done
      <4> HIDE DEF l, m, L
      <4>3. ~(l + m = L) => l + m < L BY <4>1
      <4> QED BY <4>2, <4>3 DEF l, m, L
    \* A token stays where it was.
    <3> DEFINE New(p) == out'[r][p + 1]
    <3>2. \A p \in 0..Len(out[r]) - 1 : New(p) = At(r, p)
      <4>1. CASE Done(r, n[r])
        <5>1. out'[r] = Append(out[r], Given(r)) BY <1>5, <2>2, <4>1
        <5>2. \A i \in 1..Len(out[r]) : Append(out[r], Given(r))[i] = out[r][i]
          BY <1>3, <2>0, AppendProperties
        <5>3. \A p \in 0..Len(out[r]) - 1 : p + 1 \in 1..Len(out[r]) BY <2>0
        <5> QED BY <5>1, <5>2, <5>3 DEF At
      <4>2. CASE ~Done(r, n[r])
        BY <1>5, <2>2, <4>2 DEF At
      <4> QED BY <4>1, <4>2
    <3>3. Done(r, n[r]) => /\ Len(out'[r]) = Len(out[r]) + 1 /\ len[r] + n[r] = Len(out[r])
                           /\ New(len[r] + n[r]) = Given(r) /\ out'[r] # <<>>
      <4>1. ASSUME Done(r, n[r])
            PROVE  /\ Len(out'[r]) = Len(out[r]) + 1 /\ len[r] + n[r] = Len(out[r])
                   /\ New(Len(out[r])) = Given(r) /\ out'[r] # <<>>
        <5>1. out'[r] = Append(out[r], Given(r)) BY <1>5, <2>2, <4>1
        <5> QED BY <1>3, <2>0, <3>a, <4>1, <5>1, AppendProperties
      <4> HIDE DEF New
      <4> QED BY <4>1
    <3>4. ~Done(r, n[r]) => out'[r] = out[r] /\ seed'[r] = seed[r] /\ len[r] + n[r] < Len(out[r])
      <4>1. ~Done(r, n[r]) => out'[r] = out[r] /\ seed'[r] = seed[r] BY <1>5, <2>2
      <4> QED BY <3>a, <4>1
    <3>5. r \in Ready => Done(r, n[r])
      BY <2>0, <3>1 DEF RowInv, Standing, Done
    <3>6. /\ Done(r, n[r]) => r \in Ready'
          /\ ~Done(r, n[r]) => r \notin Ready'
          /\ Done(r, n[r]) => seed'[r].row = Row(r, len[r] + n[r] - 1)
          /\ seed'[r].q = seed'[r].tok
      <4>1. CASE Done(r, n[r])
        <5>1. seed'[r] = Seed(Row(r, len[r] + n[r] - 1), Token("draft", r, 0))
          BY <1>5, <2>2, <4>1
        <5>2. Row(r, len[r] + n[r] - 1) \in Entries BY <1>4, <1>6, <2>2
        <5> QED BY <1>3, <4>1, <5>1, <5>2, SeedType DEF Ready
      <4>2. CASE ~Done(r, n[r])
        BY <2>0, <3>4, <3>5, <4>2 DEF Ready, RowInv, Seeded
      <4> QED BY <4>1, <4>2
    \* The row computed last is the one the next draft starts from.
    <3>7. \A p \in len[r]..len[r] + n[r] - 1 :
            Row(r, p) = Entry(New(p + 1), New(p))
      <4>1. ASSUME NEW p \in len[r]..len[r] + n[r] - 1
            PROVE  Row(r, p) = Entry(New(p + 1), New(p))
        <5>1. New(p) = At(r, p) BY <2>0, <3>1, <3>2
        <5>2. Rotated(r, p) = New(p + 1)
          <6>1. CASE p # len[r] + n[r] - 1
            <7>1. p + 1 \in 0..Len(out[r]) - 1
              <8> DEFINE l == len[r]
                         m == n[r]
                         L == Len(out[r])
              <8>1. l \in Nat /\ m \in Nat /\ L \in Nat /\ l + m <= L BY <2>0, <3>1
              <8>2. p \in l..l + m - 1 /\ p # l + m - 1 BY <6>1
              <8> HIDE DEF l, m, L
              <8>3. p + 1 \in 0..L - 1 BY <8>1, <8>2
              <8> QED BY <8>3 DEF L
            <7>2. At(r, p + 1) = New(p + 1) BY <3>2, <7>1
            <7> QED BY <6>1, <7>2 DEF Rotated
          <6>2. CASE p = len[r] + n[r] - 1 /\ Done(r, n[r])
            <7>1. p + 1 = len[r] + n[r] /\ len[r] + n[r] = Len(out[r]) /\ ~(len[r] + n[r] < Len(out[r]))
              <8> DEFINE l == len[r]
                         m == n[r]
                         L == Len(out[r])
              <8>1. l \in Nat /\ m \in Nat /\ L \in Nat BY <2>0, <3>1
              <8>2. p = l + m - 1 /\ l + m = L BY <3>a, <6>2
              <8> HIDE DEF l, m, L
              <8>3. p + 1 = l + m /\ l + m = L /\ ~(l + m < L) BY <8>1, <8>2
              <8> QED BY <8>3 DEF l, m, L
            <7>2. New(p + 1) = Given(r) BY <3>3, <6>2, <7>1
            <7> QED BY <6>2, <7>1, <7>2 DEF Rotated, TailToken
          <6>3. CASE p = len[r] + n[r] - 1 /\ ~Done(r, n[r])
            <7>1. p + 1 = len[r] + n[r] /\ len[r] + n[r] < Len(out[r]) BY <2>0, <3>1, <3>4, <6>3
            <7>2. p + 1 \in 0..Len(out[r]) - 1 BY <2>0, <3>1, <7>1
            <7>3. At(r, p + 1) = New(p + 1) BY <3>2, <7>2
            <7> QED BY <6>3, <7>1, <7>3 DEF Rotated, TailToken
          <6> QED BY <6>1, <6>2, <6>3
        <5> QED BY <5>1, <5>2 DEF Row
      <4> QED BY <4>1
    <3>8. Standing(r)'
      <4>1. cand'[r] = <<>> /\ accept'[r] = 0 /\ pc' = "schedule" /\ steps' \in Nat
        BY <1>2, <1>5, <2>0, RowTypes DEF IInv
      <4>2. out'[r] # <<>> /\ len'[r] < Len(out'[r]) /\ len'[r] > 0
        <5>1. CASE Done(r, n[r]) BY <2>0, <3>1, <3>3, <5>1
        <5>2. CASE ~Done(r, n[r])
          <6>1. out[r] # <<>> BY <2>0, <3>1, <3>4, <5>2, EmptySeq
          <6> QED BY <2>0, <3>1, <3>4, <5>2, <6>1
        <5> QED BY <5>1, <5>2
      <4>3. r \in Ready' => len'[r] + 1 = Len(out'[r])
        BY <2>0, <3>1, <3>3, <3>6
      <4>4. accept'[r] <= len'[r] /\ accept'[r] <= steps' + 1
        <5>1. \A i \in Nat : 0 <= i /\ 0 <= i + 1 OBVIOUS
        <5>2. len'[r] \in Nat BY <2>0, <3>1
        <5>3. 0 <= len'[r] /\ 0 <= steps' + 1 BY <4>1, <5>1, <5>2
        <5> QED BY <4>1, <5>3
      <4> HIDE DEF New
      <4> QED BY <4>1, <4>2, <4>3, <4>4 DEF Standing
    <3>9. Committed(r)'
      <4>1. ASSUME NEW p \in 0..len[r] + n[r] - 1
            PROVE  target'[r][p] = New(p) /\ draft'[r][p] = Entry(New(p + 1), New(p))
        <5>1. p \in Positions BY <2>0, <3>1, Sizes
        <5>2. CASE p < len[r]
          <6>1. p \in 0..len[r] - 1 /\ p \in 0..Len(out[r]) - 1 /\ p + 1 \in 0..Len(out[r]) - 1
            BY <2>0, <3>1, <5>2
          <6>2. target[r][p] = At(r, p) /\ draft[r][p] = Entry(At(r, p + 1), At(r, p))
            BY <2>0, <6>1 DEF RowInv, Committed
          <6>3. target'[r][p] = target[r][p] /\ draft'[r][p] = draft[r][p]
            BY <1>5, <2>0, <2>2, <3>1, <5>1, <5>2
          <6> QED BY <3>2, <6>1, <6>2, <6>3
        <5>3. CASE p >= len[r]
          <6>1. p \in len[r]..len[r] + n[r] - 1 /\ p \in 0..Len(out[r]) - 1 BY <2>0, <3>1, <5>3
          <6>2. target'[r][p] = At(r, p) /\ draft'[r][p] = Row(r, p)
            BY <1>5, <2>2, <5>1, <6>1
          <6> QED BY <3>2, <3>7, <6>1, <6>2
        <5> QED BY <2>0, <3>1, <5>2, <5>3
      <4>2. accept'[r] = 0 BY <1>5, <2>0
      <4>3. len'[r] - accept'[r] - 1 = len[r] + n[r] - 1 BY <2>0, <3>1, <4>2
      <4>4. /\ \A p \in 0..len'[r] - 1 : target'[r][p] = New(p)
            /\ \A p \in 0..len'[r] - accept'[r] - 1 : draft'[r][p] = Entry(New(p + 1), New(p))
        <5> HIDE DEF New
        <5>1. len'[r] - 1 = len[r] + n[r] - 1 BY <2>0, <3>1
        <5>2. \A p \in 0..len'[r] - 1 : p \in 0..len[r] + n[r] - 1 BY <5>1
        <5>3. \A p \in 0..len'[r] - accept'[r] - 1 : p \in 0..len[r] + n[r] - 1 BY <4>3
        <5> QED BY <4>1, <5>2, <5>3
      <4> QED BY <4>4 DEF Committed, At, Entry
    <3>10. Seeded(r)'
      <4>1. ASSUME r \in Ready'
            PROVE  seed'[r].row = Entry(New(len[r] + n[r]), New(len[r] + n[r] - 1))
        <5>1. seed'[r].row = Row(r, len[r] + n[r] - 1) BY <3>6, <4>1
        <5>2. len[r] + n[r] - 1 + 1 = len[r] + n[r] BY <2>0, <3>1
        <5>3. len[r] + n[r] - 1 \in len[r]..len[r] + n[r] - 1 BY <2>0, <3>1
        <5>4. Row(r, len[r] + n[r] - 1) = Entry(New(len[r] + n[r] - 1 + 1), New(len[r] + n[r] - 1))
          <6> HIDE DEF New
          <6> QED BY <3>7, <5>3
        <5> QED BY <5>1, <5>2, <5>4
      <4>2. r \in Ready' => seed'[r].row = Entry(New(len'[r]), New(len'[r] - 1))
        <5> HIDE DEF New
        <5>1. len'[r] = len[r] + n[r] /\ len'[r] - 1 = len[r] + n[r] - 1 BY <2>0, <3>1
        <5> QED BY <4>1, <5>1
      <4> QED BY <3>6, <4>2 DEF Seeded, At, Entry
    <3>11. Underway(r)'
      BY <1>2, <1>5, <2>0 DEF Underway
    <3> QED BY <3>8, <3>9, <3>10, <3>11 DEF RowInv
  <2> QED BY <2>1, <2>2
<1> QED BY <1>7, <1>8 DEF IInv

-----------------------------------------------------------------------------
(* Drafting.                                                               *)

\* A row that is ready has a last token; the rows of a batch are the ready ones.
LEMMA ReadyRow ==
  ASSUME IInv, NEW r \in Rows, r \in Ready
  PROVE  /\ len[r] \in Nat \ {0} /\ len[r] + 1 = Len(out[r])
         /\ At(r, len[r]) \in Tokens /\ At(r, len[r] - 1) \in Tokens
         /\ seed[r].tok \in Tokens /\ seed[r].q \in Tokens /\ seed[r].row \in Entries
<1>1. len[r] \in Nat \ {0} /\ len[r] + 1 = Len(out[r]) /\ Len(out[r]) \in Nat
  BY RowTypes DEF IInv, RowInv, Standing
<1>2. len[r] \in 0..Len(out[r]) - 1 /\ len[r] - 1 \in 0..Len(out[r]) - 1 BY <1>1
<1>3. seed[r] \in [row : Entries, tok : Tokens, q : Tokens] BY RowTypes DEF IInv
<1> QED BY <1>1, <1>2, <1>3, AtType DEF IInv

LEMMA TrivialStep ==
  ASSUME IInv, NEW k \in StepChoices, Trivial(k)
  PROVE  IInv'
<1>1. /\ pc = "schedule" /\ pc' = "verify" /\ steps' = 0
      /\ cand' = [r \in Rows |-> IF r \in Ready THEN <<At(r, len[r])>> ELSE <<>>]
      /\ probs' = Own(None)
      /\ UNCHANGED <<out, len, target, draft, seed, predict, accept, handed, stack, clock>>
      /\ \A r \in Ready : len[r] + 1 <= MaxLen
      /\ clock < MaxClock
  BY DEF Trivial
<1>2. \A r \in Ready : r \in Rows BY DEF Ready
<1>3. ASSUME NEW t \in Tokens PROVE <<t>> \in Seq(Tokens) /\ Len(<<t>>) = 1 /\ <<t>>[1] = t /\ <<t>> # <<>>
  OBVIOUS
<1>4. Shape'
  <2>1. cand' \in [Rows -> Seq(Tokens)]
    <3>1. \A r \in Ready : <<At(r, len[r])>> \in Seq(Tokens) BY <1>2, <1>3, ReadyRow
    <3> QED BY <1>1, <3>1, EmptySeq
  <2> QED BY <1>1, <2>1 DEF IInv, Shape
<1>5. ASSUME NEW r \in Rows PROVE RowInv(r)'
  <2>1. RowInv(r) /\ accept[r] = 0 /\ cand[r] = <<>> /\ len[r] \in Nat
    BY <1>1, RowTypes DEF IInv, RowInv, Standing
  <2>2. /\ cand'[r] = IF r \in Ready THEN <<At(r, len[r])>> ELSE <<>>
        /\ Ready' = Ready /\ \A p : At(r, p)' = At(r, p)
    BY <1>1 DEF Ready, At
  <2>3. r \in Ready => cand'[r] # <<>> /\ Len(cand'[r]) = 1 /\ cand'[r][1] = At(r, len[r])
    BY <1>2, <1>3, <2>2, ReadyRow
  <2>4. r \notin Ready => cand'[r] = <<>> BY <2>2
  <2>5. Standing(r)'
    BY <1>1, <2>1, <2>2, <2>3, <2>4 DEF RowInv, Standing
  <2>6. Committed(r)'
    BY <1>1, <2>1 DEF RowInv, Committed, At
  <2>7. Seeded(r)'
    BY <1>1, <2>1, <2>2 DEF RowInv, Seeded, At
  <2>8. Underway(r)'
    <3>1. probs'.in = "own" BY <1>1 DEF Own
    <3>2. cand'[r] # <<>> => /\ cand'[r][1] = out'[r][len'[r] + 1] /\ len'[r] + steps' + 1 <= MaxLen
      BY <1>1, <2>1, <2>3, <2>4 DEF At
    <3>3. 1..steps' = {} BY <1>1
    <3> QED BY <1>1, <3>1, <3>2, <3>3 DEF Underway, At
  <2> QED BY <2>5, <2>6, <2>7, <2>8 DEF RowInv
<1> QED BY <1>4, <1>5 DEF IInv

LEMMA DraftStep ==
  ASSUME IInv, NEW k \in StepChoices, NEW graph \in BOOLEAN, Draft(k, graph)
  PROVE  IInv'
<1> DEFINE Val(r) == [Chain(r, k) EXCEPT ![1] = seed[r].q]
           val == [r \in Rows |-> IF r \in Ready THEN Val(r) ELSE <<>>]
           Guess(r, i) == Entry(Chain(r, k)[i + 1], IF i = 0 THEN seed[r].row.hid ELSE NoToken)
<1>1. /\ pc = "schedule" /\ pc' = "verify" /\ steps' = k /\ k > 0
      /\ cand' = [r \in Rows |-> IF r \in Ready THEN <<At(r, len[r])>> \o Chain(r, k) ELSE <<>>]
      /\ probs' = IF graph THEN Boundary(k, val) ELSE Own(val)
      /\ stack' = IF graph /\ k = StackSteps THEN val ELSE stack
      /\ draft' = [r \in Rows |-> IF r \notin Ready THEN draft[r] ELSE
                 [p \in Positions |-> IF p - len[r] \in 0..k - 2
                                      THEN Guess(r, p - len[r]) ELSE draft[r][p]]]
      /\ UNCHANGED <<out, len, target, seed, predict, accept, handed, clock>>
      /\ \A r \in Ready : len[r] + k + 1 <= MaxLen
      /\ clock < MaxClock
  BY DEF Draft
<1>2. /\ \A r \in Ready : r \in Rows
      /\ k \in Nat \ {0} /\ k <= MaxSteps /\ clock \in 1..MaxClock
      /\ MaxPrompt \in Nat /\ MaxSteps \in Nat
  BY <1>1, Sizes DEF Ready, IInv, Shape
<1>3. ASSUME NEW r \in Ready
      PROVE  /\ Chain(r, k) \in [1..k -> Tokens] /\ Chain(r, k) \in Seq(Tokens) /\ Len(Chain(r, k)) = k
             /\ \A i \in 1..k : Val(r)[i] = Chain(r, k)[i]
             /\ Val(r) # <<>>
  <2>1. Chain(r, k) \in [1..k -> Tokens]
    <3>1. ASSUME NEW i \in 1..k PROVE (IF i = 1 THEN seed[r].tok ELSE Token("draft", r, i - 1)) \in Tokens
      <4>1. i - 1 \in 0..MaxPrompt + MaxSteps + 1 BY <1>2
      <4> QED BY <1>2, <4>1, TokenType, ReadyRow
    <3> QED BY <3>1 DEF Chain
  <2>2. Chain(r, k) \in Seq(Tokens) /\ Len(Chain(r, k)) = k BY <1>2, <2>1, Listed
  <2>3. 1 \in 1..k /\ Chain(r, k)[1] = seed[r].tok /\ seed[r].q = seed[r].tok
    BY <1>2 DEF Chain, IInv, RowInv, Seeded
  <2>4. \A i \in 1..k : Val(r)[i] = Chain(r, k)[i] BY <2>1, <2>3
  <2>5. Val(r) \in [1..k -> Tokens] BY <2>1, <2>3
  <2>6. Len(Val(r)) = k BY <1>2, <2>5, Listed
  <2> QED BY <1>2, <2>1, <2>2, <2>4, <2>6, EmptySeq
<1>4. ASSUME NEW r \in Ready
      PROVE  LET c == <<At(r, len[r])>> \o Chain(r, k) IN
             /\ c \in Seq(Tokens) /\ Len(c) = k + 1 /\ c # <<>> /\ c[1] = At(r, len[r])
             /\ \A i \in 1..k : c[i + 1] = Chain(r, k)[i]
  <2>1. <<At(r, len[r])>> \in Seq(Tokens) /\ Len(<<At(r, len[r])>>) = 1
        /\ <<At(r, len[r])>>[1] = At(r, len[r])
    BY <1>2, ReadyRow
  <2> DEFINE c == <<At(r, len[r])>> \o Chain(r, k)
  <2>2. /\ c \in Seq(Tokens) /\ Len(c) = k + 1
        /\ \A i \in 1..k + 1 : c[i] = IF i <= 1 THEN <<At(r, len[r])>>[i] ELSE Chain(r, k)[i - 1]
    BY <1>2, <1>3, <2>1, ConcatProperties
  <2> HIDE DEF c
  <2>3. \A i \in 1..k : i + 1 \in 1..k + 1 /\ ~(i + 1 <= 1) /\ i + 1 - 1 = i BY <1>2
  <2>4. 1 \in 1..k + 1 BY <1>2
  <2> QED BY <1>2, <2>1, <2>2, <2>3, <2>4, EmptySeq DEF c
<1>5. ASSUME NEW r \in Ready, NEW i \in 0..k - 2 PROVE Guess(r, i) \in Entries
  <2>1. i + 1 \in 1..k BY <1>2
  <2>2. seed[r].row.hid \in Tokens BY <1>2, ReadyRow DEF Entries
  <2> QED BY <1>3, <2>1, <2>2, NoTokenType, EntryParts
<1> HIDE DEF Guess, Val
<1>6. Shape'
  <2>1. cand' \in [Rows -> Seq(Tokens)] BY <1>1, <1>4, EmptySeq
  <2>2. draft' \in [Rows -> [Positions -> Entries]]
    <3>1. ASSUME NEW r \in Ready, NEW p \in Positions
          PROVE (IF p - len[r] \in 0..k - 2 THEN Guess(r, p - len[r]) ELSE draft[r][p]) \in Entries
      BY <1>2, <1>5 DEF IInv, Shape
    <3> QED BY <1>1, <3>1 DEF IInv, Shape
  <2> QED BY <1>1, <2>1, <2>2 DEF IInv, Shape
<1>7. ASSUME NEW r \in Rows PROVE RowInv(r)'
  <2>1. RowInv(r) /\ accept[r] = 0 /\ cand[r] = <<>> /\ len[r] \in Nat
    BY <1>1, RowTypes DEF IInv, RowInv, Standing
  <2>2. Ready' = Ready BY <1>1 DEF Ready
  <2>3. /\ r \in Ready => /\ cand'[r] # <<>> /\ Len(cand'[r]) = k + 1 /\ cand'[r][1] = At(r, len[r])
                          /\ \A i \in 1..k : cand'[r][i + 1] = Chain(r, k)[i]
        /\ r \notin Ready => cand'[r] = <<>>
    BY <1>1, <1>4
  <2>4. Standing(r)'
    BY <1>1, <1>2, <2>1, <2>2, <2>3 DEF RowInv, Standing
  <2>5. Committed(r)'
    <3>1. ASSUME NEW p \in 0..len[r] - 1 PROVE draft'[r][p] = draft[r][p]
      <4>1. p \in Positions
        <5>1. len[r] <= MaxLen BY RowTypes DEF IInv
        <5> QED BY <2>1, <5>1, Sizes
      <4>2. p - len[r] \notin 0..k - 2 BY <2>1
      <4> QED BY <1>1, <4>1, <4>2
    <3>2. len'[r] - accept'[r] - 1 = len[r] - 1 BY <1>1, <2>1
    <3>3. len[r] - accept[r] - 1 = len[r] - 1 BY <2>1
    <3>4. \A p \in 0..len[r] - 1 : target[r][p] = At(r, p) /\ draft[r][p] = Entry(At(r, p + 1), At(r, p))
      BY <2>1, <3>3 DEF RowInv, Committed
    <3> QED BY <1>1, <3>1, <3>2, <3>4 DEF Committed, At
  <2>6. Seeded(r)'
    BY <1>1, <2>1, <2>2 DEF RowInv, Seeded, At
  <2>7. Underway(r)'
    <3>1. ASSUME r \in Ready
          PROVE  /\ cand'[r][1] = out'[r][len'[r] + 1] /\ len'[r] + steps' + 1 <= MaxLen
                 /\ probs'.in \in {"own", "stack"} /\ Proposals(r)' = Val(r)
      <4>1. CASE graph /\ k = StackSteps
        <5>1. probs' = [in |-> "stack", val |-> None] /\ stack' = val BY <1>1, <4>1 DEF Boundary
        <5> QED BY <1>1, <2>3, <3>1, <5>1 DEF Proposals, At
      <4>2. CASE ~(graph /\ k = StackSteps)
        <5>1. probs' = [in |-> "own", val |-> val] BY <1>1, <4>2 DEF Boundary, Own
        <5> QED BY <1>1, <2>3, <3>1, <5>1 DEF Proposals, At
      <4> QED BY <4>1, <4>2
    <3>2. ASSUME r \in Ready, NEW i \in 1..k
          PROVE  Proposals(r)' # <<>> /\ Proposals(r)'[i] = cand'[r][i + 1]
      BY <1>3, <2>3, <3>1, <3>2
    <3> QED BY <1>1, <2>3, <3>1, <3>2 DEF Underway, At
  <2> QED BY <2>4, <2>5, <2>6, <2>7 DEF RowInv
<1> QED BY <1>6, <1>7 DEF IInv

-----------------------------------------------------------------------------
(* Verification and the draft extend.                                      *)

\* Between a draft and its verify, the batch is the ready rows.
LEMMA BatchRow ==
  ASSUME IInv, NEW r \in Rows, pc # "schedule"
  PROVE  /\ r \in Batch <=> r \in Ready
         /\ r \notin Batch => cand[r] = <<>> /\ accept[r] = 0
         /\ r \in Batch => /\ cand[r] # <<>> /\ Len(cand[r]) = steps + 1
                           /\ \A j \in 0..steps : j + 1 \in 1..steps + 1 /\ cand[r][j + 1] \in Tokens
<1>1. Standing(r) BY DEF IInv, RowInv
<1>2. r \in Batch <=> cand[r] # <<>> BY DEF Batch
<1>3. steps \in Nat /\ cand[r] \in Seq(Tokens) BY RowTypes DEF IInv
<1>4. ASSUME r \in Batch, NEW j \in 0..steps
      PROVE  j + 1 \in 1..steps + 1 /\ cand[r][j + 1] \in Tokens
  <2>1. j + 1 \in 1..steps + 1 BY <1>3
  <2>2. Len(cand[r]) = steps + 1 BY <1>1, <1>2, <1>4 DEF Standing
  <2> QED BY <1>3, <2>1, <2>2, ElementOfSeq
<1> QED BY <1>1, <1>2, <1>4 DEF Standing

LEMMA VerifyStep ==
  ASSUME IInv, NEW a \in [Rows -> 0..steps], Verify(a)
  PROVE  IInv'
<1> DEFINE answer(r) == [j \in 1..steps + 1 |->
                           IF j <= a[r] THEN cand[r][j + 1] ELSE Token("target", r, j)]
           Taken(r) == SubSeq(answer(r), 1, a[r] + 1)
           Put(r, p) == cand[r][(CHOOSE j \in 0..steps : p = VerifyLoc(r, j)) + 1]
<1>1. /\ pc = "verify" /\ pc' = "extend"
      /\ target' = [r \in Rows |-> IF r \notin Batch THEN target[r] ELSE
                     [p \in Positions |-> IF \E j \in 0..steps : p = VerifyLoc(r, j)
                                          THEN Put(r, p) ELSE target[r][p]]]
      /\ handed' = CASE probs.in = "stack" -> stack
                     [] probs.in = "pool"  -> pool'
                     [] OTHER              -> probs.val
      /\ predict' = [r \in Rows |-> IF r \in Batch THEN answer(r) ELSE <<>>]
      /\ accept' = [r \in Rows |-> IF r \in Batch THEN a[r] + 1 ELSE 0]
      /\ len' = [r \in Rows |-> IF r \in Batch THEN len[r] + a[r] + 1 ELSE len[r]]
      /\ out' = [r \in Rows |-> IF r \in Batch THEN out[r] \o Taken(r) ELSE out[r]]
      /\ UNCHANGED <<draft, seed, steps, cand, probs, stack, clock>>
  BY DEF Verify
<1>2. steps \in Nat /\ steps <= MaxSteps /\ MaxSteps \in Nat /\ MaxPrompt \in Nat
      /\ MaxLen \in Nat /\ clock \in 1..MaxClock
      /\ (\A r \in Rows : a[r] \in Nat /\ a[r] <= steps)
  <2>1. steps \in 0..MaxSteps /\ steps \in Nat BY Sizes DEF IInv, Shape
  <2> QED BY <2>1, Sizes DEF IInv, Shape
\* What the target answers, and what of it is accepted.
<1>3. ASSUME NEW r \in Batch
      PROVE  /\ answer(r) \in Seq(Tokens) /\ Len(answer(r)) = steps + 1
             /\ Taken(r) \in Seq(Tokens) /\ Len(Taken(r)) = a[r] + 1
             /\ \A j \in 1..a[r] + 1 : Taken(r)[j] = answer(r)[j]
             /\ \A j \in 1..a[r] : answer(r)[j] = cand[r][j + 1]
  <2>0. r \in Rows BY DEF Batch
  <2>1. answer(r) \in [1..steps + 1 -> Tokens]
    <3>1. ASSUME NEW j \in 1..steps + 1
          PROVE (IF j <= a[r] THEN cand[r][j + 1] ELSE Token("target", r, j)) \in Tokens
      <4>1. CASE j <= a[r]
        <5>1. j \in 0..steps BY <1>2, <2>0, <4>1
        <5> QED BY <1>1, <1>3, <2>0, <4>1, <5>1, BatchRow
      <4>2. CASE ~(j <= a[r])
        <5>1. j \in 0..MaxPrompt + MaxSteps + 1 BY <1>2
        <5> QED BY <1>2, <2>0, <4>2, <5>1, TokenType
      <4> QED BY <4>1, <4>2
    <3> QED BY <3>1
  <2>2. \A j \in 1..a[r] : answer(r)[j] = cand[r][j + 1]
    <3>1. \A j \in 1..a[r] : j \in 1..steps + 1 /\ j <= a[r] BY <1>2, <2>0
    <3> QED BY <3>1
  <2> HIDE DEF answer
  <2>3. answer(r) \in Seq(Tokens) /\ Len(answer(r)) = steps + 1 BY <1>2, <2>1, Listed
  <2>4. a[r] + 1 \in 1..steps + 1 BY <1>2, <2>0
  <2>5. /\ Taken(r) \in Seq(Tokens) /\ Len(Taken(r)) = a[r] + 1
        /\ \A j \in 1..a[r] + 1 : Taken(r)[j] = answer(r)[j]
    <3>1. 1 \in Int /\ a[r] + 1 \in Int /\ \A i \in 1..a[r] + 1 : answer(r)[i] \in Tokens
      <4>1. a[r] + 1 \in Int /\ \A i \in 1..a[r] + 1 : i \in 1..Len(answer(r)) BY <1>2, <2>3, <2>4
      <4> QED BY <2>3, <4>1, ElementOfSeq
    <3>2. /\ Taken(r) \in Seq(Tokens)
          /\ Len(Taken(r)) = IF 1 <= a[r] + 1 THEN (a[r] + 1) - 1 + 1 ELSE 0
          /\ \A i \in 1..(a[r] + 1) - 1 + 1 : Taken(r)[i] = answer(r)[1 + i - 1]
      BY <3>1, SubSeqProperties DEF Taken
    <3> DEFINE x == a[r]
    <3>3. x \in Nat BY <1>2, <2>0
    <3>4. 1 <= x + 1 /\ (x + 1) - 1 + 1 = x + 1
      <4> HIDE DEF x
      <4> QED BY <3>3
    <3>5. \A i \in 1..x + 1 : 1 + i - 1 = i OBVIOUS
    <3> QED BY <3>2, <3>4, <3>5
  <2> QED BY <2>2, <2>3, <2>5
<1> HIDE DEF answer, Taken, Put
\* A row of the batch, before the step.
<1>4. ASSUME NEW r \in Batch
      PROVE  /\ r \in Rows /\ r \in Ready /\ len[r] \in Nat \ {0} /\ len[r] + 1 = Len(out[r])
             /\ cand[r] # <<>> /\ Len(cand[r]) = steps + 1 /\ cand[r][1] = At(r, len[r])
             /\ len[r] + steps + 1 <= MaxLen
             /\ a[r] \in Nat /\ a[r] <= steps /\ accept[r] = 0
  <2>1. r \in Rows BY DEF Batch
  <2>2. r \in Ready /\ cand[r] # <<>> /\ Len(cand[r]) = steps + 1 BY <1>1, <1>4, <2>1, BatchRow
  <2> QED BY <1>1, <1>2, <2>1, <2>2, ReadyRow DEF IInv, RowInv, Underway, Standing
<1>5. Shape'
  <2>1. out' \in [Rows -> Seq(Tokens)]
    <3>1. \A r \in Batch : out[r] \o Taken(r) \in Seq(Tokens)
      BY <1>3, <1>4, ConcatProperties, RowTypes DEF IInv
    <3> QED BY <1>1, <3>1 DEF IInv, Shape
  <2>2. len' \in [Rows -> 0..MaxLen]
    <3>1. \A r \in Batch : len[r] + a[r] + 1 \in 0..MaxLen BY <1>2, <1>4
    <3> QED BY <1>1, <3>1 DEF IInv, Shape
  <2>3. target' \in [Rows -> [Positions -> Tokens]]
    <3>1. ASSUME NEW r \in Batch, NEW p \in Positions
          PROVE (IF \E j \in 0..steps : p = VerifyLoc(r, j) THEN Put(r, p) ELSE target[r][p]) \in Tokens
      <4>1. CASE \E j \in 0..steps : p = VerifyLoc(r, j)
        <5>1. (CHOOSE j \in 0..steps : p = VerifyLoc(r, j)) \in 0..steps BY <4>1
        <5> QED BY <1>1, <1>4, <4>1, <5>1, BatchRow DEF Put
      <4>2. CASE ~\E j \in 0..steps : p = VerifyLoc(r, j)
        BY <1>4, <4>2 DEF IInv, Shape
      <4> QED BY <4>1, <4>2
    <3> QED BY <1>1, <3>1 DEF IInv, Shape
  <2>4. predict' \in [Rows -> Seq(Tokens)] BY <1>1, <1>3, EmptySeq
  <2>5. accept' \in [Rows -> Nat]
    <3>1. \A r \in Batch : a[r] + 1 \in Nat BY <1>4
    <3> QED BY <1>1, <3>1
  <2> QED BY <1>1, <2>1, <2>2, <2>3, <2>4, <2>5 DEF IInv, Shape
<1>6. Ready' = Ready BY <1>1 DEF Ready
<1>7. ASSUME NEW r \in Rows PROVE RowInv(r)'
  <2>0. RowInv(r) /\ len[r] \in Nat /\ Len(out[r]) \in Nat /\ out[r] \in Seq(Tokens)
    BY RowTypes DEF IInv
  <2>1. CASE r \notin Batch
    <3>1. /\ cand'[r] = <<>> /\ cand[r] = <<>> /\ accept'[r] = 0 /\ accept[r] = 0
          /\ out'[r] = out[r] /\ len'[r] = len[r] /\ target'[r] = target[r]
          /\ draft'[r] = draft[r] /\ seed'[r] = seed[r] /\ steps' = steps
      BY <1>1, <2>1, BatchRow
    <3>2. Standing(r)' BY <1>1, <1>6, <2>0, <3>1 DEF RowInv, Standing
    <3>3. Committed(r)' BY <2>0, <3>1 DEF RowInv, Committed, At
    <3>4. Seeded(r)' BY <1>1, <2>0, <3>1 DEF RowInv, Seeded
    <3>5. Underway(r)' BY <1>1, <3>1 DEF Underway
    <3> QED BY <3>2, <3>3, <3>4, <3>5 DEF RowInv
  <2>2. CASE r \in Batch
    <3> DEFINE New(p) == out'[r][p + 1]
               x == a[r]
               L == len[r]
    <3>1. /\ L \in Nat \ {0} /\ x \in Nat /\ x <= steps /\ steps \in Nat /\ L + 1 = Len(out[r])
          /\ L + steps + 1 <= MaxLen
      BY <1>2, <1>4, <2>2
    <3>2. /\ len'[r] = L + x + 1 /\ accept'[r] = x + 1 /\ steps' = steps
          /\ out'[r] = out[r] \o Taken(r) /\ cand'[r] = cand[r] /\ predict'[r] = answer(r)
          /\ draft'[r] = draft[r] /\ seed'[r] = seed[r] /\ pc' = "extend"
      BY <1>1, <2>2
    <3>3. /\ Len(out'[r]) = L + 1 + (x + 1)
          /\ \A i \in 1..L + 1 + (x + 1) :
               out'[r][i] = IF i <= L + 1 THEN out[r][i] ELSE Taken(r)[i - (L + 1)]
      <4>1. Taken(r) \in Seq(Tokens) /\ Len(Taken(r)) = x + 1 BY <1>3, <2>2
      <4>2. /\ Len(out[r] \o Taken(r)) = Len(out[r]) + Len(Taken(r))
            /\ \A i \in 1..Len(out[r]) + Len(Taken(r)) :
                 (out[r] \o Taken(r))[i] = IF i <= Len(out[r]) THEN out[r][i] ELSE Taken(r)[i - Len(out[r])]
        BY <2>0, <4>1, ConcatProperties
      <4>3. Len(out[r]) = L + 1 /\ out'[r] = out[r] \o Taken(r) BY <3>1, <3>2
      <4> HIDE DEF x, L
      <4> QED BY <4>1, <4>2, <4>3
    <3> HIDE DEF x, L
    <3>4. \A p \in 0..L : New(p) = At(r, p)
      <4>1. \A p \in 0..L : p + 1 \in 1..L + 1 + (x + 1) /\ p + 1 <= L + 1 BY <3>1
      <4> QED BY <3>3, <4>1 DEF At
    <3>5. \A j \in 0..x : New(L + j + 1) = answer(r)[j + 1]
      <4>1. ASSUME NEW j \in 0..x PROVE New(L + j + 1) = answer(r)[j + 1]
        <5>1. /\ L + j + 1 + 1 \in 1..L + 1 + (x + 1) /\ ~(L + j + 1 + 1 <= L + 1)
              /\ (L + j + 1 + 1) - (L + 1) = j + 1 /\ j + 1 \in 1..x + 1
          BY <3>1
        <5>2. Taken(r)[j + 1] = answer(r)[j + 1] BY <1>3, <2>2, <5>1 DEF x
        <5>3. out'[r][L + j + 1 + 1] = Taken(r)[(L + j + 1 + 1) - (L + 1)] BY <3>3, <5>1
        <5> QED BY <5>1, <5>2, <5>3
      <4> HIDE DEF New
      <4> QED BY <4>1
    <3>6. \A j \in 0..x : cand[r][j + 1] = New(L + j)
      <4>1. ASSUME NEW j \in 0..x PROVE cand[r][j + 1] = New(L + j)
        <5>1. CASE j = 0
          <6>1. cand[r][1] = At(r, L) BY <1>4, <2>2 DEF L
          <6>2. New(L) = At(r, L) BY <3>1, <3>4
          <6>3. L + j = L /\ j + 1 = 1 BY <3>1, <5>1
          <6> HIDE DEF New
          <6> QED BY <6>1, <6>2, <6>3
        <5>2. CASE j # 0
          <6>1. j - 1 \in 0..x /\ j \in 1..x /\ L + (j - 1) + 1 = L + j /\ j - 1 + 1 = j
            BY <3>1, <5>2
          <6>2. answer(r)[j] = cand[r][j + 1] BY <1>3, <2>2, <6>1 DEF x
          <6>3. New(L + (j - 1) + 1) = answer(r)[j - 1 + 1]
            <7> HIDE DEF New
            <7> QED BY <3>5, <6>1
          <6> HIDE DEF New
          <6> QED BY <6>1, <6>2, <6>3
        <5> QED BY <5>1, <5>2
      <4> HIDE DEF New
      <4> QED BY <4>1
    <3> HIDE DEF New
    <3>7. Standing(r)'
      <4>1. /\ len'[r] > 0 /\ len'[r] + 1 = Len(out'[r]) /\ len'[r] < Len(out'[r])
            /\ accept'[r] <= len'[r] /\ accept'[r] <= steps' + 1 /\ Len(out'[r]) # 0
        BY <3>1, <3>2, <3>3
      <4>2. out'[r] # <<>> BY <4>1, EmptySeq
      <4>3. cand'[r] # <<>> /\ Len(cand'[r]) = steps' + 1 /\ r \in Ready'
        BY <1>4, <1>6, <2>2, <3>2
      <4> QED BY <3>2, <4>1, <4>2, <4>3 DEF Standing
    <3>8. Committed(r)'
      <4>1. ASSUME NEW p \in 0..L + x PROVE target'[r][p] = New(p)
        <5>1. p \in Positions
          <6>1. p \in 0..MaxLen + MaxSteps + 1 BY <1>2, <3>1
          <6> QED BY <6>1, Sizes
        <5>2. target'[r][p] = IF \E j \in 0..steps : p = VerifyLoc(r, j) THEN Put(r, p) ELSE target[r][p]
          BY <1>1, <2>2, <5>1
        <5>3. CASE p < L
          <6>1. \A j \in 0..steps : p # VerifyLoc(r, j) BY <3>1, <5>3 DEF VerifyLoc, L
          <6>2. p \in 0..len[r] - 1 /\ p \in 0..L BY <3>1, <5>3 DEF L
          <6>3. target[r][p] = At(r, p) BY <2>0, <6>2 DEF RowInv, Committed
          <6> QED BY <3>4, <5>2, <6>1, <6>2, <6>3
        <5>4. CASE p >= L
          <6>1. p - L \in 0..steps /\ p - L \in 0..x /\ L + (p - L) = p BY <3>1, <5>4
          <6>2. \A j \in 0..steps : p = VerifyLoc(r, j) <=> j = p - L
            BY <3>1 DEF VerifyLoc, L
          <6>3. (CHOOSE j \in 0..steps : p = VerifyLoc(r, j)) = p - L BY <6>1, <6>2
          <6>4. Put(r, p) = cand[r][p - L + 1] BY <6>3 DEF Put
          <6> QED BY <3>6, <5>2, <6>1, <6>2, <6>4
        <5> QED BY <3>1, <5>3, <5>4
      <4>2. ASSUME NEW p \in 0..L - 1 PROVE draft'[r][p] = Entry(New(p + 1), New(p))
        <5>1. len[r] - accept[r] - 1 = L - 1 BY <1>4, <2>2, <3>1 DEF L
        <5>2. draft[r][p] = Entry(At(r, p + 1), At(r, p)) BY <2>0, <5>1 DEF RowInv, Committed
        <5>3. p \in 0..L /\ p + 1 \in 0..L BY <3>1
        <5> QED BY <3>2, <3>4, <5>2, <5>3
      <4>3. len'[r] - 1 = L + x /\ len'[r] - accept'[r] - 1 = L - 1 BY <3>1, <3>2
      <4>4. /\ \A p \in 0..len'[r] - 1 : target'[r][p] = New(p)
            /\ \A p \in 0..len'[r] - accept'[r] - 1 : draft'[r][p] = Entry(New(p + 1), New(p))
        BY <4>1, <4>2, <4>3
      <4> QED BY <4>4 DEF Committed, At, Entry, New
    <3>9. Seeded(r)' BY <2>0, <3>2 DEF RowInv, Seeded
    <3>10. Underway(r)'
      <4>1. predict'[r] = answer(r) /\ Len(answer(r)) = steps + 1 /\ accept'[r] > 0
        BY <1>3, <2>2, <3>1, <3>2
      <4>2. ASSUME NEW j \in 0..accept'[r] - 1
            PROVE  /\ cand'[r][j + 1] = New(len'[r] - accept'[r] + j)
                   /\ predict'[r][j + 1] = New(len'[r] - accept'[r] + j + 1)
        <5>1. j \in 0..x /\ len'[r] - accept'[r] + j = L + j BY <3>1, <3>2
        <5> QED BY <3>2, <3>5, <3>6, <5>1
      <4>3. WindowAccepted(r)' BY <3>2, <4>1, <4>2 DEF WindowAccepted, At, New
      <4>4. /\ probs.in \in {"own", "stack"}
            /\ \A i \in 1..steps : Proposals(r) # <<>> /\ Proposals(r)[i] = cand[r][i + 1]
        BY <1>1, <1>4, <2>0, <2>2 DEF RowInv, Underway
      <4>5. handed'[r] = Proposals(r)
        <5>1. CASE probs.in = "stack"
          <6>1. handed' = stack BY <1>1, <5>1
          <6> QED BY <5>1, <6>1 DEF Proposals
        <5>2. CASE probs.in = "own"
          <6>1. handed' = probs.val BY <1>1, <5>2
          <6> QED BY <5>2, <6>1 DEF Proposals
        <5> QED BY <4>4, <5>1, <5>2
      <4> QED BY <3>2, <4>3, <4>4, <4>5 DEF Underway
    <3> QED BY <3>7, <3>8, <3>9, <3>10 DEF RowInv
  <2> QED BY <2>1, <2>2
<1> QED BY <1>5, <1>7 DEF IInv

LEMMA ExtendStep ==
  ASSUME IInv, Extend
  PROVE  IInv'
<1> DEFINE Row(r, j) == Entry(predict[r][j + 1], cand[r][j + 1])
           LastRow(r) == IF SelectIndex(r) <= steps THEN Row(r, SelectIndex(r)) ELSE NoEntry
           Written(r, p) == \E j \in 0..steps : p = ExtendLoc(r, j)
           Put(r, p) == Row(r, CHOOSE j \in 0..steps : p = ExtendLoc(r, j))
<1>1. /\ pc = "extend" /\ pc' = "schedule"
      /\ draft' = [r \in Rows |-> IF r \notin Batch THEN draft[r] ELSE
                    [p \in Positions |-> IF Written(r, p) THEN Put(r, p) ELSE draft[r][p]]]
      /\ seed' = [r \in Rows |-> IF r \notin Batch THEN seed[r]
                                 ELSE Seed(LastRow(r), Token("draft", r, 0))]
      /\ cand' = None /\ predict' = None /\ accept' = [r \in Rows |-> 0] /\ clock' = clock + 1
      /\ UNCHANGED <<out, len, target, steps, stack>>
  BY DEF Extend
<1>2. steps \in Nat /\ clock \in 1..MaxClock /\ clock < MaxClock /\ MaxClock \in Nat
  <2>1. steps \in Nat BY <1>1, Sizes DEF IInv, Shape
  <2> QED BY <1>1, <2>1, Sizes DEF IInv, Shape
<1>3. \A r \in Rows : Token("draft", r, 0) \in Tokens /\ Token("draft", r, 0) # NoToken
  BY <1>2, TokenType, Sizes
<1>4. ASSUME NEW r \in Batch
      PROVE  /\ r \in Rows /\ r \in Ready /\ WindowAccepted(r)
             /\ accept[r] \in Nat \ {0} /\ accept[r] <= steps + 1 /\ accept[r] <= len[r]
             /\ len[r] \in Nat /\ len[r] <= MaxLen
             /\ \A j \in 0..steps : Row(r, j) \in Entries
             /\ SelectIndex(r) \in 0..steps /\ LastRow(r) = Row(r, SelectIndex(r))
  <2>1. r \in Rows BY DEF Batch
  <2>2. r \in Ready /\ cand[r] # <<>> BY <1>1, <1>4, <2>1, BatchRow
  <2>3. WindowAccepted(r) /\ accept[r] \in Nat \ {0} /\ accept[r] <= steps + 1 /\ accept[r] <= len[r]
    <3>1. WindowAccepted(r) BY <1>1, <2>1, <2>2 DEF IInv, RowInv, Underway
    <3>2. accept[r] <= steps + 1 /\ accept[r] <= len[r] /\ accept[r] \in Nat
      BY <2>1, RowTypes DEF IInv, RowInv, Standing
    <3> QED BY <3>1, <3>2 DEF WindowAccepted
  <2>4. ASSUME NEW j \in 0..steps PROVE Row(r, j) \in Entries
    <3>1. j + 1 \in 1..Len(predict[r]) BY <1>2, <2>3 DEF WindowAccepted
    <3>2. predict[r][j + 1] \in Tokens BY <2>1, <3>1, ElementOfSeq, RowTypes DEF IInv
    <3>3. cand[r][j + 1] \in Tokens BY <1>1, <1>4, <2>1, BatchRow
    <3> QED BY <3>2, <3>3, EntryParts
  <2>5. SelectIndex(r) \in 0..steps BY <1>2, <2>3 DEF SelectIndex
  <2>6. LastRow(r) = Row(r, SelectIndex(r)) BY <1>2, <2>5
  <2> HIDE DEF Row, LastRow
  <2> QED BY <2>1, <2>2, <2>3, <2>4, <2>5, <2>6, RowTypes DEF IInv
\* The rows of the window that were accepted are the entries of their positions.
<1>5. ASSUME NEW r \in Batch, NEW j \in 0..accept[r] - 1
      PROVE  /\ j \in 0..steps
             /\ Row(r, j) = Entry(At(r, len[r] - accept[r] + j + 1), At(r, len[r] - accept[r] + j))
  BY <1>2, <1>4 DEF WindowAccepted
<1> HIDE DEF Row, LastRow, Put, Written
<1>6. Shape'
  <2>1. draft' \in [Rows -> [Positions -> Entries]]
    <3>1. ASSUME NEW r \in Batch, NEW p \in Positions
          PROVE  (IF Written(r, p) THEN Put(r, p) ELSE draft[r][p]) \in Entries
      <4>1. CASE Written(r, p)
        <5>1. (CHOOSE j \in 0..steps : p = ExtendLoc(r, j)) \in 0..steps BY <4>1 DEF Written
        <5>2. Row(r, CHOOSE j \in 0..steps : p = ExtendLoc(r, j)) \in Entries BY <1>4, <5>1
        <5> QED BY <4>1, <5>2 DEF Put
      <4>2. CASE ~Written(r, p) BY <1>4, <4>2 DEF IInv, Shape
      <4> QED BY <4>1, <4>2
    <3> QED BY <1>1, <3>1 DEF IInv, Shape
  <2>2. seed' \in [Rows -> [row : Entries, tok : Tokens, q : Tokens]]
    <3>1. \A r \in Batch : Seed(LastRow(r), Token("draft", r, 0)) \in [row : Entries, tok : Tokens, q : Tokens]
      BY <1>3, <1>4, SeedType
    <3> QED BY <1>1, <3>1 DEF IInv, Shape
  <2>3. cand' \in [Rows -> Seq(Tokens)] /\ predict' \in [Rows -> Seq(Tokens)]
    BY <1>1, EmptySeq DEF None
  <2>4. clock' \in 1..MaxClock BY <1>1, <1>2
  <2> QED BY <1>1, <2>1, <2>2, <2>3, <2>4 DEF IInv, Shape
<1>7. ASSUME NEW r \in Rows PROVE RowInv(r)'
  <2>0. RowInv(r) /\ len[r] \in Nat /\ len[r] <= MaxLen BY RowTypes DEF IInv
  <2>1. /\ out'[r] = out[r] /\ len'[r] = len[r] /\ target'[r] = target[r] /\ steps' = steps
        /\ cand'[r] = <<>> /\ accept'[r] = 0
    BY <1>1 DEF None
  <2>2. r \in Ready' <=> r \in Ready
    <3>1. CASE r \in Batch
      <4>1. seed'[r] = Seed(LastRow(r), Token("draft", r, 0)) BY <1>1, <3>1
      <4>2. seed'[r] # NoSeed BY <1>3, <1>4, <3>1, <4>1, SeedType
      <4> QED BY <1>4, <3>1, <4>2 DEF Ready
    <3>2. CASE r \notin Batch BY <1>1, <3>2 DEF Ready
    <3> QED BY <3>1, <3>2
  <2>3. seed'[r].q = seed'[r].tok
    <3>1. CASE r \in Batch
      <4>1. seed'[r] = Seed(LastRow(r), Token("draft", r, 0)) BY <1>1, <3>1
      <4> QED BY <1>3, <1>4, <3>1, <4>1, SeedType
    <3>2. CASE r \notin Batch BY <1>1, <2>0, <3>2 DEF RowInv, Seeded
    <3> QED BY <3>1, <3>2
  <2>4. Standing(r)'
    <3>1. out[r] = <<>> => r \notin Ready /\ r \notin Batch
      BY <1>1, <2>0, BatchRow DEF RowInv, Standing, Ready
    <3>2. out'[r] = <<>> => len'[r] = 0 /\ seed'[r] = NoSeed
      BY <1>1, <2>0, <2>1, <3>1 DEF RowInv, Standing
    <3>3. 0 <= len'[r] /\ 0 <= steps' + 1 BY <1>2, <2>0, <2>1
    <3> QED BY <1>1, <2>0, <2>1, <2>2, <3>2, <3>3 DEF RowInv, Standing
  <2>5. ASSUME NEW p \in 0..len[r] - 1
        PROVE  draft'[r][p] = Entry(At(r, p + 1), At(r, p))
    <3>1. p \in Positions
      <4>1. p \in 0..MaxLen + MaxSteps + 1 BY <2>0, Sizes
      <4> QED BY <4>1, Sizes
    <3>2. CASE r \notin Batch
      <4>1. accept[r] = 0 BY <1>1, <3>2, BatchRow
      <4>2. len[r] - accept[r] - 1 = len[r] - 1 BY <2>0, <4>1
      <4> QED BY <1>1, <2>0, <3>2, <4>2 DEF RowInv, Committed
    <3>3. CASE r \in Batch
      <4> DEFINE L == len[r]
                 A == accept[r]
      <4>1. L \in Nat /\ A \in Nat \ {0} /\ A <= L /\ A <= steps + 1 /\ steps \in Nat
        BY <1>2, <1>4, <3>3
      <4>2. draft'[r][p] = IF Written(r, p) THEN Put(r, p) ELSE draft[r][p]
        BY <1>1, <3>1, <3>3
      <4>3. \A j \in 0..steps : ExtendLoc(r, j) = L - A + j BY DEF ExtendLoc
      <4>4. p \in 0..L - 1 OBVIOUS
      <4>5. \A j \in 0..A - 1 : /\ j \in 0..steps
                                /\ Row(r, j) = Entry(At(r, L - A + j + 1), At(r, L - A + j))
        BY <1>5, <3>3
      <4>6. \A x \in 0..L - A - 1 : draft[r][x] = Entry(At(r, x + 1), At(r, x))
        BY <2>0 DEF RowInv, Committed
      <4> HIDE DEF L, A
      <4>7. CASE p < L - A
        <5>1. ~Written(r, p) BY <4>1, <4>3, <4>4, <4>7 DEF Written
        <5>2. p \in 0..L - A - 1 BY <4>1, <4>4, <4>7
        <5> QED BY <4>2, <4>6, <5>1, <5>2
      <4>8. CASE p >= L - A
        <5> DEFINE i == p - (L - A)
        <5>1. i \in 0..A - 1 /\ L - A + i = p /\ L - A + i + 1 = p + 1
          BY <4>1, <4>4, <4>8
        <5>2. i \in 0..steps BY <4>5, <5>1
        <5>3. \A j \in 0..steps : p = ExtendLoc(r, j) <=> j = i BY <4>1, <4>3, <4>4
        <5>4. Row(r, i) = Entry(At(r, p + 1), At(r, p)) BY <4>5, <5>1
        <5> HIDE DEF i
        <5>5. Written(r, p) BY <5>2, <5>3 DEF Written
        <5>6. (CHOOSE j \in 0..steps : p = ExtendLoc(r, j)) = i BY <5>2, <5>3
        <5>7. Put(r, p) = Row(r, i) BY <5>6 DEF Put
        <5> QED BY <4>2, <5>4, <5>5, <5>7
      <4> QED BY <4>1, <4>4, <4>7, <4>8
    <3> QED BY <3>2, <3>3
  <2>6. Committed(r)'
    <3>1. len'[r] - accept'[r] - 1 = len[r] - 1 /\ len'[r] - 1 = len[r] - 1 BY <2>0, <2>1
    <3>2. \A p \in 0..len[r] - 1 : target'[r][p] = At(r, p) BY <2>0, <2>1 DEF RowInv, Committed
    <3> QED BY <2>1, <2>5, <3>1, <3>2 DEF Committed, At
  <2>7. r \in Ready => seed'[r].row = Entry(At(r, len[r]), At(r, len[r] - 1))
    <3>1. ASSUME r \in Ready PROVE seed'[r].row = Entry(At(r, len[r]), At(r, len[r] - 1))
      <4>1. r \in Batch BY <1>1, <3>1, BatchRow
      <4>2. accept[r] - 1 \in 0..accept[r] - 1 /\ SelectIndex(r) = accept[r] - 1
        BY <1>4, <4>1 DEF SelectIndex
      <4>3. Row(r, SelectIndex(r)) = Entry(At(r, len[r] - accept[r] + (accept[r] - 1) + 1),
                                           At(r, len[r] - accept[r] + (accept[r] - 1)))
        BY <1>5, <4>1, <4>2
      <4>4. /\ len[r] - accept[r] + (accept[r] - 1) + 1 = len[r]
            /\ len[r] - accept[r] + (accept[r] - 1) = len[r] - 1
        BY <1>4, <4>1
      <4>5. seed'[r] = Seed(Row(r, SelectIndex(r)), Token("draft", r, 0)) BY <1>1, <1>4, <4>1
      <4>6. seed'[r].row = Row(r, SelectIndex(r)) BY <1>3, <1>4, <4>1, <4>5, SeedType
      <4> QED BY <4>3, <4>4, <4>6
    <3> QED BY <3>1
  <2>8. Seeded(r)'
    BY <2>1, <2>2, <2>3, <2>7 DEF Seeded, At
  <2>9. Underway(r)' BY <1>1, <2>1 DEF Underway
  <2> QED BY <2>4, <2>6, <2>8, <2>9 DEF RowInv
<1> QED BY <1>6, <1>7 DEF IInv

LEMMA Invariance == IInv /\ [Next]_vars => IInv'
<1> SUFFICES ASSUME IInv, [Next]_vars PROVE IInv' OBVIOUS
<1>1. ASSUME NEW r \in Rows, Release(r) PROVE IInv' BY <1>1, ReleaseStep
<1>2. ASSUME NEW r \in Rows, NEW n \in 1..MaxPrompt, Admit(r, n) PROVE IInv' BY <1>2, AdmitStep
<1>3. ASSUME NEW n \in Chunks, Prefill(n) PROVE IInv' BY <1>3, PrefillStep
<1>4. ASSUME NEW k \in StepChoices, Trivial(k) PROVE IInv' BY <1>4, TrivialStep
<1>5. ASSUME NEW k \in StepChoices, NEW graph \in BOOLEAN, Draft(k, graph) PROVE IInv'
  BY <1>5, DraftStep
<1>6. ASSUME NEW a \in [Rows -> 0..steps], Verify(a) PROVE IInv' BY <1>6, VerifyStep
<1>7. ASSUME Extend PROVE IInv' BY <1>7, ExtendStep
<1>8. ASSUME UNCHANGED vars PROVE IInv'
  <2>1. Shape' BY <1>8 DEF IInv, Shape, vars
  <2>2. ASSUME NEW r \in Rows PROVE RowInv(r)'
    BY <1>8, <2>2, RowUntouched DEF IInv, vars
  <2> QED BY <2>1, <2>2 DEF IInv
<1> QED BY <1>1, <1>2, <1>3, <1>4, <1>5, <1>6, <1>7, <1>8 DEF Next

LEMMA AlwaysIInv == Spec => []IInv
BY InitInv, Invariance, PTL DEF Spec

-----------------------------------------------------------------------------
(* What the invariant says of the program.                                 *)

LEMMA TypesInside == IInv => TypeOK
<1> SUFFICES ASSUME IInv PROVE TypeOK OBVIOUS
<1>1. ASSUME NEW r \in Rows
      PROVE  /\ \A i \in DOMAIN out[r] : out[r][i] \in Tokens
             /\ \A p \in Positions : target[r][p] \in Tokens /\ draft[r][p] \in Entries
             /\ len[r] \in Nat /\ (out[r] # <<>> => len[r] < Len(out[r]))
             /\ r \in Ready => len[r] + 1 = Len(out[r])
             /\ accept[r] \in 0..steps + 1
  <2>1. \A i \in DOMAIN out[r] : out[r][i] \in Tokens
    <3>1. DOMAIN out[r] = 1..Len(out[r]) BY RowTypes, LenProperties DEF IInv
    <3> QED BY <3>1, RowTypes, ElementOfSeq DEF IInv
  <2>2. accept[r] \in 0..steps + 1
    <3>1. accept[r] \in Nat /\ steps \in Nat BY RowTypes DEF IInv
    <3>2. accept[r] <= steps + 1 BY DEF IInv, RowInv, Standing
    <3> QED BY <3>1, <3>2
  <2>3. \A p \in Positions : target[r][p] \in Tokens /\ draft[r][p] \in Entries
    BY DEF IInv, Shape
  <2>4. len[r] \in Nat BY RowTypes DEF IInv
  <2> QED BY <2>1, <2>2, <2>3, <2>4 DEF IInv, RowInv, Standing
<1> QED BY <1>1 DEF TypeOK, IInv, Shape

\* Types: every token, KV entry and draft input is one, and a row is ready
\* exactly when all but its last token is committed.
THEOREM Types == Spec => []TypeOK
BY AlwaysIInv, TypesInside, PTL

\* The target's KV of the committed tokens is that of the tokens committed, for
\* any chunking, step counts and accepted lengths: no rejected draft is left.
THEOREM TargetKept == Spec => []TargetExact
<1>1. IInv => TargetExact BY DEF IInv, RowInv, Committed, TargetExact
<1> QED BY <1>1, AlwaysIInv, PTL

\* Between forwards the draft model's KV of the committed tokens is made from
\* those tokens and the target's hidden states: no guess of a draft step is left.
THEOREM DraftKept == Spec => []DraftExact
<1>1. IInv => DraftExact
  <2> SUFFICES ASSUME IInv, pc # "extend", NEW r \in Rows, NEW p \in 0..len[r] - 1
               PROVE  draft[r][p] = Entry(At(r, p + 1), At(r, p))
    BY DEF DraftExact
  <2>1. accept[r] = 0 /\ len[r] \in Nat BY RowTypes DEF IInv, RowInv, Standing
  <2>2. p \in 0..len[r] - accept[r] - 1 BY <2>1
  <2> QED BY <2>2 DEF IInv, RowInv, Committed
<1> QED BY <1>1, AlwaysIInv, PTL

\* The next chain starts from the draft row of the last committed token.
THEOREM SeedsOwn == Spec => []SeedExact
<1>1. IInv => SeedExact BY DEF IInv, RowInv, Seeded, SeedExact, Ready
<1> QED BY <1>1, AlwaysIInv, PTL

\* Rejection sampling is given, for every draft token, the distribution the
\* token was drawn from, whichever buffer the draft graph left it in.
THEOREM ProposalsOwn == Spec => []ProposalExact
<1>1. IInv => ProposalExact BY DEF IInv, RowInv, Underway, ProposalExact, Batch
<1> QED BY <1>1, AlwaysIInv, PTL
-----------------------------------------------------------------------------
(* Numbers                                                                   *)

\* A set of naturals with a member has a smallest one.
LEMMA Smallest ==
  ASSUME NEW S \in SUBSET Nat, S # {}
  PROVE  \E x \in S : \A y \in S : x <= y
<1>1. PICK x \in S : \A y \in S : ~ (<<y, x>> \in OpToRel(<, Nat))
  BY WFMin, NatLessThanWellFounded
<1>2. \A y \in S : x <= y
  <2> SUFFICES ASSUME NEW y \in S, y < x
               PROVE  FALSE
    OBVIOUS
  <2>1. <<y, x>> \in {ss \in Nat \X Nat : ss[1] < ss[2]}
    OBVIOUS
  <2> QED
    BY <1>1, <2>1 DEF OpToRel
<1> QED
  BY <1>2

\* A number is its quotient times the divisor, plus its remainder.
LEMMA Divides ==
  ASSUME NEW n \in Nat, NEW w \in Nat \ {0}
  PROVE  /\ n \div w \in Nat /\ n % w \in 0..(w - 1) /\ n % w \in Nat
         /\ n = (n \div w) * w + (n % w)
<1> DEFINE d == n \div w
<1>1. d \in Nat /\ n % w \in 0..(w - 1) /\ n = w * d + (n % w)
  OBVIOUS
<1>2. w * d = d * w
  BY <1>1
<1> HIDE DEF d
<1> QED
  BY <1>1, <1>2 DEF d

\* A multiple of w, and what is less than w besides it.
LEMMA Divided ==
  ASSUME NEW q \in Nat, NEW w \in Nat \ {0}, NEW x \in 0..(w - 1)
  PROVE  (q * w + x) \div w = q /\ (q * w + x) % w = x
<1> DEFINE n == q * w + x
           d == n \div w
<1>0. n \in Nat
  OBVIOUS
<1>1. d \in Nat /\ n % w \in 0..(w - 1) /\ n = w * d + (n % w)
  BY <1>0
<1>2. CASE d <= q - 1
  <2>1. w * d <= w * (q - 1) /\ w * (q - 1) = w * q - w
    BY <1>1, <1>2
  <2> QED
    BY <1>1, <2>1
<1>3. CASE q + 1 <= d
  <2>1. w * (q + 1) <= w * d /\ w * (q + 1) = w * q + w
    BY <1>1, <1>3
  <2> QED
    BY <1>1, <2>1
<1>4. CASE d = q
  BY <1>1, <1>4
<1> QED
  BY <1>1, <1>2, <1>3, <1>4

\* Quotient and remainder are determined.
LEMMA SamePlace ==
  ASSUME NEW w \in Nat \ {0}, NEW i \in Nat, NEW k \in Nat, NEW x \in 0..(w - 1), NEW y \in 0..(w - 1),
         i * w + x = k * w + y
  PROVE  i = k /\ x = y
BY Divided

\* Multiplying keeps order, and a larger factor adds at least one more.
LEMMA Products ==
  ASSUME NEW a \in Nat, NEW b \in Nat, NEW w \in Nat, a <= b
  PROVE  /\ a * w \in Nat /\ b * w \in Nat /\ a * w <= b * w
         /\ (a + 1) * w = a * w + w /\ (a < b => a * w + w <= b * w)
<1>1. a * w \in Nat /\ b * w \in Nat
  OBVIOUS
<1>2. PICK c \in Nat : b = a + c
  BY b - a \in Nat
<1>3. b * w = a * w + c * w /\ c * w \in Nat
  BY <1>2
<1>4. (a + 1) * w = a * w + w
  OBVIOUS
<1>5. ASSUME a < b PROVE a * w + w <= b * w
  <2>1. PICK e \in Nat : b = a + 1 + e
    BY <1>5, b - a - 1 \in Nat
  <2>2. b * w = a * w + w + e * w /\ e * w \in Nat
    BY <2>1
  <2> QED
    BY <1>1, <2>2
<1> QED
  BY <1>1, <1>3, <1>4, <1>5

-----------------------------------------------------------------------------
(* Recursive functions                                                       *)

\* A function given by a first value and by each value from the one before.
LEMMA StepByStep ==
  ASSUME NEW S, NEW b \in S, NEW n \in Nat, NEW G \in [1..n -> [S -> S]]
  PROVE  \E f \in [0..n -> S] : f[0] = b /\ \A k \in 1..n : f[k] = G[k][f[k - 1]]
<1> DEFINE Sat(f, m) == /\ f \in [0..m -> S]
                        /\ \A k \in 0..m : f[k] = IF k = 0 THEN b ELSE G[k][f[k - 1]]
           Bad == {m \in 0..n : ~\E f : Sat(f, m)}
<1>1. Bad = {}
  <2> SUFFICES ASSUME Bad # {} PROVE FALSE
    OBVIOUS
  <2>1. PICK m \in Bad : \A y \in Bad : m <= y
    <3>1. Bad \in SUBSET Nat
      OBVIOUS
    <3> QED
      BY <3>1, Smallest
  <2>2. m # 0
    <3>1. Sat([k \in 0..0 |-> b], 0)
      OBVIOUS
    <3> QED
      BY <3>1
  <2>3. m \in 1..n /\ m - 1 \in 0..n /\ m - 1 \notin Bad
    <3>1. m \in 0..n
      BY <2>1
    <3>2. m - 1 \in 0..n /\ ~(m <= m - 1)
      BY <2>2, <3>1
    <3> HIDE DEF Bad
    <3> QED
      BY <2>1, <2>2, <3>1, <3>2
  <2>4. PICK g : Sat(g, m - 1)
    BY <2>3
  <2> DEFINE h == [k \in 0..m |-> IF k = m THEN G[m][g[m - 1]] ELSE g[k]]
  <2>5. ASSUME NEW k \in 0..m
        PROVE  h[k] \in S /\ h[k] = IF k = 0 THEN b ELSE G[k][h[k - 1]]
    <3>1. CASE k = m
      <4>1. m - 1 \in 0..m - 1 /\ m - 1 \in 0..m /\ m - 1 # m /\ g[m - 1] \in S
        BY <2>3, <2>4
      <4>2. h[m - 1] = g[m - 1] /\ h[m] = G[m][g[m - 1]]
        BY <4>1
      <4>3. G[m][g[m - 1]] \in S
        BY <2>3, <4>1
      <4> HIDE DEF h
      <4> QED
        BY <2>2, <3>1, <4>2, <4>3
    <3>2. CASE k # m
      <4>1. k \in 0..m - 1
        BY <2>3, <3>2
      <4>2. h[k] = g[k] /\ g[k] \in S /\ g[k] = IF k = 0 THEN b ELSE G[k][g[k - 1]]
        BY <2>4, <3>2, <4>1
      <4>3. k # 0 => k - 1 \in 0..m /\ k - 1 # m
        BY <2>3, <4>1
      <4>4. k # 0 => h[k - 1] = g[k - 1]
        BY <4>3
      <4> QED
        BY <4>2, <4>4
    <3> QED
      BY <3>1, <3>2
  <2>6. Sat(h, m)
    <3>1. h \in [0..m -> S]
      <4>1. h = [k \in 0..m |-> h[k]]
        OBVIOUS
      <4> HIDE DEF h
      <4> QED
        BY <2>5, <4>1
    <3> HIDE DEF h
    <3> QED
      BY <2>5, <3>1
  <2> QED
    BY <2>1, <2>6
<1>2. PICK f : Sat(f, n)
  <2>1. n \in 0..n
    OBVIOUS
  <2> QED
    BY <1>1, <2>1
<1>3. f[0] = b
  <2>1. 0 \in 0..n
    OBVIOUS
  <2> QED
    BY <1>2, <2>1
<1>4. \A k \in 1..n : f[k] = G[k][f[k - 1]]
  <2> TAKE k \in 1..n
  <2>1. k \in 0..n /\ k # 0
    OBVIOUS
  <2> QED
    BY <1>2, <2>1
<1> QED
  BY <1>2, <1>3, <1>4

Descent(D, p, rank, B, T) ==
  /\ p \in [D -> D] /\ rank \in [D -> Nat] /\ B \subseteq D /\ T \subseteq D /\ B \subseteq T
  /\ \A x \in D \ B : rank[p[x]] < rank[x]
  /\ \A x \in D \ B : p[x] \in T => x \in T

\* Induction along steps that lower a rank: what holds where they end, and
\* holds after a step back if it holds before, holds everywhere.
LEMMA ByRank ==
  ASSUME NEW D, NEW p, NEW rank, NEW B, NEW T, Descent(D, p, rank, B, T)
  PROVE  T = D
<1> USE DEF Descent
<1> DEFINE R == {rank[x] : x \in D \ T}
<1>1. SUFFICES ASSUME T # D PROVE FALSE
  OBVIOUS
<1>2. R \in SUBSET Nat /\ R # {}
  BY <1>1
<1>3. PICK r \in R : \A y \in R : r <= y
  <2> HIDE DEF R
  <2> QED
    BY <1>2, Smallest
<1>4. PICK x \in D \ T : rank[x] = r
  BY <1>3
<1>5. p[x] \in D \ T
  BY <1>4
<1>6. rank[p[x]] < rank[x] /\ rank[p[x]] \in Nat /\ rank[x] \in Nat
  BY <1>4, <1>5
<1>7. r <= rank[p[x]]
  BY <1>3, <1>5
<1> QED
  BY <1>4, <1>6, <1>7

Recurs(D, S, M, p, rank, B, base, G) ==
  /\ M \in Nat /\ p \in [D -> D] /\ rank \in [D -> 0..M] /\ B \subseteq D
  /\ base \in [D -> S] /\ G \in [D -> [S -> S]]
  /\ \A x \in D \ B : rank[p[x]] < rank[x]

\* A function given where such steps end, and elsewhere by its value a step on.
LEMMA Recursion ==
  ASSUME NEW D, NEW S, NEW M, NEW p, NEW rank, NEW B, NEW base, NEW G,
         Recurs(D, S, M, p, rank, B, base, G)
  PROVE  \E f \in [D -> S] : \A x \in D : f[x] = IF x \in B THEN base[x] ELSE G[x][f[p[x]]]
<1> USE DEF Recurs
<1> DEFINE To(m) == {x \in D : rank[x] < m}
           Sat(f, m) == /\ f \in [To(m) -> S]
                        /\ \A x \in To(m) : f[x] = IF x \in B THEN base[x] ELSE G[x][f[p[x]]]
           Bad == {m \in 0..(M + 1) : ~\E f : Sat(f, m)}
<1>1. Bad = {}
  <2> SUFFICES ASSUME Bad # {} PROVE FALSE
    OBVIOUS
  <2>1. PICK m \in Bad : \A y \in Bad : m <= y
    <3>1. Bad \in SUBSET Nat
      OBVIOUS
    <3> HIDE DEF Bad
    <3> QED
      BY <3>1, Smallest
  <2>2. m # 0
    <3>1. To(0) = {}
      OBVIOUS
    <3> HIDE DEF To
    <3>2. Sat([x \in To(0) |-> base[x]], 0)
      BY <3>1
    <3> QED
      BY <3>2
  <2>3. m \in 1..(M + 1) /\ m - 1 \in 0..(M + 1) /\ m - 1 \notin Bad
    <3>1. m \in 0..(M + 1)
      BY <2>1
    <3>2. m - 1 \in 0..(M + 1) /\ ~(m <= m - 1)
      BY <2>2, <3>1
    <3> HIDE DEF Bad
    <3> QED
      BY <2>1, <2>2, <3>1, <3>2
  <2>4. PICK g : Sat(g, m - 1)
    BY <2>3
  <2> DEFINE h == [x \in To(m) |-> IF x \in To(m - 1) THEN g[x]
                                   ELSE IF x \in B THEN base[x] ELSE G[x][g[p[x]]]]
  <2>5. \A x \in To(m - 1) : x \in To(m)
    BY <2>3
  <2>6. \A x \in To(m) \ B : p[x] \in To(m - 1)
    BY <2>3
  <2> HIDE DEF To
  <2>7. \A x \in To(m) : x \in D
    BY DEF To
  <2>8. ASSUME NEW x \in To(m)
        PROVE  h[x] \in S /\ h[x] = IF x \in B THEN base[x] ELSE G[x][h[p[x]]]
    <3>1. x \notin B => p[x] \in To(m - 1) /\ p[x] \in To(m) /\ h[p[x]] = g[p[x]] /\ g[p[x]] \in S
      BY <2>4, <2>5, <2>6
    <3>2. CASE x \in To(m - 1)
      <4>1. h[x] = g[x] /\ g[x] \in S
        BY <2>4, <3>2
      <4> QED
        BY <2>4, <3>1, <3>2, <4>1
    <3>3. CASE x \notin To(m - 1)
      <4>1. h[x] = IF x \in B THEN base[x] ELSE G[x][g[p[x]]]
        BY <3>3
      <4>2. base[x] \in S /\ (x \notin B => G[x][g[p[x]]] \in S)
        BY <2>7, <3>1
      <4> HIDE DEF h
      <4> QED
        BY <3>1, <4>1, <4>2
    <3> QED
      BY <3>2, <3>3
  <2>9. Sat(h, m)
    <3>1. h = [x \in To(m) |-> h[x]]
      OBVIOUS
    <3> HIDE DEF h
    <3> QED
      BY <2>8, <3>1
  <2> QED
    BY <2>1, <2>9
<1>2. PICK f : Sat(f, M + 1)
  <2>1. M + 1 \in 0..(M + 1)
    OBVIOUS
  <2> QED
    BY <1>1, <2>1
<1>3. To(M + 1) = D
  OBVIOUS
<1> QED
  BY <1>2, <1>3

-----------------------------------------------------------------------------
(* Trees of nodes, each with a parent before it                              *)

IsTree(N, up) == /\ N \in Nat
                 /\ up \in [1..N -> 0..N]
                 /\ \A n \in 1..N : up[n] < n

Hereditary(N, up, T) ==
  /\ IsTree(N, up) /\ T \subseteq 0..N /\ 0 \in T
  /\ \A n \in 1..N : up[n] \in T => n \in T
TreeStep(N, up, S, b, G) == IsTree(N, up) /\ b \in S /\ G \in [1..N -> [S -> S]]

\* What holds of the root, and of a node if it holds of its parent, holds of all.
LEMMA TreeInduction ==
  ASSUME NEW N, NEW up, NEW T, Hereditary(N, up, T)
  PROVE  T = 0..N
<1> USE DEF Hereditary
<1> DEFINE D == 0..N
           B == {0}
           p == [n \in D |-> IF n = 0 THEN 0 ELSE up[n]]
           rank == [n \in D |-> n]
<1>0. N \in Nat /\ \A n \in D \ B : n \in 1..N /\ n \in Nat /\ up[n] \in 0..N /\ up[n] < n
  BY DEF IsTree
<1>1. p \in [D -> D] /\ rank \in [D -> Nat]
  BY <1>0
<1>2. \A n \in D \ B : p[n] = up[n] /\ rank[p[n]] < rank[n]
  BY <1>0
<1>3. B \in SUBSET D /\ B \subseteq T /\ T \in SUBSET D
  OBVIOUS
<1>4. \A n \in D \ B : p[n] \in T => n \in T
  BY <1>0, <1>2
<1>5. T = D
  <2> HIDE DEF p, rank, D, B
  <2> QED
    BY <1>1, <1>2, <1>3, <1>4, ByRank DEF Descent
<1> QED
  BY <1>5

\* A function given at the root, and at a node by its value at the parent.
LEMMA TreeRecursion ==
  ASSUME NEW N, NEW up, NEW S, NEW b, NEW G, TreeStep(N, up, S, b, G)
  PROVE  \E f \in [0..N -> S] : f[0] = b /\ \A n \in 1..N : f[n] = G[n][f[up[n]]]
<1> USE DEF TreeStep
<1> DEFINE D == 0..N
           p == [n \in D |-> IF n = 0 THEN 0 ELSE up[n]]
           rank == [n \in D |-> n]
           base == [n \in D |-> b]
           H == [n \in D |-> IF n = 0 THEN [s \in S |-> s] ELSE G[n]]
           B == {0}
<1>0. N \in Nat /\ \A n \in D \ B : n \in 1..N /\ n \in Nat /\ up[n] \in D /\ up[n] < n
  BY DEF IsTree
<1>1. p \in [D -> D] /\ rank \in [D -> 0..N] /\ base \in [D -> S] /\ B \in SUBSET D
  BY <1>0
<1>2. H \in [D -> [S -> S]]
  <2>1. \A n \in D : H[n] \in [S -> S]
    BY <1>0
  <2> QED
    BY <2>1
<1>3. \A n \in D \ B : rank[p[n]] < rank[n]
  BY <1>0
<1>4. \E f \in [D -> S] : \A n \in D : f[n] = IF n \in B THEN base[n] ELSE H[n][f[p[n]]]
  <2> HIDE DEF D, p, rank, base, H, B
  <2> QED
    <3>1. Recurs(D, S, N, p, rank, B, base, H)
      BY <1>0, <1>1, <1>2, <1>3 DEF Recurs
    <3> QED
      BY ONLY <3>1, Recursion
<1>5. PICK f \in [D -> S] : \A n \in D : f[n] = IF n \in B THEN base[n] ELSE H[n][f[p[n]]]
  BY <1>4
<1>6. f[0] = b
  <2>1. 0 \in D /\ 0 \in B /\ base[0] = b
    BY <1>0
  <2> HIDE DEF D, B, base, H, p
  <2> QED
    BY <1>5, <2>1
<1>7. ASSUME NEW n \in 1..N PROVE f[n] = G[n][f[up[n]]]
  <2>1. n \in D /\ n \notin B /\ p[n] = up[n] /\ H[n] = G[n]
    BY <1>0
  <2> HIDE DEF D, B, base, H, p
  <2> QED
    BY <1>5, <2>1
<1> QED
  BY <1>6, <1>7

\* How deep a node lies.
LEMMA DepthIs ==
  ASSUME NEW N, NEW up, IsTree(N, up)
  PROVE  /\ Depth(up) \in [0..N -> Nat] /\ Depth(up)[0] = 0
         /\ \A n \in 1..N : Depth(up)[n] = 1 + Depth(up)[up[n]]
<1> DEFINE G == [n \in 1..N |-> [s \in Nat |-> 1 + s]]
           Sat(f) == f = [n \in {0} \cup DOMAIN up |-> IF n = 0 THEN 0 ELSE 1 + f[up[n]]]
           NN == Nat
           z == 0
<1>0. /\ N \in Nat /\ {0} \cup DOMAIN up = 0..N /\ 0 \in 0..N
      /\ \A n \in 1..N : n \in 0..N /\ n # 0 /\ up[n] \in 0..N
      /\ \A n \in (0..N) : n # 0 => n \in 1..N
  BY DEF IsTree
<1>1. PICK g \in [0..N -> NN] : g[0] = z /\ \A n \in 1..N : g[n] = G[n][g[up[n]]]
  <2>1. G \in [1..N -> [NN -> NN]] /\ z \in NN
    OBVIOUS
  <2> HIDE DEF G, NN, z
  <2>2. TreeStep(N, up, NN, z, G)
    BY <2>1 DEF TreeStep
  <2> QED
    BY ONLY <2>2, TreeRecursion
<1>2. \A n \in 1..N : g[n] = 1 + g[up[n]]
  BY <1>0, <1>1
<1>3. Sat(g)
  BY <1>0, <1>1, <1>2
<1>4. Sat(Depth(up))
  <2>1. Depth(up) = CHOOSE f : Sat(f)
    BY DEF Depth
  <2> HIDE DEF Sat
  <2> QED
    BY <1>3, <2>1
<1>5. Depth(up)[0] = 0 /\ \A n \in 1..N : Depth(up)[n] = 1 + Depth(up)[up[n]]
  <2> DEFINE d == Depth(up)
  <2>1. d = [n \in 0..N |-> IF n = 0 THEN 0 ELSE 1 + d[up[n]]]
    BY <1>0, <1>4
  <2> HIDE DEF d
  <2>2. d[0] = 0 /\ \A n \in 1..N : d[n] = 1 + d[up[n]]
    BY <1>0, <2>1
  <2> QED
    BY <2>2 DEF d
<1>6. {n \in 0..N : Depth(up)[n] \in Nat} = 0..N
  <2> DEFINE T == {n \in 0..N : Depth(up)[n] \in Nat}
  <2>1. 0 \in T /\ T \in SUBSET (0..N) /\ \A n \in 1..N : up[n] \in T => n \in T
    BY <1>0, <1>5
  <2> HIDE DEF T
  <2>2. T = 0..N
    BY <2>1, TreeInduction DEF Hereditary
  <2> QED
    BY <2>2 DEF T
<1>7. Depth(up) = [n \in 0..N |-> Depth(up)[n]]
  BY <1>0, <1>4
<1> QED
  BY <1>5, <1>6, <1>7

\* A node's ancestors: itself and its parent's.
LEMMA AncestorsIs ==
  ASSUME NEW N, NEW up, IsTree(N, up)
  PROVE  /\ Ancestors(up) \in [0..N -> SUBSET (0..N)] /\ Ancestors(up)[0] = {0}
         /\ \A n \in 1..N : Ancestors(up)[n] = {n} \cup Ancestors(up)[up[n]]
<1> DEFINE S == SUBSET (0..N)
           G == [n \in 1..N |-> [s \in S |-> {n} \cup s]]
           Sat(f) == f = [n \in {0} \cup DOMAIN up |-> IF n = 0 THEN {0} ELSE {n} \cup f[up[n]]]
           z == {0}
<1>0. /\ N \in Nat /\ {0} \cup DOMAIN up = 0..N /\ 0 \in 0..N
      /\ \A n \in 1..N : n \in 0..N /\ n # 0 /\ up[n] \in 0..N
      /\ \A n \in (0..N) : n # 0 => n \in 1..N
  BY DEF IsTree
<1>1. PICK g \in [0..N -> S] : g[0] = z /\ \A n \in 1..N : g[n] = G[n][g[up[n]]]
  <2>1. G \in [1..N -> [S -> S]] /\ z \in S
    <3>1. \A n \in 1..N, s \in S : {n} \cup s \in S
      BY <1>0
    <3>2. \A n \in 1..N : [s \in S |-> {n} \cup s] \in [S -> S]
      BY <3>1
    <3> HIDE DEF S
    <3>3. G \in [1..N -> [S -> S]]
      BY <3>2
    <3> QED
      BY <1>0, <3>3 DEF S
  <2> HIDE DEF G, S, z
  <2>2. TreeStep(N, up, S, z, G)
    BY <2>1 DEF TreeStep
  <2> QED
    BY ONLY <2>2, TreeRecursion
<1>2. \A n \in 1..N : g[n] = {n} \cup g[up[n]]
  <2> HIDE DEF S
  <2> QED
    BY <1>0, <1>1
<1>3. Sat(g)
  <2>1. g = [n \in 0..N |-> g[n]]
    BY <1>1
  <2>2. g = [n \in 0..N |-> IF n = 0 THEN {0} ELSE {n} \cup g[up[n]]]
    BY <1>0, <1>1, <1>2, <2>1
  <2> QED
    BY <1>0, <2>2
<1>4. Sat(Ancestors(up))
  <2>1. Ancestors(up) = CHOOSE f : Sat(f)
    BY DEF Ancestors
  <2> HIDE DEF Sat
  <2> QED
    BY <1>3, <2>1
<1> DEFINE d == Ancestors(up)
<1>5. d = [n \in 0..N |-> IF n = 0 THEN {0} ELSE {n} \cup d[up[n]]]
  BY <1>0, <1>4
<1> HIDE DEF d
<1>6. d[0] = {0} /\ \A n \in 1..N : d[n] = {n} \cup d[up[n]]
  BY <1>0, <1>5
<1>7. \A n \in 0..N : d[n] \in SUBSET (0..N)
  <2> DEFINE T == {n \in 0..N : d[n] \in SUBSET (0..N)}
  <2>1. 0 \in T /\ T \in SUBSET (0..N) /\ \A n \in 1..N : up[n] \in T => n \in T
    BY <1>0, <1>6
  <2> HIDE DEF T
  <2>2. T = 0..N
    BY <2>1, TreeInduction DEF Hereditary
  <2> QED
    BY <2>2 DEF T
<1>8. d \in [0..N -> SUBSET (0..N)]
  BY <1>5, <1>7
<1> QED
  BY <1>6, <1>8 DEF d

\* The words on the way to every node.
PathOf(up, word) ==
  CHOOSE f : f = [n \in {0} \cup DOMAIN up |-> IF n = 0 THEN <<>> ELSE Append(f[up[n]], word[n])]

\* A tree whose nodes are labelled with words.
Labelled(N, up, W, word) == IsTree(N, up) /\ word \in [1..N -> W]

\* They are those of its parent and its own.
LEMMA PathOfIs ==
  ASSUME NEW N, NEW up, NEW W, NEW word, Labelled(N, up, W, word)
  PROVE  /\ PathOf(up, word) \in [0..N -> Seq(W)] /\ PathOf(up, word)[0] = <<>>
         /\ \A n \in 1..N : PathOf(up, word)[n] = Append(PathOf(up, word)[up[n]], word[n])
<1> IsTree(N, up) /\ word \in [1..N -> W]
  BY DEF Labelled
<1> DEFINE S == Seq(W)
           G == [n \in 1..N |-> [s \in S |-> Append(s, word[n])]]
           Sat(f) == f = [n \in {0} \cup DOMAIN up |-> IF n = 0 THEN <<>> ELSE Append(f[up[n]], word[n])]
           z == <<>>
<1>0. /\ N \in Nat /\ {0} \cup DOMAIN up = 0..N /\ 0 \in 0..N
      /\ \A n \in 1..N : n \in 0..N /\ n # 0 /\ up[n] \in 0..N
      /\ \A n \in (0..N) : n # 0 => n \in 1..N
  BY DEF IsTree
<1>a. \A n \in 1..N, s \in S : Append(s, word[n]) \in S
  <2> TAKE n \in 1..N, s \in S
  <2>1. word[n] \in W
    OBVIOUS
  <2> QED
    BY <2>1, AppendProperties
<1>b. z \in S
  OBVIOUS
<1>1. PICK g \in [0..N -> S] : g[0] = z /\ \A n \in 1..N : g[n] = G[n][g[up[n]]]
  <2>1. G \in [1..N -> [S -> S]]
    <3>2. \A n \in 1..N : [s \in S |-> Append(s, word[n])] \in [S -> S]
      BY <1>a
    <3> HIDE DEF S
    <3> QED
      BY <3>2
  <2> HIDE DEF G, S, z
  <2>2. TreeStep(N, up, S, z, G)
    BY <1>b, <2>1 DEF TreeStep
  <2> QED
    BY ONLY <2>2, TreeRecursion
<1>2. \A n \in 1..N : g[n] = Append(g[up[n]], word[n])
  <2> HIDE DEF S
  <2> QED
    BY <1>0, <1>1
<1>3. Sat(g)
  <2>1. g = [n \in 0..N |-> g[n]]
    BY <1>1
  <2> HIDE DEF S
  <2>2. g = [n \in 0..N |-> IF n = 0 THEN <<>> ELSE Append(g[up[n]], word[n])]
    BY <1>0, <1>1, <1>2, <2>1
  <2> QED
    BY <1>0, <2>2
<1>4. Sat(PathOf(up, word))
  <2>1. PathOf(up, word) = CHOOSE f : Sat(f)
    BY DEF PathOf
  <2> HIDE DEF Sat
  <2> QED
    BY <1>3, <2>1
<1> DEFINE d == PathOf(up, word)
<1>5. d = [n \in 0..N |-> IF n = 0 THEN <<>> ELSE Append(d[up[n]], word[n])]
  BY <1>0, <1>4
<1> HIDE DEF d
<1>6. d[0] = <<>> /\ \A n \in 1..N : d[n] = Append(d[up[n]], word[n])
  BY <1>0, <1>5
<1>7. \A n \in 0..N : d[n] \in S
  <2> DEFINE T == {n \in 0..N : d[n] \in S}
  <2>1. 0 \in T /\ T \in SUBSET (0..N) /\ \A n \in 1..N : up[n] \in T => n \in T
    BY <1>0, <1>6, <1>a, <1>b
  <2> HIDE DEF T
  <2>2. T = 0..N
    BY <2>1, TreeInduction DEF Hereditary
  <2> QED
    BY <2>2 DEF T
<1>8. d \in [0..N -> S]
  BY <1>5, <1>7
<1> QED
  BY <1>6, <1>8 DEF d

\* A node lies as deep as its path is long.
LEMMA PathLength ==
  ASSUME NEW N, NEW up, NEW W, NEW word, Labelled(N, up, W, word), NEW n \in 0..N
  PROVE  Len(PathOf(up, word)[n]) = Depth(up)[n]
<1> IsTree(N, up) /\ word \in [1..N -> W]
  BY DEF Labelled
<1> DEFINE d == Depth(up)
           w == PathOf(up, word)
           T == {m \in 0..N : Len(w[m]) = d[m]}
<1>1. /\ N \in Nat /\ \A m \in 1..N : m \in 0..N /\ up[m] \in 0..N
      /\ 0 \in 0..N
  BY DEF IsTree
<1>2. d \in [0..N -> Nat] /\ d[0] = 0 /\ \A m \in 1..N : d[m] = 1 + d[up[m]]
  BY DepthIs
<1>3. w \in [0..N -> Seq(W)] /\ w[0] = <<>> /\ \A m \in 1..N : w[m] = Append(w[up[m]], word[m])
  BY ONLY Labelled(N, up, W, word), PathOfIs
<1> HIDE DEF d, w
<1>4. 0 \in T
  BY <1>1, <1>2, <1>3
<1>5. ASSUME NEW m \in 1..N, up[m] \in T PROVE m \in T
  <2>1. w[up[m]] \in Seq(W) /\ word[m] \in W /\ Len(w[up[m]]) = d[up[m]]
    BY <1>1, <1>3, <1>5
  <2>2. Len(w[m]) = Len(w[up[m]]) + 1
    BY <1>3, <2>1, AppendProperties
  <2> QED
    BY <1>1, <1>2, <2>1, <2>2
<1>6. T = 0..N
  <2>1. T \subseteq 0..N
    OBVIOUS
  <2> HIDE DEF T
  <2> QED
    BY <1>4, <1>5, <2>1, TreeInduction DEF Hereditary
<1> QED
  BY <1>6 DEF d, w

\* What a row sees of the tree, and the text it is to see.
RowSeen(up, word, c, root, n) ==
  {<<c + Depth(up)[j], IF j = 0 THEN root ELSE <<word[j]>>>> : j \in Ancestors(up)[n]}
RowText(up, word, c, root, n) ==
  {<<c, root>>} \cup {<<c + i, <<PathOf(up, word)[n][i]>>>> : i \in 1..Len(PathOf(up, word)[n])}

\* What a row that sees a node's ancestors sees of the tree is the node's path.
LEMMA PathSeen ==
  ASSUME NEW N, NEW up, NEW W, NEW word, Labelled(N, up, W, word), NEW n \in 0..N,
         NEW c \in Nat, NEW root
  PROVE  RowSeen(up, word, c, root, n) = RowText(up, word, c, root, n)
<1> IsTree(N, up) /\ word \in [1..N -> W]
  BY DEF Labelled
<1> DEFINE d == Depth(up)
           w == PathOf(up, word)
           a == Ancestors(up)
           cell(j) == <<c + d[j], IF j = 0 THEN root ELSE <<word[j]>>>>
           way(m) == {<<c, root>>} \cup {<<c + i, <<w[m][i]>>>> : i \in 1..Len(w[m])}
           T == {m \in 0..N : {cell(j) : j \in a[m]} = way(m)}
<1>1. /\ N \in Nat /\ \A m \in 1..N : m \in 0..N /\ up[m] \in 0..N
      /\ 0 \in 0..N
  BY DEF IsTree
<1>2. d \in [0..N -> Nat] /\ d[0] = 0 /\ \A m \in 1..N : d[m] = 1 + d[up[m]]
  BY DepthIs
<1>3. w \in [0..N -> Seq(W)] /\ w[0] = <<>> /\ \A m \in 1..N : w[m] = Append(w[up[m]], word[m])
  BY ONLY Labelled(N, up, W, word), PathOfIs
<1>4. a[0] = {0} /\ \A m \in 1..N : a[m] = {m} \cup a[up[m]]
  BY AncestorsIs
<1>5. \A m \in 0..N : Len(w[m]) = d[m]
  BY PathLength
<1> HIDE DEF d, w, a
<1>6. 0 \in T
  <2>1. {cell(j) : j \in a[0]} = {<<c, root>>}
    BY <1>2, <1>4
  <2>2. way(0) = {<<c, root>>}
    BY <1>1, <1>3
  <2> QED
    BY <1>1, <2>1, <2>2
<1>7. ASSUME NEW m \in 1..N, up[m] \in T PROVE m \in T
  <2> DEFINE u == up[m]
             l == Len(w[u])
  <2>0. u \in 0..N /\ u \in T /\ w[u] \in Seq(W) /\ word[m] \in W /\ m # 0
    <3>1. u \in T
      BY <1>7
    <3> HIDE DEF T
    <3> QED
      BY <1>1, <1>3, <3>1
  <2>1. w[m] = Append(w[u], word[m])
    BY <1>3
  <2> HIDE DEF u
  <2>2. l \in Nat /\ Len(w[m]) = l + 1 /\ w[m][l + 1] = word[m] /\ \A i \in 1..l : w[m][i] = w[u][i]
    BY <2>0, <2>1, AppendProperties, LenProperties
  <2>3. d[m] = l + 1
    BY <1>1, <1>5, <2>2
  <2> HIDE DEF l
  <2>4. cell(m) = <<c + (l + 1), <<w[m][l + 1]>>>>
    BY <2>0, <2>2, <2>3
  <2>5. {cell(j) : j \in a[m]} = {cell(m)} \cup {cell(j) : j \in a[u]}
    BY <1>4 DEF u
  <2>6. {cell(j) : j \in a[u]} = way(u)
    BY <2>0
  <2>7. way(m) = way(u) \cup {<<c + (l + 1), <<w[m][l + 1]>>>>}
    <3>1. 1..Len(w[m]) = (1..l) \cup {l + 1}
      BY <2>2
    <3>2. Len(w[u]) = l
      BY DEF l
    <3>3. {<<c + i, <<w[m][i]>>>> : i \in 1..l} = {<<c + i, <<w[u][i]>>>> : i \in 1..l}
      BY <2>2
    <3>4. {<<c + i, <<w[m][i]>>>> : i \in 1..Len(w[m])}
            = {<<c + i, <<w[m][i]>>>> : i \in 1..l} \cup {<<c + (l + 1), <<w[m][l + 1]>>>>}
      BY <3>1
    <3> QED
      BY <3>2, <3>3, <3>4
  <2> HIDE DEF cell, way
  <2>8. {cell(j) : j \in a[m]} = way(m)
    BY <2>4, <2>5, <2>6, <2>7
  <2> QED
    BY <1>1, <2>8
<1>8. T = 0..N
  <2>1. T \subseteq 0..N
    OBVIOUS
  <2> HIDE DEF T
  <2> QED
    BY <1>6, <1>7, <2>1, TreeInduction DEF Hereditary
<1>9. {cell(j) : j \in a[n]} = way(n)
  <2> HIDE DEF cell, way
  <2> QED
    BY <1>8
<1> QED
  BY <1>9 DEF d, w, a, RowSeen, RowText

\* Sequences that end alike are alike before the end.
LEMMA AppendsAlike ==
  ASSUME NEW W, NEW s \in Seq(W), NEW t \in Seq(W), NEW x \in W, NEW y \in W,
         Append(s, x) = Append(t, y)
  PROVE  s = t /\ x = y
<1>1. Len(s) = Len(t) /\ Len(s) \in Nat
  BY AppendProperties, LenProperties
<1>2. x = y
  BY <1>1, AppendProperties
<1>3. \A i \in 1..Len(s) : s[i] = t[i]
  BY <1>1, AppendProperties
<1>4. s = [i \in 1..Len(s) |-> s[i]] /\ t = [i \in 1..Len(t) |-> t[i]]
  OBVIOUS
<1> QED
  BY <1>1, <1>2, <1>3, <1>4

\* Where siblings differ in their words, nodes differ in their paths.
LEMMA PathsApart ==
  ASSUME NEW N, NEW up, NEW W, NEW word, Labelled(N, up, W, word),
         \A m, n \in 1..N : m # n /\ up[m] = up[n] => word[m] # word[n],
         NEW m \in 0..N, NEW n \in 0..N, PathOf(up, word)[m] = PathOf(up, word)[n]
  PROVE  m = n
<1> IsTree(N, up) /\ word \in [1..N -> W]
  BY DEF Labelled
<1> DEFINE w == PathOf(up, word)
           T == {x \in 0..N : \A y \in 0..N : w[x] = w[y] => x = y}
<1>1. /\ N \in Nat /\ \A x \in 1..N : x \in 0..N /\ up[x] \in 0..N
      /\ 0 \in 0..N /\ \A x \in 0..N : x # 0 => x \in 1..N
  BY DEF IsTree
<1>3. w \in [0..N -> Seq(W)] /\ w[0] = <<>> /\ \A x \in 1..N : w[x] = Append(w[up[x]], word[x])
  BY ONLY Labelled(N, up, W, word), PathOfIs
<1> HIDE DEF w
<1>4. \A x \in 1..N : w[up[x]] \in Seq(W) /\ word[x] \in W /\ w[x] # <<>>
  <2> TAKE x \in 1..N
  <2>1. w[up[x]] \in Seq(W) /\ word[x] \in W
    BY <1>1, <1>3
  <2>2. Append(w[up[x]], word[x]) # <<>>
    BY <2>1, AppendProperties
  <2> QED
    BY <1>3, <2>1, <2>2
<1>6. 0 \in T
  BY <1>1, <1>3, <1>4
<1>7. ASSUME NEW x \in 1..N, up[x] \in T PROVE x \in T
  <2>1. SUFFICES ASSUME NEW y \in 0..N, w[x] = w[y] PROVE x = y
    BY <1>1
  <2>2. y \in 1..N
    BY <1>1, <1>3, <1>4, <2>1
  <2>3. w[up[x]] = w[up[y]] /\ word[x] = word[y]
    <3>1. Append(w[up[x]], word[x]) = Append(w[up[y]], word[y])
      BY <1>3, <2>1, <2>2
    <3>2. /\ w[up[x]] \in Seq(W) /\ word[x] \in W
          /\ w[up[y]] \in Seq(W) /\ word[y] \in W
      BY <1>4, <2>2
    <3> DEFINE s == w[up[x]]
               t == w[up[y]]
    <3> HIDE DEF s, t
    <3>3. Append(s, word[x]) = Append(t, word[y]) /\ s \in Seq(W) /\ t \in Seq(W) /\ word[x] \in W /\ word[y] \in W
      BY <3>1, <3>2 DEF s, t
    <3>4. s = t /\ word[x] = word[y]
      BY ONLY <3>3, AppendsAlike
    <3> QED
      BY <3>4 DEF s, t
  <2>4. up[x] = up[y]
    BY <1>1, <1>7, <2>2, <2>3
  <2> QED
    BY <2>2, <2>3, <2>4
<1>8. T = 0..N
  <2>1. T \subseteq 0..N
    OBVIOUS
  <2> HIDE DEF T
  <2> QED
    BY <1>6, <1>7, <2>1, TreeInduction DEF Hereditary
<1> QED
  BY <1>8 DEF w

\* In a chain every node follows the one before: it lies as deep as its
\* number and sees all numbers up to its own.
LEMMA ChainIs ==
  ASSUME NEW N, NEW up, IsTree(N, up), \A n \in 1..N : up[n] = n - 1, NEW n \in 0..N
  PROVE  Depth(up)[n] = n /\ Ancestors(up)[n] = 0..n
<1> DEFINE d == Depth(up)
           a == Ancestors(up)
           T == {m \in 0..N : d[m] = m /\ a[m] = 0..m}
<1>1. /\ N \in Nat /\ \A m \in 1..N : m \in 0..N /\ up[m] \in 0..N
      /\ 0 \in 0..N
  BY DEF IsTree
<1>2. d[0] = 0 /\ \A m \in 1..N : d[m] = 1 + d[up[m]]
  BY DepthIs
<1>4. a[0] = {0} /\ \A m \in 1..N : a[m] = {m} \cup a[up[m]]
  BY AncestorsIs
<1> HIDE DEF d, a
<1>6. 0 \in T
  BY <1>1, <1>2, <1>4
<1>7. ASSUME NEW m \in 1..N, up[m] \in T PROVE m \in T
  <2>1. up[m] = m - 1 /\ d[m - 1] = m - 1 /\ a[m - 1] = 0..(m - 1)
    BY <1>7
  <2>2. d[m] = m
    BY <1>2, <2>1
  <2>3. {m} \cup 0..(m - 1) = 0..m
    OBVIOUS
  <2> QED
    BY <1>1, <1>4, <2>1, <2>2, <2>3
<1>8. T = 0..N
  <2>1. T \subseteq 0..N
    OBVIOUS
  <2> HIDE DEF T
  <2> QED
    BY <1>6, <1>7, <2>1, TreeInduction DEF Hereditary
<1> QED
  BY <1>8 DEF d, a

-----------------------------------------------------------------------------
(* Drafts                                                                    *)

\* Where the number of a later expansion puts it: the step, the slot, and the
\* kernel's number for the slot.
LEMMA ExpansionIs ==
  ASSUME NEW k \in Nat \ {0}, NEW x \in Nat, k <= x
  PROVE  /\ Step(k, x) \in Nat \ {0} /\ Slot(k, x) \in 0..(k - 1) /\ x \div k \in Nat
         /\ x \div k = (Step(k, x) - 1) * k + Slot(k, x) + 1
         /\ k + (Step(k, x) - 1) * (k * k) <= x
<1> DEFINE y == x - k
           w == k * k
           q == y \div w
           m == y % w
           s == m \div k
           r == m % k
<1>1. y \in Nat /\ w \in Nat \ {0} /\ w = k * k
  <2>1. y \in Nat
    OBVIOUS
  <2>2. 1 * k <= k * k /\ k * k \in Nat
    BY Products
  <2> QED
    BY <2>1, <2>2
<1>2. q \in Nat /\ m \in 0..(w - 1) /\ m \in Nat /\ y = q * w + m
  <2> HIDE DEF y, w
  <2> QED
    BY <1>1, Divides
<1>3. s \in Nat /\ r \in 0..(k - 1) /\ r \in Nat /\ m = s * k + r
  <2> HIDE DEF m
  <2> QED
    BY <1>2, Divides
<1>4. Step(k, x) = q + 1 /\ Slot(k, x) = s
  BY DEF Step, Slot
<1> HIDE DEF y, w, q, m, s, r
<1>5. s \in 0..(k - 1)
  <2>1. SUFFICES ASSUME k <= s PROVE FALSE
    BY <1>3
  <2>2. k * k <= s * k /\ s * k \in Nat
    BY <1>3, <2>1, Products
  <2> QED
    BY <1>1, <1>2, <1>3, <2>2
<1>6. x = (q * k + s + 1) * k + r /\ q * k + s + 1 \in Nat
  <2>1. q * (k * k) = (q * k) * k /\ q * k \in Nat
    BY <1>2
  <2>2. (q * k + s + 1) * k = (q * k) * k + s * k + k
    BY <1>2, <1>3, <2>1
  <2>3. x = y + k
    BY DEF y
  <2> QED
    BY <1>1, <1>2, <1>3, <2>1, <2>2, <2>3
<1>7. x \div k = q * k + s + 1
  <2> DEFINE z == q * k + s + 1
  <2> HIDE DEF z
  <2>1. (z * k + r) \div k = z
    BY <1>3, <1>6, Divided DEF z
  <2> QED
    BY <1>6, <2>1 DEF z
<1>8. k + q * (k * k) <= x
  <2>1. x = k + (q * (k * k) + m) /\ q * (k * k) \in Nat
    BY <1>1, <1>2 DEF y
  <2> QED
    BY <1>2, <2>1
<1>9. (q + 1) - 1 = q
  BY <1>2
<1> QED
  BY <1>2, <1>4, <1>5, <1>6, <1>7, <1>8, <1>9

\* The expansions of a step are below those of the next.
LEMMA ExpansionsBelow ==
  ASSUME NEW k \in Nat \ {0}, NEW i \in Nat, NEW x \in Expansions(k, i)
  PROVE  x \in Nat /\ Step(k, x) = i /\ x < k + i * (k * k) /\ (i = 0 <=> x < k)
<1>1. i * k * k = i * (k * k) /\ i * (k * k) \in Nat /\ k * k \in Nat
  OBVIOUS
<1>2. x \in Nat /\ Step(k, x) = i /\ x < k + i * (k * k)
  BY <1>1 DEF Expansions
<1>3. CASE x < k
  BY <1>2, <1>3 DEF Step
<1>4. CASE k <= x
  BY <1>2, <1>4, ExpansionIs
<1> QED
  BY <1>2, <1>3, <1>4

\* An expansion of a search belongs to one of its steps.
LEMMA ExpansionOf ==
  ASSUME NEW k \in Nat \ {0}, NEW levels \in Nat, NEW x \in AllExpansions(k, levels)
  PROVE  x \in Nat /\ Step(k, x) \in 0..(levels - 1) /\ x \in Expansions(k, Step(k, x))
<1>1. PICK i \in 0..(levels - 1) : x \in Expansions(k, i)
  BY DEF AllExpansions
<1>2. i \in Nat
  OBVIOUS
<1> QED
  BY <1>1, <1>2, ExpansionsBelow

IsSearch(k, levels, search) ==
  k \in Nat \ {0} /\ levels \in Nat \ {0} /\ search \in Searches(k, levels)

\* The beam of a step holds different expansions of that step.
LEMMA BeamIs ==
  ASSUME NEW k, NEW levels, NEW search, IsSearch(k, levels, search), NEW i \in 1..levels
  PROVE  /\ search.beams[i] \in [1..k -> Expansions(k, i - 1)]
         /\ IsInjective(search.beams[i])
<1> k \in Nat \ {0} /\ levels \in Nat \ {0}
  BY DEF IsSearch
<1>1. search.beams[i] \in BeamsOf(k, i - 1)
  BY DEF IsSearch, Searches
<1>2. CASE i - 1 = 0
  <2>1. search.beams[i] = [m \in 1..k |-> m - 1]
    BY <1>1, <1>2 DEF BeamsOf
  <2>2. \A m \in 1..k : m - 1 \in Expansions(k, i - 1)
    <3> TAKE m \in 1..k
    <3>1. m - 1 \in 0..(k - 1) /\ Step(k, m - 1) = 0 /\ (i - 1) * k * k = 0
      BY <1>2 DEF Step
    <3>2. m - 1 \in 0..(k + (i - 1) * k * k - 1)
      BY <3>1
    <3> QED
      BY <1>2, <3>1, <3>2 DEF Expansions
  <2> QED
    BY <2>1, <2>2 DEF IsInjective
<1>3. CASE i - 1 # 0
  BY <1>1, <1>3 DEF BeamsOf, Seqs
<1> QED
  BY <1>2, <1>3

\* A later expansion hangs from one of the step before it, a smaller number.
LEMMA ParentIs ==
  ASSUME NEW k, NEW levels, NEW search, IsSearch(k, levels, search),
         NEW x \in AllExpansions(k, levels), k <= x
  PROVE  /\ Step(k, x) \in 1..(levels - 1)
         /\ ParentOf(k, search.beams, x) = search.beams[Step(k, x)][Slot(k, x) + 1]
         /\ ParentOf(k, search.beams, x) \in Expansions(k, Step(k, x) - 1)
         /\ ParentOf(k, search.beams, x) \in AllExpansions(k, levels)
         /\ Step(k, ParentOf(k, search.beams, x)) = Step(k, x) - 1
         /\ ParentOf(k, search.beams, x) \in Nat /\ ParentOf(k, search.beams, x) < x
<1> k \in Nat \ {0} /\ levels \in Nat \ {0}
  BY DEF IsSearch
<1> DEFINE i == Step(k, x)
           s == Slot(k, x)
           p == ParentOf(k, search.beams, x)
<1>1. x \in Nat /\ i \in 0..(levels - 1)
  BY ExpansionOf
<1>2. i \in Nat \ {0} /\ s \in 0..(k - 1) /\ k + (i - 1) * (k * k) <= x
  BY <1>1, ExpansionIs
<1>3. p = search.beams[i][s + 1]
  BY <1>1 DEF ParentOf
<1> HIDE DEF i, s, p
<1>4. i \in 1..levels /\ i \in 1..(levels - 1) /\ s + 1 \in 1..k /\ i - 1 \in 0..(levels - 1) /\ i - 1 \in Nat
  BY <1>1, <1>2
<1>5. p \in Expansions(k, i - 1)
  BY <1>3, <1>4, BeamIs
<1>6. p \in Nat /\ Step(k, p) = i - 1 /\ p < k + (i - 1) * (k * k)
  BY <1>4, <1>5, ExpansionsBelow
<1>7. p < x
  <2>1. (i - 1) * (k * k) \in Nat
    BY <1>4
  <2> QED
    BY <1>1, <1>2, <1>6, <2>1
<1>8. p \in AllExpansions(k, levels)
  BY <1>4, <1>5 DEF AllExpansions
<1> QED
  BY <1>3, <1>4, <1>5, <1>6, <1>7, <1>8 DEF i, s, p

\* Expansions that hang from the same parent, or are both of the first step,
\* differ in their tokens.
LEMMA SiblingsDiffer ==
  ASSUME NEW k, NEW levels, NEW search, IsSearch(k, levels, search),
         NEW x \in AllExpansions(k, levels), NEW y \in AllExpansions(k, levels), x # y,
         \/ x < k /\ y < k
         \/ k <= x /\ k <= y /\ ParentOf(k, search.beams, x) = ParentOf(k, search.beams, y)
  PROVE  search.tokens[x] # search.tokens[y]
<1> k \in Nat \ {0} /\ levels \in Nat \ {0}
  BY DEF IsSearch
<1>1. \A u, v \in AllExpansions(k, levels) :
        (u # v /\ Step(k, u) = Step(k, v) /\ (u < k \/ Slot(k, u) = Slot(k, v)))
          => search.tokens[u] # search.tokens[v]
  BY DEF IsSearch, Searches
<1>2. CASE x < k /\ y < k
  <2>1. Step(k, x) = 0 /\ Step(k, y) = 0
    BY <1>2 DEF Step
  <2> QED
    BY <1>1, <1>2, <2>1
<1>3. CASE k <= x /\ k <= y /\ ParentOf(k, search.beams, x) = ParentOf(k, search.beams, y)
  <2>0. x \in Nat /\ y \in Nat
    BY ExpansionOf
  <2>1. /\ Step(k, x) \in 1..(levels - 1) /\ Step(k, y) \in 1..(levels - 1)
        /\ ParentOf(k, search.beams, x) = search.beams[Step(k, x)][Slot(k, x) + 1]
        /\ ParentOf(k, search.beams, y) = search.beams[Step(k, y)][Slot(k, y) + 1]
        /\ Step(k, ParentOf(k, search.beams, x)) = Step(k, x) - 1
        /\ Step(k, ParentOf(k, search.beams, y)) = Step(k, y) - 1
    BY <1>3, ParentIs
  <2>2. Step(k, x) = Step(k, y)
    BY <1>3, <2>1
  <2>3. Slot(k, x) \in 0..(k - 1) /\ Slot(k, y) \in 0..(k - 1)
    BY <1>3, <2>0, ExpansionIs
  <2> DEFINE b == search.beams[Step(k, x)]
  <2>4. Step(k, x) \in 1..levels
    BY <2>1
  <2>5. b \in [1..k -> Expansions(k, Step(k, x) - 1)] /\ IsInjective(b)
    BY <2>4, BeamIs
  <2>6. b[Slot(k, x) + 1] = b[Slot(k, y) + 1]
    BY <1>3, <2>1, <2>2
  <2>7. Slot(k, x) + 1 \in 1..k /\ Slot(k, y) + 1 \in 1..k
    BY <2>3
  <2> HIDE DEF b
  <2>8. Slot(k, x) + 1 = Slot(k, y) + 1
    BY <2>5, <2>6, <2>7 DEF IsInjective
  <2>9. Slot(k, x) = Slot(k, y)
    BY <2>3, <2>8
  <2> QED
    BY <1>1, <2>2, <2>9
<1> QED
  BY <1>2, <1>3

\* A function on 1..n is a list of length n.
LEMMA ListOf ==
  ASSUME NEW n \in Nat, NEW S, NEW f \in [1..n -> S]
  PROVE  f \in Seq(S) /\ Len(f) = n
OBVIOUS

IsSelection(k, levels, search, nd, s) ==
  /\ IsSearch(k, levels, search) /\ nd \in Nat \ {0}
  /\ s \in Selections(k, levels, nd, search.beams)

\* A selection lists different expansions in order, each after the one it
\* hangs from.
LEMMA SelectedIs ==
  ASSUME NEW k, NEW levels, NEW search, NEW nd, NEW s, IsSelection(k, levels, search, nd, s)
  PROVE  /\ s \in [1..(nd - 1) -> AllExpansions(k, levels)] /\ Len(s) = nd - 1
         /\ \A i, j \in 1..(nd - 1) : i < j => s[i] < s[j]
         /\ \A i, j \in 1..(nd - 1) : s[i] = s[j] => i = j
         /\ \A i \in 1..(nd - 1) : k <= s[i] =>
              \E j \in 1..(nd - 1) : j < i /\ s[j] = ParentOf(k, search.beams, s[i])
<1>0. k \in Nat \ {0} /\ levels \in Nat \ {0} /\ nd \in Nat \ {0} /\ nd - 1 \in Nat /\ IsSearch(k, levels, search)
  BY DEF IsSelection, IsSearch
<1>1. /\ s \in [1..(nd - 1) -> AllExpansions(k, levels)]
      /\ \A i, j \in 1..(nd - 1) : i < j => s[i] < s[j]
      /\ \A y \in Range(s), x \in AllExpansions(k, levels) : Better(k, search.beams, x, y) => x \in Range(s)
  BY DEF IsSelection, Selections, Seqs
<1>2. Len(s) = nd - 1
  BY <1>0, <1>1, ListOf
<1>3. \A i \in 1..(nd - 1) : s[i] \in Nat /\ s[i] \in AllExpansions(k, levels)
  <2> TAKE i \in 1..(nd - 1)
  <2>1. s[i] \in AllExpansions(k, levels)
    BY <1>1
  <2> QED
    BY <1>0, <2>1, ExpansionOf
<1>4. \A i, j \in 1..(nd - 1) : s[i] = s[j] => i = j
  <2> TAKE i, j \in 1..(nd - 1)
  <2>1. i < j \/ j < i \/ i = j
    OBVIOUS
  <2>2. i < j => s[i] < s[j]
    BY <1>1
  <2>3. j < i => s[j] < s[i]
    BY <1>1
  <2> QED
    BY <1>3, <2>1, <2>2, <2>3
<1>5. ASSUME NEW i \in 1..(nd - 1), k <= s[i]
      PROVE  \E j \in 1..(nd - 1) : j < i /\ s[j] = ParentOf(k, search.beams, s[i])
  <2> DEFINE p == ParentOf(k, search.beams, s[i])
  <2>1. s[i] \in AllExpansions(k, levels) /\ s[i] \in Nat
    BY <1>3
  <2>2. p \in AllExpansions(k, levels) /\ p \in Nat /\ p < s[i]
    BY <1>0, <1>5, <2>1, ParentIs
  <2>3. Better(k, search.beams, p, s[i])
    BY DEF Better
  <2> HIDE DEF p
  <2>4. s[i] \in Range(s)
    BY <1>1 DEF Range
  <2>5. p \in Range(s)
    BY <1>1, <2>2, <2>3, <2>4
  <2>6. PICK j \in 1..(nd - 1) : s[j] = p
    BY <1>1, <2>5 DEF Range
  <2>7. j < i
    <3>1. SUFFICES ASSUME i < j \/ i = j PROVE FALSE
      OBVIOUS
    <3>2. i < j => s[i] < s[j]
      BY <1>1
    <3> QED
      BY <2>1, <2>2, <2>6, <3>1, <3>2
  <2> QED
    BY <2>6, <2>7 DEF p
<1> QED
  BY <1>1, <1>2, <1>4, <1>5

\* What n requests drafted.
Drafts(k, levels, nd, n, searches, selected) ==
  /\ n \in Nat /\ DOMAIN searches = 1..n /\ Len(searches) = n
  /\ \A b \in 1..n : IsSelection(k, levels, searches[b], nd, selected[b])

\* The kernel finds every node's parent: the root for an expansion of the
\* first step, else the node that was selected for what it hangs from.
LEMMA NodeParentIs ==
  ASSUME NEW k, NEW levels, NEW nd, NEW n, NEW searches, NEW selected,
         Drafts(k, levels, nd, n, searches, selected),
         NEW b \in 0..(n - 1), NEW i \in 1..(nd - 1), NEW parent,
         parent = NodeParent(k, levels, Parents(k, levels, searches), selected, b, i)
  PROVE  /\ parent \in 0..(nd - 1) /\ parent < i
         /\ selected[b + 1][i] < k => parent = 0
         /\ k <= selected[b + 1][i] =>
              /\ parent \in 1..(nd - 1)
              /\ selected[b + 1][parent] = ParentOf(k, searches[b + 1].beams, selected[b + 1][i])
<1> DEFINE s == selected[b + 1]
           search == searches[b + 1]
           x == s[i]
           tb == x \div k
           w == Stride(k, levels)
           p == ParentOf(k, search.beams, x)
<1>0. n \in Nat /\ b \in Nat /\ b + 1 \in 1..n /\ Len(searches) = n
  BY DEF Drafts
<1>1. IsSelection(k, levels, search, nd, s)
  BY <1>0 DEF Drafts
<1>2. k \in Nat \ {0} /\ levels \in Nat \ {0} /\ nd \in Nat \ {0} /\ IsSearch(k, levels, search)
  BY <1>1 DEF IsSelection, IsSearch
<1>3. /\ s \in [1..(nd - 1) -> AllExpansions(k, levels)] /\ Len(s) = nd - 1
      /\ \A j, l \in 1..(nd - 1) : s[j] = s[l] => j = l
      /\ \A j \in 1..(nd - 1) : k <= s[j] =>
           \E l \in 1..(nd - 1) : l < j /\ s[l] = ParentOf(k, search.beams, s[j])
  BY <1>1, SelectedIs
<1> HIDE DEF s, search
<1>4. x \in AllExpansions(k, levels) /\ x \in Nat
  <2>1. x \in AllExpansions(k, levels)
    BY <1>3
  <2> QED
    BY <1>2, <2>1, ExpansionOf
<1>5. parent = IF tb = 0 THEN 0
               ELSE CHOOSE j \in 1..Len(s) : s[j] = Parents(k, levels, searches)[b * w + tb]
  BY DEF NodeParent, s
<1> HIDE DEF x
<1>6. CASE x < k
  <2>1. x = 0 * k + x /\ x \in 0..(k - 1)
    BY <1>2, <1>4, <1>6
  <2>2. tb = 0
    BY <1>2, <2>1, Divided
  <2> HIDE DEF tb
  <2>3. parent = 0
    BY <1>5, <2>2
  <2>4. ~(k <= x) /\ nd - 1 \in Nat /\ 0 < i
    BY <1>2, <1>4, <1>6
  <2> QED
    BY <1>2, <2>3, <2>4 DEF x, s
<1>7. CASE k <= x
  <2> DEFINE t == Step(k, x)
             slot == Slot(k, x)
  <2>1. /\ t \in 1..(levels - 1) /\ p = search.beams[t][slot + 1]
    BY <1>2, <1>4, <1>7, ParentIs
  <2>2. t \in Nat \ {0} /\ slot \in 0..(k - 1) /\ tb = (t - 1) * k + slot + 1
    BY <1>2, <1>4, <1>7, ExpansionIs
  <2> HIDE DEF t, slot, tb, p
  <2>3. w = k * (levels - 1) + 1 /\ w \in Nat \ {0} /\ levels # 1
    <3>1. k * (levels - 1) \in Nat
      BY <1>2
    <3> QED
      BY <1>2, <2>1, <3>1 DEF Stride
  <2>4. tb \in 1..(w - 1) /\ tb - 1 = (t - 1) * k + slot
    <3>1. t - 1 \in Nat /\ levels - 2 \in Nat /\ t - 1 <= levels - 2
      BY <1>2, <2>1, <2>2
    <3>2. (t - 1) * k <= (levels - 2) * k /\ (t - 1) * k \in Nat /\ (levels - 2) * k \in Nat
          /\ ((levels - 2) + 1) * k = (levels - 2) * k + k
      BY <1>2, <3>1, Products
    <3>3. k * (levels - 1) = (levels - 2) * k + k
      BY <1>2, <3>2
    <3> QED
      BY <1>2, <2>2, <2>3, <3>2, <3>3
  <2> HIDE DEF w
  <2>5. Parents(k, levels, searches)[b * w + tb] = ParentEntry(k, search.beams, tb)
    <3>1. b * w + tb \in 0..(n * w - 1)
      <4>1. b * w \in Nat /\ n * w \in Nat /\ b * w + w <= n * w
        BY <1>0, <2>3, Products
      <4> QED
        BY <2>3, <2>4, <4>1
    <3>2. Parents(k, levels, searches)
            = [y \in 0..(n * w - 1) |-> ParentEntry(k, searches[(y \div w) + 1].beams, y % w)]
      BY <1>0, <2>3 DEF Parents, w
    <3>3. (b * w + tb) \div w = b /\ (b * w + tb) % w = tb
      <4>1. tb \in 0..(w - 1)
        BY <2>3, <2>4
      <4>2. b \in Nat /\ w \in Nat \ {0}
        BY <1>0, <2>3
      <4> QED
        BY ONLY <4>1, <4>2, Divided
    <3> QED
      BY <3>1, <3>2, <3>3 DEF search
  <2>6. ParentEntry(k, search.beams, tb) = p
    <3>1. (tb - 1) \div k = t - 1 /\ (tb - 1) % k = slot
      <4>1. t - 1 \in Nat
        BY <2>2
      <4> DEFINE z == t - 1
      <4> HIDE DEF z
      <4>2. (z * k + slot) \div k = z /\ (z * k + slot) % k = slot
        BY <1>2, <2>2, <4>1, Divided DEF z
      <4> QED
        BY <2>4, <4>2 DEF z
    <3>2. (t - 1) + 1 = t /\ tb # 0
      BY <2>2, <2>4
    <3> QED
      BY <2>1, <3>1, <3>2 DEF ParentEntry
  <2>7. PICK l \in 1..(nd - 1) : l < i /\ s[l] = p
    BY <1>3, <1>7 DEF x, p
  <2>8. parent = CHOOSE j \in 1..Len(s) : s[j] = p
    <3>1. tb # 0
      BY <2>4
    <3> QED
      BY <1>5, <2>5, <2>6, <3>1
  <2>9. parent \in 1..(nd - 1) /\ s[parent] = p
    BY <1>3, <2>7, <2>8
  <2>10. parent = l
    BY <1>3, <2>7, <2>9
  <2>11. ~(x < k)
    BY <1>2, <1>4, <1>7
  <2> QED
    BY <1>2, <2>7, <2>9, <2>10, <2>11 DEF x, s, p, search
<1> QED
  BY <1>2, <1>4, <1>6, <1>7

\* The links and tokens that the kernel gives the nodes of request b.
UpOf(k, plan, searches, selected, b) ==
  [i \in 1..(plan.nd - 1) |-> NodeParent(k, plan.steps, Parents(k, plan.steps, searches), selected, b - 1, i)]
TokenOf(plan, searches, selected, b) ==
  [i \in 1..(plan.nd - 1) |-> searches[b].tokens[selected[b][i]]]

DraftOf(k, plan, n, searches, selected, b) ==
  Drafts(k, plan.steps, plan.nd, n, searches, selected) /\ b \in 1..n

\* Nodes hang as their expansions do.
HangsFrom(k, search, s, N, up) ==
  /\ IsTree(N, up)
  /\ \A m \in 1..N : /\ s[m] < k => up[m] = 0
                     /\ k <= s[m] => up[m] \in 1..N /\ s[up[m]] = ParentOf(k, search.beams, s[m])

\* They make a tree: a node follows its parent, and siblings are siblings in
\* the search.
LEMMA NodesAre ==
  ASSUME NEW k, NEW plan, NEW n, NEW searches, NEW selected, NEW b,
         DraftOf(k, plan, n, searches, selected, b)
  PROVE  HangsFrom(k, searches[b], selected[b], plan.nd - 1, UpOf(k, plan, searches, selected, b))
<1> Drafts(k, plan.steps, plan.nd, n, searches, selected) /\ b \in 1..n
  BY DEF DraftOf
<1> DEFINE up == UpOf(k, plan, searches, selected, b)
<1>0. n \in Nat /\ b - 1 \in 0..(n - 1) /\ (b - 1) + 1 = b
  BY DEF Drafts
<1>1. plan.nd - 1 \in Nat /\ k \in Nat
  BY DEF Drafts, IsSelection, IsSearch
<1>2. ASSUME NEW i \in 1..(plan.nd - 1)
      PROVE  LET x == selected[b][i]
                 u == up[i]
             IN /\ u \in 0..(plan.nd - 1) /\ u < i
                /\ x < k => u = 0
                /\ k <= x => u \in 1..(plan.nd - 1) /\ selected[b][u] = ParentOf(k, searches[b].beams, x)
  <2> DEFINE c == b - 1
             u == up[i]
  <2>1. u = NodeParent(k, plan.steps, Parents(k, plan.steps, searches), selected, c, i) /\ c \in 0..(n - 1)
    BY <1>0 DEF UpOf
  <2>2. c + 1 = b
    BY <1>0
  <2> HIDE DEF c, u
  <2>3. /\ u \in 0..(plan.nd - 1) /\ u < i
        /\ selected[c + 1][i] < k => u = 0
        /\ k <= selected[c + 1][i] =>
              /\ u \in 1..(plan.nd - 1)
              /\ selected[c + 1][u] = ParentOf(k, searches[c + 1].beams, selected[c + 1][i])
    BY <2>1, NodeParentIs
  <2> QED
    BY <2>2, <2>3 DEF u
<1>3. up = [i \in 1..(plan.nd - 1) |-> up[i]]
  BY DEF UpOf
<1> HIDE DEF up
<1>4. IsTree(plan.nd - 1, up)
  BY <1>1, <1>2, <1>3 DEF IsTree
<1> QED
  BY <1>2, <1>4 DEF HangsFrom, up

\* A node lies one deeper than the step it comes from.
LEMMA NodeDepth ==
  ASSUME NEW k, NEW plan, NEW n, NEW searches, NEW selected, NEW b,
         DraftOf(k, plan, n, searches, selected, b),
         NEW i \in 1..(plan.nd - 1)
  PROVE  /\ Depth(UpOf(k, plan, searches, selected, b))[i] = Step(k, selected[b][i]) + 1
         /\ Depth(UpOf(k, plan, searches, selected, b))[i] <= plan.steps
<1> Drafts(k, plan.steps, plan.nd, n, searches, selected) /\ b \in 1..n
  BY DEF DraftOf
<1> DEFINE up == UpOf(k, plan, searches, selected, b)
           d == Depth(up)
           N == plan.nd - 1
           s == selected[b]
           T == {m \in 0..N : m \in 1..N => d[m] = Step(k, s[m]) + 1}
<1>0. IsSelection(k, plan.steps, searches[b], plan.nd, s)
  BY DEF Drafts
<1>1. k \in Nat \ {0} /\ plan.steps \in Nat \ {0} /\ N \in Nat /\ IsSearch(k, plan.steps, searches[b])
  BY <1>0 DEF IsSelection, IsSearch
<1>2. \A m \in 1..N : s[m] \in AllExpansions(k, plan.steps)
  BY <1>0, SelectedIs
<1>3. HangsFrom(k, searches[b], selected[b], plan.nd - 1, UpOf(k, plan, searches, selected, b))
  BY ONLY DraftOf(k, plan, n, searches, selected, b), NodesAre
<1>4. d[0] = 0 /\ \A m \in 1..N : d[m] = 1 + d[up[m]]
  BY <1>3, DepthIs DEF HangsFrom
<1> HIDE DEF up, d, s, N
<1>h. /\ IsTree(N, up) /\ up \in [1..N -> 0..N]
      /\ \A m \in 1..N : /\ s[m] < k => up[m] = 0
                         /\ k <= s[m] => up[m] \in 1..N /\ s[up[m]] = ParentOf(k, searches[b].beams, s[m])
  BY <1>3 DEF HangsFrom, IsTree, up, s, N
<1>6. ASSUME NEW m \in 1..N, up[m] \in T PROVE m \in T
  <2>0. s[m] \in AllExpansions(k, plan.steps) /\ s[m] \in Nat /\ m \in 0..N
    <3>1. s[m] \in AllExpansions(k, plan.steps)
      BY <1>2
    <3> QED
      BY <1>1, <3>1, ExpansionOf
  <2>1. CASE s[m] < k
    <3>1. Step(k, s[m]) = 0 /\ up[m] = 0
      BY <1>h, <2>1 DEF Step
    <3> QED
      BY <1>4, <2>0, <3>1
  <2>2. CASE k <= s[m]
    <3>1. up[m] \in 1..N /\ s[up[m]] = ParentOf(k, searches[b].beams, s[m])
      BY <1>h, <2>2
    <3>2. Step(k, s[m]) \in 1..(plan.steps - 1) /\ Step(k, s[up[m]]) = Step(k, s[m]) - 1
      BY <1>1, <2>0, <2>2, <3>1, ParentIs
    <3>3. d[up[m]] = Step(k, s[up[m]]) + 1
      BY <1>6, <3>1
    <3> QED
      BY <1>4, <2>0, <3>2, <3>3
  <2> QED
    BY <1>1, <2>0, <2>1, <2>2
<1>7. T = 0..N
  <2>1. T \subseteq 0..N /\ 0 \in T
    BY <1>1
  <2> HIDE DEF T
  <2> QED
    BY <1>h, <1>6, <2>1, TreeInduction DEF Hereditary
<1>8. d[i] = Step(k, s[i]) + 1
  <2>1. i \in 1..N /\ i \in 0..N
    BY <1>1 DEF N
  <2> QED
    BY <1>7, <2>1
<1>9. d[i] <= plan.steps
  <2>1. s[i] \in AllExpansions(k, plan.steps)
    BY <1>2 DEF N
  <2>2. Step(k, s[i]) \in 0..(plan.steps - 1)
    BY <1>1, <2>1, ExpansionOf
  <2> QED
    BY <1>1, <1>8, <2>2
<1> QED
  BY <1>8, <1>9 DEF d, up, s

\* With one candidate a step the selection is all there is, in order.
LEMMA ChainSelected ==
  ASSUME NEW levels, NEW search, NEW nd, NEW s, IsSelection(1, levels, search, nd, s), nd = levels + 1,
         NEW i \in 1..(nd - 1)
  PROVE  s[i] = i - 1
<1>0. levels \in Nat \ {0} /\ nd \in Nat \ {0} /\ nd - 1 = levels
  BY DEF IsSelection, IsSearch
<1>1. \A j \in 1..levels : s[j] \in 0..(levels - 1)
  <2> TAKE j \in 1..levels
  <2>1. s[j] \in AllExpansions(1, levels)
    BY <1>0, SelectedIs
  <2>2. s[j] \in Nat /\ Step(1, s[j]) \in 0..(levels - 1)
    BY <1>0, <2>1, ExpansionOf
  <2>3. s[j] >= 1 => Step(1, s[j]) = s[j]
    <3> DEFINE one == 1
               x == s[j]
    <3>0. one \in Nat \ {0} /\ one = 1 /\ x \in Nat
      BY <2>2
    <3> HIDE DEF one, x
    <3>1. one <= x => /\ Step(one, x) \in Nat \ {0} /\ Slot(one, x) \in 0..(one - 1)
                      /\ x \div one = (Step(one, x) - 1) * one + Slot(one, x) + 1
      BY <3>0, ExpansionIs
    <3>2. x \div one = x
      <4>1. x * one + 0 = x /\ 0 \in 0..(one - 1)
        BY <3>0
      <4>2. (x * one + 0) \div one = x
        BY ONLY <3>0, <4>1, Divided
      <4> QED
        BY <4>1, <4>2
    <3>3. one <= x => Step(one, x) = x
      BY <3>0, <3>1, <3>2
    <3> QED
      BY <3>0, <3>3 DEF one, x
  <2> QED
    BY <1>0, <2>2, <2>3
<1>2. \A j \in 1..(levels - 1) : s[j] < s[j + 1]
  <2> TAKE j \in 1..(levels - 1)
  <2>1. j \in 1..(nd - 1) /\ j + 1 \in 1..(nd - 1) /\ j < j + 1
    BY <1>0
  <2> QED
    BY <2>1, SelectedIs
<1> DEFINE Low == {j \in 1..levels : s[j] < j - 1}
           High == {j \in 1..levels : s[j] > j - 1}
<1>3. Low = {}
  <2> SUFFICES ASSUME Low # {} PROVE FALSE
    OBVIOUS
  <2>1. PICK j \in Low : \A l \in Low : j <= l
    <3>1. Low \in SUBSET Nat
      OBVIOUS
    <3> HIDE DEF Low
    <3> QED
      BY <3>1, Smallest
  <2>2. j \in 1..levels /\ s[j] < j - 1 /\ j # 1
    BY <1>1, <2>1
  <2>3. j - 1 \in 1..(levels - 1) /\ j - 1 \in 1..levels /\ j - 1 \notin Low
    BY <1>0, <2>1, <2>2
  <2>4. s[j - 1] >= j - 2 /\ s[j - 1] < s[(j - 1) + 1]
    BY <1>1, <1>2, <2>3
  <2>5. (j - 1) + 1 = j
    BY <2>2
  <2> QED
    BY <1>1, <2>2, <2>3, <2>4, <2>5
<1>4. High = {}
  <2> SUFFICES ASSUME High # {} PROVE FALSE
    OBVIOUS
  <2> DEFINE Back == {levels - j : j \in High}
  <2>1. PICK c \in Back : \A l \in Back : c <= l
    <3>1. Back \in SUBSET Nat /\ Back # {}
      BY <1>0
    <3> HIDE DEF Back
    <3> QED
      BY <3>1, Smallest
  <2>2. PICK j \in High : c = levels - j
    BY <2>1
  <2>3. j \in 1..levels /\ s[j] > j - 1 /\ j # levels
    BY <1>0, <1>1, <2>2
  <2>4. j \in 1..(levels - 1) /\ j + 1 \in 1..levels
    BY <1>0, <2>3
  <2>5. j + 1 \notin High
    <3>1. SUFFICES ASSUME j + 1 \in High PROVE FALSE
      OBVIOUS
    <3>2. levels - (j + 1) \in Back
      BY <3>1
    <3>3. c <= levels - (j + 1)
      BY <2>1, <3>2
    <3> QED
      BY <1>0, <2>2, <2>3, <3>3
  <2>6. s[j + 1] <= j /\ s[j] < s[j + 1]
    BY <1>1, <1>2, <2>4, <2>5
  <2> QED
    BY <1>1, <2>3, <2>4, <2>6
<1>5. i \in 1..levels /\ s[i] \in Nat
  BY <1>0, <1>1
<1>6. ~(s[i] < i - 1) /\ ~(s[i] > i - 1)
  BY <1>3, <1>4, <1>5
<1> QED
  BY <1>5, <1>6

\* The words of the nodes are those of their expansions.
LEMMA WordsAre ==
  ASSUME NEW k, NEW plan, NEW n, NEW searches, NEW selected, NEW b,
         DraftOf(k, plan, n, searches, selected, b)
  PROVE  /\ Labelled(plan.nd - 1, UpOf(k, plan, searches, selected, b), TokenId,
                     TokenOf(plan, searches, selected, b))
         /\ \A i, j \in 1..(plan.nd - 1) :
              i # j /\ UpOf(k, plan, searches, selected, b)[i] = UpOf(k, plan, searches, selected, b)[j]
                => TokenOf(plan, searches, selected, b)[i] # TokenOf(plan, searches, selected, b)[j]
<1> Drafts(k, plan.steps, plan.nd, n, searches, selected) /\ b \in 1..n
  BY DEF DraftOf
<1> DEFINE up == UpOf(k, plan, searches, selected, b)
           word == TokenOf(plan, searches, selected, b)
           N == plan.nd - 1
           s == selected[b]
           search == searches[b]
<1>0. IsSelection(k, plan.steps, search, plan.nd, s)
  BY DEF Drafts
<1>1. k \in Nat \ {0} /\ plan.steps \in Nat \ {0} /\ N \in Nat /\ IsSearch(k, plan.steps, search)
  BY <1>0 DEF IsSelection, IsSearch
<1>2. s \in [1..N -> AllExpansions(k, plan.steps)] /\ \A i, j \in 1..N : s[i] = s[j] => i = j
  BY <1>0, SelectedIs
<1>3. HangsFrom(k, searches[b], selected[b], plan.nd - 1, UpOf(k, plan, searches, selected, b))
  BY ONLY DraftOf(k, plan, n, searches, selected, b), NodesAre
<1>4. search.tokens \in [AllExpansions(k, plan.steps) -> Words] /\ Words \subseteq TokenId
  <2>1. search \in Searches(k, plan.steps)
    BY <1>1 DEF IsSearch
  <2> HIDE DEF search
  <2>2. search.tokens \in [AllExpansions(k, plan.steps) -> Words]
    BY <2>1 DEF Searches
  <2>3. Words \subseteq TokenId
    BY TreeAssumption DEF TreeAssumption
  <2> QED
    BY <2>2, <2>3
<1>5. word = [i \in 1..N |-> search.tokens[s[i]]]
  BY DEF TokenOf
<1> HIDE DEF up, word, N, s, search
<1>h. /\ IsTree(N, up) /\ up \in [1..N -> 0..N]
      /\ \A m \in 1..N : /\ s[m] < k => up[m] = 0
                         /\ k <= s[m] => up[m] \in 1..N /\ s[up[m]] = ParentOf(k, search.beams, s[m])
  BY <1>3 DEF HangsFrom, IsTree, up, N, s, search
<1>6. word \in [1..N -> TokenId]
  BY <1>2, <1>4, <1>5
<1>7. ASSUME NEW i \in 1..N, NEW j \in 1..N, i # j, up[i] = up[j]
      PROVE  word[i] # word[j]
  <2>1. s[i] \in AllExpansions(k, plan.steps) /\ s[j] \in AllExpansions(k, plan.steps) /\ s[i] # s[j]
    BY <1>2, <1>7
  <2>2. s[i] \in Nat /\ s[j] \in Nat
    BY <1>1, <2>1, ExpansionOf
  <2>3. \/ s[i] < k /\ s[j] < k
        \/ k <= s[i] /\ k <= s[j] /\ ParentOf(k, search.beams, s[i]) = ParentOf(k, search.beams, s[j])
    BY <1>1, <1>h, <1>7, <2>2
  <2>4. search.tokens[s[i]] # search.tokens[s[j]]
    BY <1>1, <2>1, <2>3, SiblingsDiffer
  <2> QED
    BY <1>5, <2>4
<1> QED
  BY <1>h, <1>6, <1>7 DEF Labelled, up, word, N

\* The way to an expansion is the path of its node.
LEMMA PathsAre ==
  ASSUME NEW k, NEW plan, NEW n, NEW searches, NEW selected, NEW b,
         DraftOf(k, plan, n, searches, selected, b)
  PROVE  Paths(k, searches[b], selected[b])
           = {PathOf(UpOf(k, plan, searches, selected, b), TokenOf(plan, searches, selected, b))[i] :
                i \in 1..(plan.nd - 1)}
<1> Drafts(k, plan.steps, plan.nd, n, searches, selected) /\ b \in 1..n
  BY DEF DraftOf
<1> DEFINE up == UpOf(k, plan, searches, selected, b)
           word == TokenOf(plan, searches, selected, b)
           N == plan.nd - 1
           s == selected[b]
           search == searches[b]
           w == PathOf(up, word)
           R == Range(s)
           Body(f, x) == IF x < k THEN <<search.tokens[x]>>
                         ELSE Append(f[ParentOf(k, search.beams, x)], search.tokens[x])
           Sat(f) == f = [x \in R |-> Body(f, x)]
           Node0(x) == CHOOSE i \in 1..N : s[i] = x
           g == [x \in R |-> w[Node0(x)]]
<1>0. IsSelection(k, plan.steps, search, plan.nd, s)
  BY DEF Drafts
<1>1. k \in Nat \ {0} /\ N \in Nat
  BY <1>0 DEF IsSelection, IsSearch
<1>2. s \in [1..N -> AllExpansions(k, plan.steps)] /\ \A i, j \in 1..N : s[i] = s[j] => i = j
  BY <1>0, SelectedIs
<1>3. HangsFrom(k, searches[b], selected[b], plan.nd - 1, UpOf(k, plan, searches, selected, b))
  BY ONLY DraftOf(k, plan, n, searches, selected, b), NodesAre
<1>4. Labelled(N, up, TokenId, word)
  BY ONLY DraftOf(k, plan, n, searches, selected, b), WordsAre
<1>5. w \in [0..N -> Seq(TokenId)] /\ w[0] = <<>> /\ \A m \in 1..N : w[m] = Append(w[up[m]], word[m])
  BY ONLY <1>4, PathOfIs
<1>6. \A i \in 1..N : word[i] = search.tokens[s[i]]
  BY DEF TokenOf
<1>7. \A i \in 1..N : s[i] \in R /\ s[i] \in Nat
  <2> TAKE i \in 1..N
  <2>1. s[i] \in R
    BY <1>2 DEF Range
  <2>2. s[i] \in AllExpansions(k, plan.steps) /\ plan.steps \in Nat
    BY <1>0, <1>2 DEF IsSelection, IsSearch
  <2> QED
    BY <1>1, <2>1, <2>2, ExpansionOf
<1>8. \A x \in R : \E i \in 1..N : x = s[i]
  BY <1>2 DEF Range
<1>9. Paths(k, search, s) = Range(CHOOSE f : Sat(f))
  BY DEF Paths, Way
<1> HIDE DEF up, word, N, s, search, w, R
<1>h. /\ IsTree(N, up) /\ up \in [1..N -> 0..N]
      /\ \A m \in 1..N : /\ s[m] < k => up[m] = 0
                         /\ k <= s[m] => up[m] \in 1..N /\ s[up[m]] = ParentOf(k, search.beams, s[m])
  BY <1>3 DEF HangsFrom, IsTree, up, N, s, search
<1>10. \A i \in 1..N : g[s[i]] = w[i]
  <2> TAKE i \in 1..N
  <2>1. Node0(s[i]) = i
    BY <1>2
  <2> QED
    BY <1>7, <2>1
<1>11. \A i \in 1..N : \A f : f[s[up[i]]] = w[up[i]] \/ s[i] < k => Body(f, s[i]) = w[i]
  <2> TAKE i \in 1..N
  <2> TAKE f
  <2> HAVE f[s[up[i]]] = w[up[i]] \/ s[i] < k
  <2>1. CASE s[i] < k
    <3>1. w[i] = Append(<<>>, word[i])
      BY <1>h, <1>5, <2>1
    <3>2. Append(<<>>, word[i]) = <<word[i]>>
      OBVIOUS
    <3> QED
      BY <1>6, <2>1, <3>1, <3>2
  <2>2. CASE ~(s[i] < k)
    <3>1. k <= s[i]
      BY <1>1, <1>7, <2>2
    <3>2. f[ParentOf(k, search.beams, s[i])] = w[up[i]]
      BY <1>h, <2>2, <3>1
    <3> QED
      BY <1>5, <1>6, <2>2, <3>2
  <2> QED
    BY <2>1, <2>2
<1>12. Sat(g)
  <2>1. \A x \in R : g[x] = Body(g, x)
    <3> TAKE x \in R
    <3>1. PICK i \in 1..N : x = s[i]
      BY <1>8
    <3>2. g[s[up[i]]] = w[up[i]] \/ s[i] < k
      <4>1. SUFFICES ASSUME ~(s[i] < k) PROVE g[s[up[i]]] = w[up[i]]
        OBVIOUS
      <4>2. up[i] \in 1..N
        BY <1>1, <1>h, <1>7, <4>1
      <4> HIDE DEF g
      <4> QED
        BY <1>10, <4>2
    <3> HIDE DEF g, Body
    <3> QED
      BY <1>10, <1>11, <3>1, <3>2
  <2>2. g = [x \in R |-> g[x]]
    OBVIOUS
  <2> HIDE DEF g, Body
  <2> QED
    BY <2>1, <2>2
<1> DEFINE h == CHOOSE f : Sat(f)
<1>13. Sat(h)
  <2> HIDE DEF Sat
  <2> QED
    BY <1>12
<1> HIDE DEF h, g
<1>14. DOMAIN h = R /\ \A x \in R : h[x] = Body(h, x)
  <2> HIDE DEF Body
  <2> QED
    BY <1>13
<1>15. \A i \in 1..N : h[s[i]] = w[i]
  <2> DEFINE T == {m \in 0..N : m \in 1..N => h[s[m]] = w[m]}
  <2>1. ASSUME NEW m \in 1..N, up[m] \in T PROVE m \in T
    <3>1. h[s[up[m]]] = w[up[m]] \/ s[m] < k
      BY <1>1, <1>h, <1>7, <2>1
    <3>2. Body(h, s[m]) = w[m]
      <4> HIDE DEF Body
      <4> QED
        BY <1>11, <3>1
    <3>3. h[s[m]] = Body(h, s[m])
      <4> HIDE DEF Body
      <4> QED
        BY <1>7, <1>14
    <3>4. m \in 0..N
      BY <1>1
    <3> QED
      BY <3>2, <3>3, <3>4
  <2>2. T \subseteq 0..N /\ 0 \in T
    BY <1>1
  <2> HIDE DEF T
  <2>3. T = 0..N
    BY <1>h, <2>1, <2>2, TreeInduction DEF Hereditary
  <2>4. \A i \in 1..N : i \in T
    BY <1>1, <2>3
  <2> QED
    BY <2>4 DEF T
<1>16. Range(h) = {w[i] : i \in 1..N}
  <2>1. \A x \in R : h[x] \in {w[i] : i \in 1..N}
    BY <1>8, <1>15
  <2>2. \A i \in 1..N : w[i] \in Range(h)
    BY <1>7, <1>14, <1>15 DEF Range
  <2>3. \A v \in Range(h) : \E x \in R : v = h[x]
    BY <1>14 DEF Range
  <2> QED
    BY <2>1, <2>2, <2>3
<1> HIDE DEF Body
<1> QED
  BY <1>9, <1>16 DEF h, w, up, word, N, s, search

-----------------------------------------------------------------------------
(* The mask                                                                  *)

\* Where each of n blocks of nd equal rows begins when they are laid end to end.
Blocks(n, nd, start, width) ==
  /\ n \in Nat /\ nd \in Nat \ {0}
  /\ start \in [0..n -> Nat] /\ width \in [0..(n - 1) -> Nat] /\ start[0] = 0
  /\ \A b \in 0..(n - 1) : start[b + 1] = start[b] + width[b] * nd

\* A later block begins behind an earlier one.
LEMMA BlocksInOrder ==
  ASSUME NEW n, NEW nd, NEW start, NEW width, Blocks(n, nd, start, width),
         NEW b \in 0..(n - 1), NEW c \in 0..n, b < c
  PROVE  start[b] + width[b] * nd <= start[c]
<1> USE DEF Blocks
<1> DEFINE Bad == {x \in 0..n : b < x /\ ~(start[b] + width[b] * nd <= start[x])}
<1>1. SUFFICES ASSUME Bad # {} PROVE FALSE
  OBVIOUS
<1>2. PICK x \in Bad : \A y \in Bad : x <= y
  <2>1. Bad \in SUBSET Nat
    OBVIOUS
  <2> HIDE DEF Bad
  <2> QED
    BY <1>1, <2>1, Smallest
<1>3. x - 1 \in 0..(n - 1) /\ x - 1 \in 0..n /\ (x - 1) + 1 = x /\ b < x
  BY <1>2
<1>4. start[x] = start[x - 1] + width[x - 1] * nd
  BY <1>3
<1>a. ~(start[b] + width[b] * nd <= start[x])
  BY <1>2
<1> DEFINE p == width[x - 1] * nd
           q == width[b] * nd
<1>5. p \in Nat /\ start[x - 1] \in Nat /\ start[x] \in Nat /\ start[b] \in Nat /\ q \in Nat
  <2>1. width[x - 1] \in Nat /\ width[b] \in Nat /\ nd \in Nat /\ b \in 0..n /\ x \in 0..n
    BY <1>2, <1>3
  <2>2. start[x - 1] \in Nat /\ start[x] \in Nat /\ start[b] \in Nat
    BY <1>3, <2>1
  <2>3. \A u, v \in Nat : u * v \in Nat
    OBVIOUS
  <2> QED
    BY ONLY <2>1, <2>2, <2>3
<1>6. CASE x - 1 = b
  <2>1. p = q /\ start[x] = start[b] + q
    BY <1>4, <1>6
  <2> HIDE DEF Bad
  <2> QED
    BY <1>5, <1>a, <2>1
<1>7. CASE x - 1 # b
  <2>1. b < x - 1 /\ x - 1 \notin Bad
    BY <1>2, <1>3, <1>7
  <2>2. start[b] + q <= start[x - 1]
    BY <1>3, <2>1
  <2>3. start[x] = start[x - 1] + p /\ ~(start[b] + q <= start[x])
    BY <1>4, <1>a
  <2> DEFINE s0 == start[b]
             s1 == start[x - 1]
             s2 == start[x]
  <2>4. p \in Nat /\ q \in Nat /\ s0 \in Nat /\ s1 \in Nat /\ s2 \in Nat /\ s0 + q <= s1 /\ s2 = s1 + p /\ ~(s0 + q <= s2)
    BY ONLY <1>5, <2>2, <2>3
  <2> HIDE DEF p, q, Bad, s0, s1, s2
  <2> QED
    BY ONLY <2>4
<1> QED
  BY <1>6, <1>7

\* A cell lies within its block.
LEMMA WithinBlock ==
  ASSUME NEW n, NEW nd, NEW start, NEW width, Blocks(n, nd, start, width),
         NEW b \in 0..(n - 1), NEW i \in 0..(nd - 1), NEW x \in Nat, x < width[b]
  PROVE  /\ start[b] + i * width[b] + x \in Nat
         /\ start[b] <= start[b] + i * width[b] + x
         /\ start[b] + i * width[b] + x < start[b] + width[b] * nd
<1>1. nd \in Nat \ {0} /\ start[b] \in Nat /\ width[b] \in Nat /\ i \in Nat /\ i + 1 <= nd
  BY DEF Blocks
<1> DEFINE v == width[b]
           a == start[b]
<1> HIDE DEF v, a
<1>2. i * v \in Nat /\ (i + 1) * v <= nd * v /\ (i + 1) * v = i * v + v /\ nd * v \in Nat
  <2>1. v \in Nat /\ i + 1 \in Nat /\ nd \in Nat
    BY <1>1 DEF v
  <2> QED
    BY <1>1, <2>1, Products
<1>3. nd * v = v * nd
  BY <1>1 DEF v
<1>4. x < v /\ a \in Nat /\ v \in Nat
  BY <1>1 DEF v, a
<1>5. a + i * v + x \in Nat /\ a <= a + i * v + x /\ a + i * v + x < a + v * nd
  BY <1>2, <1>3, <1>4
<1> QED
  BY <1>5 DEF v, a

\* Cells of different blocks, rows or columns are different.
LEMMA CellsApart ==
  ASSUME NEW n, NEW nd, NEW start, NEW width, Blocks(n, nd, start, width),
         NEW b \in 0..(n - 1), NEW i \in 0..(nd - 1), NEW x \in Nat, x < width[b],
         NEW c \in 0..(n - 1), NEW j \in 0..(nd - 1), NEW y \in Nat, y < width[c],
         start[b] + i * width[b] + x = start[c] + j * width[c] + y
  PROVE  b = c /\ i = j /\ x = y
<1>0. /\ n \in Nat /\ nd \in Nat /\ start[b] \in Nat /\ start[c] \in Nat /\ b \in 0..n /\ c \in 0..n
      /\ width[b] \in Nat /\ width[c] \in Nat /\ i \in Nat /\ j \in Nat
  BY DEF Blocks
<1>1. /\ start[b] + i * width[b] + x \in Nat
      /\ start[b] <= start[b] + i * width[b] + x
      /\ start[b] + i * width[b] + x < start[b] + width[b] * nd
  BY WithinBlock
<1>2. /\ start[c] + j * width[c] + y \in Nat
      /\ start[c] <= start[c] + j * width[c] + y
      /\ start[c] + j * width[c] + y < start[c] + width[c] * nd
  BY WithinBlock
<1>3. ~(b < c)
  <2>1. SUFFICES ASSUME b < c PROVE FALSE
    OBVIOUS
  <2>2. start[b] + width[b] * nd <= start[c]
    BY <1>0, <2>1, BlocksInOrder
  <2>3. width[b] * nd \in Nat
    BY <1>0
  <2> QED
    BY <1>0, <1>1, <1>2, <2>2, <2>3
<1>4. ~(c < b)
  <2>1. SUFFICES ASSUME c < b PROVE FALSE
    OBVIOUS
  <2>2. start[c] + width[c] * nd <= start[b]
    BY <1>0, <2>1, BlocksInOrder
  <2>3. width[c] * nd \in Nat
    BY <1>0
  <2> QED
    BY <1>0, <1>1, <1>2, <2>2, <2>3
<1>5. b = c
  BY <1>3, <1>4
<1>6. i * width[b] + x = j * width[b] + y
  <2> DEFINE p == i * width[b]
             q == j * width[b]
  <2>1. p \in Nat /\ q \in Nat /\ start[b] + p + x = start[b] + q + y
    BY <1>0, <1>5
  <2> HIDE DEF p, q
  <2>2. p + x = q + y
    BY <1>0, <2>1
  <2> QED
    BY <2>2 DEF p, q
<1>7. width[b] \in Nat \ {0} /\ x \in 0..(width[b] - 1) /\ y \in 0..(width[b] - 1)
  BY <1>0, <1>5
<1>8. i = j /\ x = y
  <2> DEFINE v == width[b]
  <2> HIDE DEF v
  <2>1. v \in Nat \ {0} /\ x \in 0..(v - 1) /\ y \in 0..(v - 1) /\ i * v + x = j * v + y
    BY <1>6, <1>7 DEF v
  <2> QED
    BY <1>0, <2>1, SamePlace
<1> QED
  BY <1>5, <1>8

\* Blocks of rows no wider than v end no later than as many of width v.
LEMMA BlocksEnd ==
  ASSUME NEW n, NEW nd, NEW start, NEW width, Blocks(n, nd, start, width),
         NEW v \in Nat, NEW m \in 0..n, \A b \in 0..(m - 1) : width[b] <= v
  PROVE  start[m] <= m * (v * nd)
<1> USE DEF Blocks
<1> DEFINE Bad == {x \in 0..m : ~(start[x] <= x * (v * nd))}
<1>1. SUFFICES ASSUME Bad # {} PROVE FALSE
  <2>1. Bad = {} /\ m \in 0..m
    OBVIOUS
  <2> QED
    BY <2>1
<1>2. PICK x \in Bad : \A y \in Bad : x <= y
  <2>1. Bad \in SUBSET Nat
    OBVIOUS
  <2> HIDE DEF Bad
  <2> QED
    BY <1>1, <2>1, Smallest
<1>3. v * nd \in Nat /\ x \in 0..m
  BY <1>2
<1>4. x # 0
  BY <1>2, <1>3
<1>5. x - 1 \in 0..(m - 1) /\ x - 1 \in 0..(n - 1) /\ x - 1 \in 0..m /\ (x - 1) + 1 = x /\ x - 1 \notin Bad /\ x - 1 \in Nat
  BY <1>2, <1>3, <1>4
<1>6. start[x - 1] <= (x - 1) * (v * nd) /\ start[x - 1] \in Nat /\ start[x] = start[x - 1] + width[x - 1] * nd
  BY <1>5
<1>7. width[x - 1] * nd <= v * nd /\ width[x - 1] * nd \in Nat
  BY <1>5, Products
<1>8. x * (v * nd) = (x - 1) * (v * nd) + v * nd /\ (x - 1) * (v * nd) \in Nat
  <2> DEFINE p == v * nd
             z == x - 1
  <2> HIDE DEF p, z
  <2>1. p \in Nat /\ z \in Nat /\ x = z + 1
    BY <1>3, <1>5 DEF p, z
  <2>2. (z + 1) * p = z * p + p /\ z * p \in Nat
    BY <2>1
  <2> QED
    BY <2>1, <2>2 DEF p, z
<1>9. start[x] <= x * (v * nd)
  <2> DEFINE o == (x - 1) * (v * nd)
             p == v * nd
             q == width[x - 1] * nd
             e == x * (v * nd)
  <2>1. /\ start[x - 1] <= o /\ start[x - 1] \in Nat /\ start[x] = start[x - 1] + q
        /\ q <= p /\ q \in Nat /\ p \in Nat /\ o \in Nat /\ e = o + p
    BY <1>3, <1>6, <1>7, <1>8
  <2> HIDE DEF o, p, q, e
  <2>2. start[x] <= e
    BY <2>1
  <2> QED
    BY <2>2 DEF e
<1> QED
  BY <1>2, <1>9

\* The configuration is one of the servers, and lengths are numbers.
Config == server \in Servers /\ lens \in [0..(server.bs - 1) -> Nat]

\* What a configuration is.
LEMMA ConfigIs ==
  ASSUME Config
  PROVE  /\ server.topk \in Nat \ {0} /\ server.bs \in Nat \ {0} /\ server.room \in Nat
         /\ server.mask \in {"full", "qlen", "unread"} /\ server.sampling \in BOOLEAN
         /\ \A p \in server.plans : /\ p.steps \in Nat /\ p.nd \in Nat \ {0}
                                    /\ server.topk = 1 => p.nd = p.steps + 1
                                    /\ p.steps = 0 => p.nd = 1
         /\ server.mask = "unread" => server.topk = 1
         /\ server.sampling => server.topk = 1 /\ \A p \in server.plans : p.steps > 0
<1>1. server \in Servers
  BY DEF Config
<1>2. server \in ServerType
  BY <1>1, TreeAssumption DEF TreeAssumption
<1>3. \A p \in server.plans : p.steps \in Nat /\ p.nd \in Nat \ {0}
  BY <1>2 DEF ServerType
<1>4. /\ server.topk \in Nat \ {0} /\ server.bs \in Nat \ {0} /\ server.room \in Nat
      /\ server.mask \in {"full", "qlen", "unread"} /\ server.sampling \in BOOLEAN
  BY <1>2 DEF ServerType
<1>5. /\ \A p \in server.plans : /\ server.topk = 1 => p.nd = p.steps + 1
                                 /\ p.steps = 0 => p.nd = 1
      /\ server.mask = "unread" => server.topk = 1
      /\ server.sampling => server.topk = 1 /\ \A p \in server.plans : p.steps > 0
  BY <1>1, TreeAssumption DEF TreeAssumption
<1> QED
  BY <1>3, <1>4, <1>5

\* Where the requests' blocks of full rows begin.
LEMMA FullStartIs ==
  ASSUME Config, NEW nd \in Nat \ {0}
  PROVE  /\ FullStart(nd) \in [0..server.bs -> Nat] /\ FullStart(nd)[0] = 0
         /\ \A b \in 0..(server.bs - 1) :
              FullStart(nd)[b + 1] = FullStart(nd)[b] + (lens[b] + nd) * nd
<1> DEFINE N == server.bs
           w == [b \in 1..N |-> (lens[b - 1] + nd) * nd]
           up == [b \in 1..N |-> b - 1]
           G == [b \in 1..N |-> [s \in Nat |-> s + w[b]]]
           Sat(f) == f = [b \in 0..N |-> IF b = 0 THEN 0 ELSE f[b - 1] + (lens[b - 1] + nd) * nd]
           NN == Nat
           z == 0
<1>0. N \in Nat /\ lens \in [0..(N - 1) -> Nat]
  BY ConfigIs DEF Config
<1> HIDE DEF N
<1>1. w \in [1..N -> Nat]
  <2>1. \A b \in 1..N : lens[b - 1] + nd \in Nat
    BY <1>0
  <2>2. \A u, v \in Nat : u * v \in Nat
    OBVIOUS
  <2>3. \A b \in 1..N : (lens[b - 1] + nd) * nd \in Nat
    BY <2>1, <2>2
  <2> QED
    BY <2>3
<1> HIDE DEF w
<1>2. IsTree(N, up)
  BY <1>0 DEF IsTree
<1>3. PICK g \in [0..N -> NN] : g[0] = z /\ \A b \in 1..N : g[b] = G[b][g[up[b]]]
  <2>1. G \in [1..N -> [NN -> NN]] /\ z \in NN
    <3>1. \A b \in 1..N : [s \in Nat |-> s + w[b]] \in [Nat -> Nat]
      BY <1>1
    <3> QED
      BY <3>1
  <2> HIDE DEF G, NN, z, up
  <2>2. TreeStep(N, up, NN, z, G)
    BY <1>2, <2>1 DEF TreeStep
  <2> QED
    BY ONLY <2>2, TreeRecursion
<1>4. \A b \in 1..N : g[b] = g[b - 1] + w[b]
  <2> TAKE b \in 1..N
  <2>1. up[b] = b - 1 /\ b - 1 \in 0..N
    BY <1>0
  <2> HIDE DEF up
  <2>2. g[b - 1] \in Nat /\ g[b] = G[b][g[b - 1]]
    BY <1>3, <2>1
  <2> QED
    BY <2>2
<1>5. Sat(g)
  <2>1. \A b \in 0..N : g[b] = IF b = 0 THEN 0 ELSE g[b - 1] + (lens[b - 1] + nd) * nd
    <3> TAKE b \in 0..N
    <3>1. CASE b = 0
      BY <1>3, <3>1
    <3>2. CASE b # 0
      <4>1. b \in 1..N
        BY <1>0, <3>2
      <4> QED
        BY <1>4, <3>2, <4>1 DEF w
    <3> QED
      BY <3>1, <3>2
  <2>2. g = [b \in 0..N |-> g[b]]
    BY <1>3
  <2> QED
    BY <2>1, <2>2
<1>6. Sat(FullStart(nd))
  <2>1. FullStart(nd) = CHOOSE f : Sat(f)
    BY DEF FullStart, N
  <2> HIDE DEF Sat
  <2> QED
    BY <1>5, <2>1
<1> DEFINE f == FullStart(nd)
<1>7. f = [b \in 0..N |-> IF b = 0 THEN 0 ELSE f[b - 1] + (lens[b - 1] + nd) * nd]
  BY <1>6
<1> HIDE DEF f
<1>8. f[0] = 0 /\ \A b \in 1..N : f[b] = f[b - 1] + (lens[b - 1] + nd) * nd
  BY <1>0, <1>7
<1>9. \A b \in 0..N : f[b] \in Nat
  <2> DEFINE T == {b \in 0..N : f[b] \in Nat}
  <2>1. 0 \in T /\ T \subseteq 0..N
    BY <1>0, <1>8
  <2>2. ASSUME NEW b \in 1..N, up[b] \in T PROVE b \in T
    <3>1. f[b - 1] \in Nat /\ b \in 0..N
      BY <1>0, <2>2
    <3>2. f[b] = f[b - 1] + w[b] /\ w[b] \in Nat
      <4>1. w[b] = (lens[b - 1] + nd) * nd
        BY DEF w
      <4> QED
        BY <1>1, <1>8, <4>1
    <3> QED
      BY <3>1, <3>2
  <2> HIDE DEF T, up
  <2>3. T = 0..N
    BY <1>2, <2>1, <2>2, TreeInduction DEF Hereditary
  <2> QED
    BY <2>3 DEF T
<1>10. f \in [0..N -> Nat]
  BY <1>7, <1>9
<1>11. \A b \in 0..(N - 1) : f[b + 1] = f[b] + (lens[b] + nd) * nd
  <2> TAKE b \in 0..(N - 1)
  <2>1. b + 1 \in 1..N /\ (b + 1) - 1 = b
    BY <1>0
  <2> QED
    BY <1>8, <2>1
<1> QED
  BY <1>8, <1>10, <1>11 DEF f, N

\* The mask is blocks of rows, in either layout.
RowWidth(nd, b) == IF Layout = "qlen" THEN nd ELSE lens[b] + nd
BlockStart(nd, b) == IF Layout = "qlen" THEN nd * nd * b ELSE FullStart(nd)[b]
Starts(nd) == [b \in 0..server.bs |-> BlockStart(nd, b)]
Widths(nd) == [b \in 0..(server.bs - 1) |-> RowWidth(nd, b)]

LEMMA MaskBlocks ==
  ASSUME Config, NEW nd \in Nat \ {0}
  PROVE  /\ Blocks(server.bs, nd, Starts(nd), Widths(nd))
         /\ \A b \in 0..(server.bs - 1), i \in 0..(nd - 1) :
              MaskRow(Layout, nd, b, i) = Starts(nd)[b] + i * Widths(nd)[b]
         /\ \A b \in 0..(server.bs - 1) :
              /\ FirstColumn(Layout, b) \in Nat /\ FirstColumn(Layout, b) + nd = Widths(nd)[b]
              /\ FirstColumn(Layout, b) <= lens[b]
<1>0. server.bs \in Nat \ {0} /\ lens \in [0..(server.bs - 1) -> Nat]
  BY ConfigIs DEF Config
<1>1. CASE Layout = "qlen"
  <2>1. /\ \A b \in 0..server.bs : Starts(nd)[b] = nd * nd * b
        /\ \A b \in 0..(server.bs - 1) : Widths(nd)[b] = nd
    BY <1>1 DEF Starts, Widths, BlockStart, RowWidth
  <2>2. \A b \in 0..server.bs : nd * nd * b \in Nat
    OBVIOUS
  <2>3. Starts(nd) \in [0..server.bs -> Nat] /\ Widths(nd) \in [0..(server.bs - 1) -> Nat]
    BY <1>0, <2>1, <2>2 DEF Starts, Widths
  <2>4. Starts(nd)[0] = 0
    <3>1. 0 \in 0..server.bs /\ nd * nd * 0 = 0
      BY <1>0
    <3> QED
      BY <2>1, <3>1
  <2>5. \A b \in 0..(server.bs - 1) : Starts(nd)[b + 1] = Starts(nd)[b] + Widths(nd)[b] * nd
    <3> TAKE b \in 0..(server.bs - 1)
    <3>1. b \in 0..server.bs /\ b + 1 \in 0..server.bs
      BY <1>0
    <3>2. nd * nd * (b + 1) = nd * nd * b + nd * nd
      <4> DEFINE p == nd * nd
      <4>1. p \in Nat
        OBVIOUS
      <4> HIDE DEF p
      <4>2. p * (b + 1) = p * b + p
        BY <4>1
      <4> QED
        BY <4>2 DEF p
    <3> QED
      BY <2>1, <3>1, <3>2
  <2>6. \A b \in 0..(server.bs - 1), i \in 0..(nd - 1) :
          MaskRow(Layout, nd, b, i) = Starts(nd)[b] + i * Widths(nd)[b]
    <3> TAKE b \in 0..(server.bs - 1), i \in 0..(nd - 1)
    <3>1. MaskRow(Layout, nd, b, i) = nd * nd * b + nd * i
      BY <1>1 DEF MaskRow
    <3>2. b \in 0..server.bs /\ nd * i = i * nd
      BY <1>0
    <3> QED
      BY <2>1, <3>1, <3>2
  <2>7. \A b \in 0..(server.bs - 1) : FirstColumn(Layout, b) = 0
    BY <1>1 DEF FirstColumn
  <2>8. Blocks(server.bs, nd, Starts(nd), Widths(nd))
    <3>1. server.bs \in Nat
      BY <1>0
    <3> QED
      BY <3>1, <2>3, <2>4, <2>5 DEF Blocks
  <2>9. \A b \in 0..(server.bs - 1) :
          /\ FirstColumn(Layout, b) \in Nat /\ FirstColumn(Layout, b) + nd = Widths(nd)[b]
          /\ FirstColumn(Layout, b) <= lens[b]
    <3> TAKE b \in 0..(server.bs - 1)
    <3>1. FirstColumn(Layout, b) = 0 /\ Widths(nd)[b] = nd /\ lens[b] \in Nat
      BY <1>0, <2>1, <2>7
    <3> QED
      BY <3>1
  <2> QED
    BY <2>6, <2>8, <2>9
<1>2. CASE Layout # "qlen"
  <2>1. /\ \A b \in 0..server.bs : Starts(nd)[b] = FullStart(nd)[b]
        /\ \A b \in 0..(server.bs - 1) : Widths(nd)[b] = lens[b] + nd
    BY <1>2 DEF Starts, Widths, BlockStart, RowWidth
  <2>2. /\ FullStart(nd) \in [0..server.bs -> Nat] /\ FullStart(nd)[0] = 0
        /\ \A b \in 0..(server.bs - 1) : FullStart(nd)[b + 1] = FullStart(nd)[b] + (lens[b] + nd) * nd
    BY FullStartIs
  <2>3. Starts(nd) \in [0..server.bs -> Nat] /\ Widths(nd) \in [0..(server.bs - 1) -> Nat] /\ Starts(nd)[0] = 0
    <3>1. \A b \in 0..(server.bs - 1) : lens[b] \in Nat /\ lens[b] + nd \in Nat
      BY <1>0
    <3>2. Widths(nd) \in [0..(server.bs - 1) -> Nat]
      BY <2>1, <3>1 DEF Widths
    <3>3. Starts(nd) \in [0..server.bs -> Nat]
      BY <2>1, <2>2 DEF Starts
    <3>4. 0 \in 0..server.bs
      BY <1>0
    <3> QED
      BY <2>1, <2>2, <3>2, <3>3, <3>4
  <2>4. \A b \in 0..(server.bs - 1) : Starts(nd)[b + 1] = Starts(nd)[b] + Widths(nd)[b] * nd
    <3> TAKE b \in 0..(server.bs - 1)
    <3>1. b \in 0..server.bs /\ b + 1 \in 0..server.bs
      BY <1>0
    <3> QED
      BY <2>1, <2>2, <3>1
  <2>5. \A b \in 0..(server.bs - 1), i \in 0..(nd - 1) :
          MaskRow(Layout, nd, b, i) = Starts(nd)[b] + i * Widths(nd)[b]
    <3> TAKE b \in 0..(server.bs - 1), i \in 0..(nd - 1)
    <3>1. b \in 0..server.bs
      BY <1>0
    <3> QED
      BY <1>2, <2>1, <3>1 DEF MaskRow
  <2>6. \A b \in 0..(server.bs - 1) : FirstColumn(Layout, b) = lens[b]
    BY <1>2 DEF FirstColumn
  <2>7. Blocks(server.bs, nd, Starts(nd), Widths(nd))
    <3>1. server.bs \in Nat
      BY <1>0
    <3> QED
      BY <3>1, <2>3, <2>4 DEF Blocks
  <2>8. \A b \in 0..(server.bs - 1) :
          /\ FirstColumn(Layout, b) \in Nat /\ FirstColumn(Layout, b) + nd = Widths(nd)[b]
          /\ FirstColumn(Layout, b) <= lens[b]
    <3> TAKE b \in 0..(server.bs - 1)
    <3>1. FirstColumn(Layout, b) = lens[b] /\ Widths(nd)[b] = lens[b] + nd /\ lens[b] \in Nat
      BY <1>0, <2>1, <2>6
    <3> QED
      BY <3>1
  <2> QED
    BY <2>5, <2>7, <2>8
<1> QED
  BY <1>1, <1>2


\* The cell of row i of request b at column x.
CellAt(nd, b, i, x) == MaskRow(Layout, nd, b, i) + x

\* n requests that have room for nd rows each.
Fits(nd, n) ==
  /\ Config /\ nd \in Nat \ {0} /\ n \in 1..server.bs
  /\ \A b \in 0..(n - 1) : lens[b] + nd <= server.room

\* A row begins at a number.
LEMMA RowsAreNumbers ==
  ASSUME NEW nd, NEW n, Fits(nd, n), NEW b \in 0..(n - 1), NEW i \in 0..(nd - 1)
  PROVE  MaskRow(Layout, nd, b, i) \in Nat /\ FirstColumn(Layout, b) \in Nat
<1>0. Config /\ nd \in Nat \ {0} /\ server.bs \in Nat /\ b \in 0..(server.bs - 1)
  BY ConfigIs DEF Fits
<1>1. /\ Starts(nd) \in [0..server.bs -> Nat] /\ Widths(nd) \in [0..(server.bs - 1) -> Nat]
      /\ MaskRow(Layout, nd, b, i) = Starts(nd)[b] + i * Widths(nd)[b]
      /\ FirstColumn(Layout, b) \in Nat
  BY <1>0, MaskBlocks DEF Blocks
<1>2. Starts(nd)[b] \in Nat /\ Widths(nd)[b] \in Nat /\ i \in Nat
  BY <1>0, <1>1
<1>3. i * Widths(nd)[b] \in Nat
  BY <1>2
<1> QED
  BY <1>1, <1>2, <1>3

\* Different rows and columns are different cells.
LEMMA CellsDiffer ==
  ASSUME NEW nd, NEW n, Fits(nd, n),
         NEW b \in 0..(n - 1), NEW i \in 0..(nd - 1), NEW x \in Nat, x < FirstColumn(Layout, b) + nd,
         NEW c \in 0..(n - 1), NEW j \in 0..(nd - 1), NEW y \in Nat, y < FirstColumn(Layout, c) + nd,
         CellAt(nd, b, i, x) = CellAt(nd, c, j, y)
  PROVE  b = c /\ i = j /\ x = y
<1>0. /\ Config /\ nd \in Nat \ {0} /\ server.bs \in Nat
      /\ b \in 0..(server.bs - 1) /\ c \in 0..(server.bs - 1)
  BY ConfigIs DEF Fits
<1>1. /\ Blocks(server.bs, nd, Starts(nd), Widths(nd))
      /\ x < Widths(nd)[b] /\ y < Widths(nd)[c]
  BY <1>0, MaskBlocks
<1>2. Starts(nd)[b] + i * Widths(nd)[b] + x = Starts(nd)[c] + j * Widths(nd)[c] + y
  BY <1>0, MaskBlocks DEF CellAt
<1> QED
  BY <1>0, <1>1, <1>2, CellsApart

\* All cells of a batch that fits are cells of the mask.
LEMMA CellsInside ==
  ASSUME NEW nd, NEW n, Fits(nd, n),
         NEW b \in 0..(n - 1), NEW i \in 0..(nd - 1), NEW x \in Nat, x < FirstColumn(Layout, b) + nd
  PROVE  CellAt(nd, b, i, x) \in AllCells(nd)
<1> DEFINE N == server.bs
           S == Starts(nd)
           W == Widths(nd)
           v == server.room + nd
           cell == CellAt(nd, b, i, x)
<1>0. /\ Config /\ nd \in Nat \ {0} /\ N \in Nat /\ n \in 1..N /\ server.room \in Nat
      /\ \A d \in 0..(n - 1) : d \in 0..(N - 1) /\ lens[d] \in Nat /\ lens[d] + nd <= server.room
  BY ConfigIs DEF Fits, Config
<1>1. Blocks(N, nd, S, W) /\ x < W[b] /\ b \in 0..(N - 1) /\ cell = S[b] + i * W[b] + x
  BY <1>0, MaskBlocks DEF CellAt
<1>2. \A d \in 0..((b + 1) - 1) : W[d] <= v
  <2> TAKE d \in 0..((b + 1) - 1)
  <2>1. d \in 0..(n - 1) /\ d \in 0..(N - 1)
    BY <1>0
  <2>2. W[d] = nd \/ W[d] = lens[d] + nd
    BY <2>1 DEF Widths, RowWidth
  <2> QED
    BY <1>0, <2>1, <2>2
<1>3. v \in Nat /\ b + 1 \in 0..N /\ b + 1 \in 0..N
  BY <1>0
<1>4. S[b + 1] = S[b] + W[b] * nd
  BY <1>1 DEF Blocks
<1>5. cell \in Nat /\ cell < S[b] + W[b] * nd
  <2> HIDE DEF cell, S, W, N
  <2> QED
    BY <1>1, WithinBlock
<1>6. S[b + 1] <= (b + 1) * (v * nd)
  <2> HIDE DEF S, W, N, v
  <2> QED
    BY <1>1, <1>2, <1>3, BlocksEnd
<1>7. (b + 1) * (v * nd) <= N * (v * nd) /\ (b + 1) * (v * nd) \in Nat /\ N * (v * nd) \in Nat
  <2>1. v * nd \in Nat
    <3> HIDE DEF v
    <3> QED
      BY <1>0, <1>3
  <2>2. b + 1 \in Nat /\ b + 1 <= N
    BY <1>0
  <2> HIDE DEF v, N
  <2> DEFINE u == v * nd
  <2> HIDE DEF u
  <2> QED
    BY <1>0, <2>1, <2>2, Products DEF u
<1>8. N * (v * nd) = N * v * nd
  <2> HIDE DEF N, v
  <2> QED
    BY <1>0, <1>3
<1>9. S[b + 1] \in Nat
  BY <1>1, <1>3 DEF Blocks
<1>10. AllCells(nd) = 0..(N * v * nd - 1)
  BY DEF AllCells
<1> HIDE DEF N, S, W, v, cell
<1>11. cell \in 0..(N * v * nd - 1)
  BY <1>4, <1>5, <1>6, <1>7, <1>8, <1>9
<1> QED
  BY <1>10, <1>11 DEF cell

\* Which rows a batch sees: the cells of its nodes.
RowsSeen(plan, n, seen) ==
  /\ Fits(plan.nd, n) /\ DOMAIN seen = 1..n
  /\ \A b \in 1..n, i \in Node(plan) : seen[b][i] \subseteq Node(plan)

\* The kernel's mask: a row's tree columns are set as they are to be, and all
\* columns before them.
LEMMA MaskIs ==
  ASSUME NEW plan, NEW n, NEW seen, RowsSeen(plan, n, seen), server.mask # "unread",
         NEW b \in 0..(n - 1), NEW i \in Node(plan)
  PROVE  /\ \A j \in Node(plan) :
              CellAt(plan.nd, b, i, FirstColumn(Layout, b) + j) \in Mask(plan, n, seen) <=> j \in seen[b + 1][i]
         /\ \A c \in 0..(FirstColumn(Layout, b) - 1) : CellAt(plan.nd, b, i, c) \in Mask(plan, n, seen)
<1> DEFINE nd == plan.nd
           col(d) == FirstColumn(Layout, d)
<1>0. /\ Fits(nd, n) /\ Config /\ nd \in Nat \ {0} /\ n \in Nat /\ Node(plan) = 0..(nd - 1)
      /\ \A d \in 0..(n - 1) : col(d) \in Nat
  <2>1. /\ Fits(nd, n) /\ Config /\ nd \in Nat \ {0} /\ server.bs \in Nat /\ n \in 1..server.bs
    BY ConfigIs DEF RowsSeen, Fits
  <2>2. \A d \in 0..(server.bs - 1) : col(d) \in Nat
    BY <2>1, MaskBlocks
  <2>3. n \in Nat /\ \A d \in 0..(n - 1) : d \in 0..(server.bs - 1)
    BY <2>1
  <2> QED
    BY <2>1, <2>2, <2>3 DEF Node
<1>1. Mask(plan, n, seen) = (AllCells(nd) \ TreeCells(Layout, nd, n)) \cup SeenCells(Layout, nd, seen)
  BY DEF Mask, Filled
<1>2. \A d \in 0..(n - 1), e \in Node(plan), j \in Nat :
        CellAt(nd, d, e, col(d) + j) = MaskRow(Layout, nd, d, e) + FirstColumn(Layout, d) + j
  <2> TAKE d \in 0..(n - 1), e \in Node(plan), j \in Nat
  <2>1. MaskRow(Layout, nd, d, e) \in Nat
    BY <1>0, RowsAreNumbers
  <2>2. col(d) \in Nat
    BY <1>0
  <2> QED
    BY <2>1, <2>2 DEF CellAt
<1>3. \A d \in 0..(n - 1), e \in Node(plan), j \in Node(plan) :
        CellAt(nd, d, e, col(d) + j) \in TreeCells(Layout, nd, n)
  <2> TAKE d \in 0..(n - 1), e \in Node(plan), j \in Node(plan)
  <2>1. e \in 0..(nd - 1) /\ j \in 0..(nd - 1) /\ j \in Nat
    BY <1>0
  <2>2. CellAt(nd, d, e, col(d) + j) = MaskRow(Layout, nd, d, e) + FirstColumn(Layout, d) + j
    BY <1>2, <2>1
  <2> HIDE DEF col
  <2> QED
    BY <2>1, <2>2 DEF TreeCells
<1>4. ASSUME NEW cell, cell \in TreeCells(Layout, nd, n)
      PROVE  \E d \in 0..(n - 1), e \in Node(plan), j \in Node(plan) : cell = CellAt(nd, d, e, col(d) + j)
  <2>1. PICK d \in 0..(n - 1), e \in 0..(nd - 1), j \in 0..(nd - 1) :
              cell = MaskRow(Layout, nd, d, e) + FirstColumn(Layout, d) + j
    BY <1>4 DEF TreeCells
  <2>2. e \in Node(plan) /\ j \in Node(plan) /\ j \in Nat
    BY <1>0
  <2>3. cell = CellAt(nd, d, e, col(d) + j)
    BY <1>2, <2>1, <2>2
  <2> QED
    BY <2>2, <2>3
<1>5. \A d \in 1..n, e \in Node(plan) : seen[d][e] \subseteq Node(plan)
  BY DEF RowsSeen
<1>6. ASSUME NEW cell, cell \in SeenCells(Layout, nd, seen)
      PROVE  \E d \in 0..(n - 1), e \in Node(plan), j \in Nat :
                j \in seen[d + 1][e] /\ cell = CellAt(nd, d, e, col(d) + j)
  <2>1. PICK d \in 1..n, e \in Node(plan) : \E j \in seen[d][e] :
              cell = MaskRow(Layout, nd, d - 1, e) + FirstColumn(Layout, d - 1) + j
    BY <1>0, <1>6 DEF SeenCells, RowsSeen
  <2>9. PICK j \in seen[d][e] : cell = MaskRow(Layout, nd, d - 1, e) + FirstColumn(Layout, d - 1) + j
    BY <2>1
  <2>2. d - 1 \in 0..(n - 1) /\ (d - 1) + 1 = d
    BY <1>0
  <2>3. j \in Node(plan) /\ j \in Nat
    BY <1>0, <1>5, <2>9
  <2>4. cell = CellAt(nd, d - 1, e, col(d - 1) + j)
    BY <1>2, <2>9, <2>2, <2>3
  <2> QED
    BY <2>9, <2>2, <2>3, <2>4
<1>7. ASSUME NEW d \in 0..(n - 1), NEW e \in Node(plan), NEW j \in seen[d + 1][e]
      PROVE  CellAt(nd, d, e, col(d) + j) \in SeenCells(Layout, nd, seen)
  <2>1. d + 1 \in 1..n /\ (d + 1) - 1 = d /\ DOMAIN seen = 1..n
    BY <1>0 DEF RowsSeen
  <2>2. j \in Nat
    BY <1>0, <1>5, <2>1
  <2>3. CellAt(nd, d, e, col(d) + j) = MaskRow(Layout, nd, (d + 1) - 1, e) + FirstColumn(Layout, (d + 1) - 1) + j
    BY <1>2, <2>1, <2>2
  <2>4. e \in 0..(nd - 1)
    BY <1>0
  <2> DEFINE row(f, h) == {MaskRow(Layout, nd, f - 1, h) + FirstColumn(Layout, f - 1) + l : l \in seen[f][h]}
  <2>5. SeenCells(Layout, nd, seen) = UNION {row(f, h) : f \in DOMAIN seen, h \in 0..(nd - 1)}
    BY DEF SeenCells
  <2>6. CellAt(nd, d, e, col(d) + j) \in row(d + 1, e)
    BY <2>3
  <2> HIDE DEF col, row
  <2> QED
    BY <2>1, <2>4, <2>5, <2>6
<1>8. ASSUME NEW d \in 0..(n - 1), NEW e \in Node(plan), NEW x \in Nat, x < col(d) + nd, 
             NEW f \in 0..(n - 1), NEW h \in Node(plan), NEW j \in Node(plan),
             CellAt(nd, d, e, x) = CellAt(nd, f, h, col(f) + j)
      PROVE  d = f /\ e = h /\ x = col(d) + j
  <2>1. col(f) + j \in Nat /\ col(f) + j < FirstColumn(Layout, f) + nd
    BY <1>0
  <2>2. e \in 0..(nd - 1) /\ h \in 0..(nd - 1)
    BY <1>0
  <2>5. x < FirstColumn(Layout, d) + nd /\ Fits(nd, n) /\ CellAt(nd, d, e, x) = CellAt(nd, f, h, col(f) + j)
    BY <1>0, <1>8
  <2>3. d = f /\ e = h /\ x = col(f) + j
    <3> DEFINE y == col(f) + j
    <3>1. y \in Nat /\ y < FirstColumn(Layout, f) + nd /\ CellAt(nd, d, e, x) = CellAt(nd, f, h, y)
      BY <2>1, <2>5
    <3> HIDE DEF y
    <3>2. d = f /\ e = h /\ x = y
      BY <2>2, <2>5, <3>1, CellsDiffer
    <3> QED
      BY <3>2 DEF y
  <2> QED
    BY <2>3
<1>9. ASSUME NEW j \in Node(plan)
      PROVE  CellAt(nd, b, i, col(b) + j) \in Mask(plan, n, seen) <=> j \in seen[b + 1][i]
  <2>1. CellAt(nd, b, i, col(b) + j) \in Mask(plan, n, seen)
          <=> CellAt(nd, b, i, col(b) + j) \in SeenCells(Layout, nd, seen)
    BY <1>1, <1>3
  <2>2. ASSUME CellAt(nd, b, i, col(b) + j) \in SeenCells(Layout, nd, seen)
        PROVE  j \in seen[b + 1][i]
    <3>1. PICK d \in 0..(n - 1), e \in Node(plan), l \in Nat :
                l \in seen[d + 1][e] /\ CellAt(nd, b, i, col(b) + j) = CellAt(nd, d, e, col(d) + l)
      BY <1>6, <2>2
    <3>2. d + 1 \in 1..n
      BY <1>0
    <3>3. l \in Node(plan)
      BY <1>5, <3>1, <3>2
    <3>4. col(b) + j \in Nat /\ col(b) + j < col(b) + nd /\ col(b) \in Nat
      BY <1>0
    <3>5. b = d /\ i = e /\ col(b) + j = col(b) + l
      <4> DEFINE x == col(b) + j
      <4>1. x \in Nat /\ x < col(b) + nd /\ CellAt(nd, b, i, x) = CellAt(nd, d, e, col(d) + l)
        BY <3>1, <3>4
      <4> HIDE DEF x
      <4>2. b = d /\ i = e /\ x = col(b) + l
        BY <1>8, <3>3, <4>1
      <4> QED
        BY <4>2 DEF x
    <3>6. j = l
      BY <1>0, <3>3, <3>4, <3>5
    <3> QED
      BY <3>1, <3>5, <3>6
  <2> QED
    BY <1>7, <2>1, <2>2
<1>10. ASSUME NEW c \in 0..(col(b) - 1) PROVE CellAt(nd, b, i, c) \in Mask(plan, n, seen)
  <2>1. c \in Nat /\ c < col(b) /\ c < col(b) + nd /\ i \in 0..(nd - 1)
    BY <1>0
  <2>2. CellAt(nd, b, i, c) \in AllCells(nd)
    BY <1>0, <2>1, CellsInside
  <2>3. ASSUME CellAt(nd, b, i, c) \in TreeCells(Layout, nd, n) PROVE FALSE
    <3>1. PICK d \in 0..(n - 1), e \in Node(plan), j \in Node(plan) :
                CellAt(nd, b, i, c) = CellAt(nd, d, e, col(d) + j)
      BY <1>4, <2>3
    <3>2. c = col(b) + j
      BY <1>8, <2>1, <3>1
    <3>3. col(b) \in Nat /\ j \in Nat
      BY <1>0
    <3> QED
      BY <2>1, <3>2, <3>3
  <2> QED
    BY <1>1, <2>2, <2>3
<1> QED
  BY <1>9, <1>10

-----------------------------------------------------------------------------
(* What the target is handed                                                 *)

\* A request's nodes hold what was drafted for it.
Drafted(plan, node, paths) ==
  /\ Labelled(plan.nd - 1, node.up, TokenId, node.token)
  /\ \A i, j \in 1..(plan.nd - 1) : i # j /\ node.up[i] = node.up[j] => node.token[i] # node.token[j]
  /\ \A i \in 1..(plan.nd - 1) : Depth(node.up)[i] <= plan.steps
  /\ paths = {PathOf(node.up, node.token)[i] : i \in 1..(plan.nd - 1)}
  /\ server.topk = 1 => \A i \in 1..(plan.nd - 1) : node.up[i] = i - 1

\* The flat arrays hold, at the place of node i of request b, what it is.
NodeAt(t, node, b, i, f) ==
  /\ t.tokens[f] = (IF i = 0 THEN Bonus(b) ELSE <<node.token[i]>>)
  /\ t.positions[f] = lens[b] + Depth(node.up)[i]
  /\ t.next[f] = NextToken(node.up)[i]
  /\ t.sibling[f] = NextSibling(node.up)[i]

\* A row of the mask shows the whole prefix and, of the tree, the ancestors.
RowAt(t, node, b, i) ==
  /\ \A j \in Node(t.plan) :
       CellAt(t.plan.nd, b, i, FirstColumn(Layout, b) + j) \in t.mask <=> j \in Ancestors(node.up)[i]
  /\ \A c \in 0..(FirstColumn(Layout, b) - 1) : CellAt(t.plan.nd, b, i, c) \in t.mask

Handed(t, nodes) ==
  /\ t.plan \in server.plans /\ Fits(t.plan.nd, t.n)
  /\ \A b \in Request(t.n) : Drafted(t.plan, nodes[b + 1], t.paths[b + 1])
  /\ DOMAIN t.tokens = 0..(t.n * t.plan.nd - 1)
  /\ \A b \in Request(t.n), i \in Node(t.plan) : NodeAt(t, nodes[b + 1], b, i, b * t.plan.nd + i)
  /\ server.mask # "unread" => \A b \in Request(t.n), i \in Node(t.plan) : RowAt(t, nodes[b + 1], b, i)

\* A place in the flat arrays belongs to one request and one node.
LEMMA PlaceOf ==
  ASSUME NEW n \in Nat, NEW nd \in Nat \ {0}, NEW b \in 0..(n - 1), NEW i \in 0..(nd - 1)
  PROVE  /\ b * nd + i \in 0..(n * nd - 1)
         /\ (b * nd + i) \div nd = b /\ (b * nd + i) % nd = i
<1>1. b \in Nat /\ b + 1 \in Nat /\ b + 1 <= n /\ i \in Nat
  OBVIOUS
<1>2. b * nd \in Nat /\ n * nd \in Nat /\ (b + 1) * nd = b * nd + nd /\ (b + 1) * nd <= n * nd
  <2>1. (b + 1) * nd <= n * nd /\ n * nd \in Nat
    BY <1>1, Products
  <2>2. b * nd \in Nat /\ (b + 1) * nd = b * nd + nd
    BY <1>1, Products
  <2> QED
    BY <2>1, <2>2
<1>3. b * nd + i \in 0..(n * nd - 1)
  <2> DEFINE u == b * nd
             v == n * nd
             w == (b + 1) * nd
  <2>1. u \in Nat /\ v \in Nat /\ w = u + nd /\ w <= v
    BY <1>2
  <2> HIDE DEF u, v, w
  <2>2. u + i \in 0..(v - 1)
    BY <2>1, <1>1
  <2> QED
    BY <2>2 DEF u, v
<1> QED
  BY <1>1, <1>3, Divided

\* The place of a node and the request and node of a place.
LEMMA PlaceIs ==
  ASSUME NEW n \in Nat, NEW nd \in Nat \ {0}, NEW f \in 0..(n * nd - 1)
  PROVE  f \div nd \in 0..(n - 1) /\ f % nd \in 0..(nd - 1) /\ f = (f \div nd) * nd + (f % nd)
<1> DEFINE q == f \div nd
           r == f % nd
<1>1. f \in Nat /\ q \in Nat /\ r \in 0..(nd - 1) /\ f = q * nd + r
  <2>1. f \in Nat
    <3>1. n * nd \in Nat
      OBVIOUS
    <3> QED
      BY <3>1
  <2> QED
    BY <2>1, Divides
<1> HIDE DEF q, r
<1>2. ASSUME n <= q PROVE FALSE
  <2>1. n * nd <= q * nd /\ n * nd \in Nat /\ q * nd \in Nat
    BY <1>1, <1>2, Products
  <2> DEFINE u == n * nd
             v == q * nd
  <2>2. u <= v /\ u \in Nat /\ v \in Nat /\ f = v + r /\ f \in 0..(u - 1)
    BY <1>1, <2>1
  <2> HIDE DEF u, v
  <2> QED
    BY <1>1, <2>2
<1>3. q \in 0..(n - 1)
  BY <1>1, <1>2
<1> QED
  BY <1>1, <1>3 DEF q, r

\* A row sees the text of its request and the path of its node, wherever the
\* mask was read from.
LEMMA SeesIs ==
  ASSUME NEW nodes, Handed(tree, nodes), NEW b \in Request(tree.n), NEW i \in Node(tree.plan)
  PROVE  Sees(b, i) = Context(b, PathOf(nodes[b + 1].up, nodes[b + 1].token)[i])
<1> DEFINE nd == tree.plan.nd
           up == nodes[b + 1].up
           word == nodes[b + 1].token
           path == PathOf(up, word)[i]
           shows(c) == MaskRow(Layout, nd, b, i) + c \in tree.mask
           prefix == {c \in 0..(lens[b] - 1) : server.mask = "full" => shows(c)}
           seen == {j \in Node(tree.plan) :
                      IF server.mask = "unread" THEN j <= i ELSE shows(FirstColumn(Layout, b) + j)}
           cell(j) == <<tree.positions[b * nd + j], tree.tokens[b * nd + j]>>
<1>0. /\ Config /\ Fits(nd, tree.n) /\ nd \in Nat \ {0} /\ lens[b] \in Nat /\ tree.plan \in server.plans
      /\ Node(tree.plan) = 0..(nd - 1) /\ tree.n \in Nat /\ b \in 0..(tree.n - 1)
  <2>1. Fits(nd, tree.n) /\ tree.plan \in server.plans
    BY DEF Handed
  <2>2. /\ Config /\ nd \in Nat \ {0} /\ tree.n \in 1..server.bs /\ server.bs \in Nat
        /\ lens \in [0..(server.bs - 1) -> Nat]
    BY <2>1, ConfigIs DEF Fits, Config
  <2>3. tree.n \in Nat /\ b \in 0..(tree.n - 1) /\ b \in 0..(server.bs - 1)
    BY <2>2 DEF Request
  <2> QED
    BY <2>1, <2>2, <2>3 DEF Node
<1>1. /\ Labelled(nd - 1, up, TokenId, word) /\ IsTree(nd - 1, up)
      /\ server.topk = 1 => \A j \in 1..(nd - 1) : up[j] = j - 1
  BY DEF Handed, Drafted, Labelled
<1>2. Sees(b, i) = {<<c, <<b, c>>>> : c \in prefix} \cup {cell(j) : j \in seen}
  BY DEF Sees
<1>3. prefix = 0..(lens[b] - 1)
  <2>1. CASE server.mask = "full"
    <3>1. FirstColumn(Layout, b) = lens[b]
      BY <2>1 DEF FirstColumn, Layout
    <3>2. \A c \in 0..(lens[b] - 1) : shows(c)
      BY <2>1, <3>1 DEF Handed, RowAt, CellAt
    <3> QED
      BY <3>2
  <2>2. CASE server.mask # "full"
    BY <2>2
  <2> QED
    BY <2>1, <2>2
<1>4. seen = Ancestors(up)[i]
  <2>1. Ancestors(up)[i] \subseteq Node(tree.plan)
    BY <1>0, <1>1, AncestorsIs
  <2>2. CASE server.mask = "unread"
    <3>1. server.topk = 1
      BY <1>0, <2>2, ConfigIs
    <3>2. Ancestors(up)[i] = 0..i
      BY <1>0, <1>1, <3>1, ChainIs
    <3>3. seen = {j \in 0..(nd - 1) : j <= i}
      BY <1>0, <2>2
    <3> QED
      BY <1>0, <3>2, <3>3
  <2>3. CASE server.mask # "unread"
    <3>1. \A j \in Node(tree.plan) : shows(FirstColumn(Layout, b) + j) <=> j \in Ancestors(up)[i]
      BY <2>3 DEF Handed, RowAt, CellAt
    <3> QED
      BY <2>1, <2>3, <3>1
  <2> QED
    BY <2>2, <2>3
<1>5. \A j \in seen : cell(j) = <<lens[b] + Depth(up)[j], IF j = 0 THEN Bonus(b) ELSE <<word[j]>>>>
  <2> TAKE j \in seen
  <2>1. j \in Node(tree.plan)
    OBVIOUS
  <2>2. NodeAt(tree, nodes[b + 1], b, j, b * nd + j)
    BY <2>1 DEF Handed
  <2> QED
    BY <2>2 DEF NodeAt
<1>6. {cell(j) : j \in seen} = {<<lens[b], Bonus(b)>>} \cup {<<lens[b] + l, <<path[l]>>>> : l \in 1..Len(path)}
  <2>1. {cell(j) : j \in seen} = {<<lens[b] + Depth(up)[j], IF j = 0 THEN Bonus(b) ELSE <<word[j]>>>> : j \in seen}
    <3> HIDE DEF cell, seen
    <3> QED
      BY <1>5
  <2>2. {cell(j) : j \in seen}
          = {<<lens[b] + Depth(up)[j], IF j = 0 THEN Bonus(b) ELSE <<word[j]>>>> : j \in Ancestors(up)[i]}
    <3> HIDE DEF cell, seen
    <3> QED
      BY <1>4, <2>1
  <2> DEFINE root == Bonus(b)
             M == nd - 1
  <2>3. Labelled(M, up, TokenId, word) /\ i \in 0..M /\ lens[b] \in Nat
    BY <1>0, <1>1
  <2> HIDE DEF up, word, root, M
  <2>4. RowSeen(up, word, lens[b], root, i) = RowText(up, word, lens[b], root, i)
    <3> DEFINE c == lens[b]
    <3>1. Labelled(M, up, TokenId, word) /\ i \in 0..M /\ c \in Nat
      BY ONLY <2>3
    <3> HIDE DEF c
    <3>2. RowSeen(up, word, c, root, i) = RowText(up, word, c, root, i)
      BY ONLY <3>1, PathSeen
    <3> QED
      BY <3>2 DEF c
  <2>5. {<<lens[b] + Depth(up)[j], IF j = 0 THEN root ELSE <<word[j]>>>> : j \in Ancestors(up)[i]}
           = {<<lens[b], root>>} \cup {<<lens[b] + l, <<PathOf(up, word)[i][l]>>>> : l \in 1..Len(PathOf(up, word)[i])}
    BY ONLY <2>4 DEF RowSeen, RowText
  <2> HIDE DEF cell, seen
  <2> QED
    BY <2>2, <2>5 DEF root
<1>7. path \in Seq(TokenId)
  BY <1>0, <1>1, PathOfIs
<1>8. DOMAIN path = 1..Len(path)
  <2> HIDE DEF path
  <2> QED
    BY <1>7
<1>9. {<<c, <<b, c>>>> : c \in 0..lens[b]} = {<<c, <<b, c>>>> : c \in 0..(lens[b] - 1)} \cup {<<lens[b], Bonus(b)>>}
  <2>1. 0..lens[b] = 0..(lens[b] - 1) \cup {lens[b]}
    BY <1>0
  <2> QED
    BY <2>1 DEF Bonus
<1> HIDE DEF path, prefix, seen, cell
<1>10. Context(b, path) = {<<c, <<b, c>>>> : c \in 0..lens[b]} \cup {<<lens[b] + l, <<path[l]>>>> : l \in 1..Len(path)}
  BY <1>8 DEF Context
<1> QED
  BY <1>2, <1>3, <1>6, <1>9, <1>10 DEF path

-----------------------------------------------------------------------------
(* Greedy acceptance                                                         *)

\* The least of some numbers.
LEMMA LeastIs ==
  ASSUME NEW S \in SUBSET Nat, NEW x, S # {}
  PROVE  LeastOr(S, x) \in S /\ \A y \in S : LeastOr(S, x) <= y
<1>1. PICK m \in S : \A y \in S : m <= y
  BY Smallest
<1>2. LeastOr(S, x) = CHOOSE m1 \in S : \A y \in S : m1 <= y
  BY DEF LeastOr, Min
<1> QED
  BY <1>1, <1>2

FirstChild(N, up, n, c) ==
  \/ c = -1 /\ \A m \in 1..N : up[m] # n
  \/ c \in 1..N /\ up[c] = n /\ \A m \in 1..N : up[m] = n => c <= m
NextChild(N, up, n, c) ==
  \/ c = -1 /\ \A m \in 1..N : up[m] = up[n] => m <= n
  \/ c \in 1..N /\ up[c] = up[n] /\ n < c /\ \A m \in 1..N : up[m] = up[n] /\ n < m => c <= m

\* The links lead from a node to its first child, and from a child to the next.
LEMMA LinksAre ==
  ASSUME NEW N, NEW up, IsTree(N, up)
  PROVE  /\ \A n \in 0..N : FirstChild(N, up, n, NextToken(up)[n])
         /\ \A n \in 1..N : NextChild(N, up, n, NextSibling(up)[n])
         /\ NextSibling(up)[0] = -1
<1>0. N \in Nat /\ DOMAIN up = 1..N /\ {0} \cup 1..N = 0..N
  BY DEF IsTree
<1>1. ASSUME NEW n \in 0..N PROVE FirstChild(N, up, n, NextToken(up)[n])
  <2> DEFINE S == {c \in 1..N : up[c] = n}
  <2>1. NextToken(up)[n] = LeastOr(S, -1)
    BY <1>0 DEF NextToken
  <2>2. CASE S = {}
    <3>1. NextToken(up)[n] = -1
      BY <2>1, <2>2 DEF LeastOr
    <3> QED
      BY <2>2, <3>1 DEF FirstChild
  <2>3. CASE S # {}
    <3>1. S \in SUBSET Nat
      BY <1>0
    <3>2. NextToken(up)[n] \in S /\ \A y \in S : NextToken(up)[n] <= y
      BY <2>1, <2>3, <3>1, LeastIs
    <3> QED
      BY <3>2 DEF FirstChild
  <2> QED
    BY <2>2, <2>3
<1>2. ASSUME NEW n \in 1..N PROVE NextChild(N, up, n, NextSibling(up)[n])
  <2> DEFINE S == {c \in 1..N : up[c] = up[n] /\ c > n}
  <2>1. NextSibling(up)[n] = LeastOr(S, -1)
    <3>1. n # 0 /\ n \in 0..N
      BY <1>0
    <3> QED
      BY <1>0, <3>1 DEF NextSibling
  <2>2. CASE S = {}
    <3>1. NextSibling(up)[n] = -1
      BY <2>1, <2>2 DEF LeastOr
    <3>2. \A m \in 1..N : up[m] = up[n] => m <= n
      BY <1>0, <2>2
    <3> QED
      BY <3>1, <3>2 DEF NextChild
  <2>3. CASE S # {}
    <3>1. S \in SUBSET Nat
      BY <1>0
    <3>2. NextSibling(up)[n] \in S /\ \A y \in S : NextSibling(up)[n] <= y
      BY <2>1, <2>3, <3>1, LeastIs
    <3> QED
      BY <3>2 DEF NextChild
  <2> QED
    BY <2>2, <2>3
<1>3. NextSibling(up)[0] = -1
  BY <1>0 DEF NextSibling
<1> QED
  BY <1>1, <1>2, <1>3

\* A child with the word, or none of n's children at or behind c has it.
ChildWith(N, up, token, n, word, x) == x \in 1..N /\ up[x] = n /\ token[x] = word
NoneFrom(N, up, token, n, word, c, x) ==
  x = -1 /\ \A m \in 1..N : up[m] = n /\ c <= m => token[m] # word

\* The kernel's walk along the children finds one with the word if there is one.
LEMMA MatchIs ==
  ASSUME NEW nodes, Handed(tree, nodes), NEW b \in Request(tree.n), NEW n \in Node(tree.plan),
         NEW word, NEW found, found = Match(b, word)[tree.next[b * tree.plan.nd + n]]
  PROVE  \/ ChildWith(tree.plan.nd - 1, nodes[b + 1].up, nodes[b + 1].token, n, word, found)
         \/ NoneFrom(tree.plan.nd - 1, nodes[b + 1].up, nodes[b + 1].token, n, word, 0, found)
<1> DEFINE nd == tree.plan.nd
           N == nd - 1
           up == nodes[b + 1].up
           token == nodes[b + 1].token
           D == Node(tree.plan) \cup {-1}
           has(c) == tree.tokens[b * nd + c] = <<word>>
           sib(c) == tree.sibling[b * nd + c]
           Sat(f) == f = [c \in D |-> IF c = -1 THEN -1 ELSE IF has(c) THEN c ELSE f[sib(c)]]
<1>0. N \in Nat /\ D = 0..N \cup {-1} /\ IsTree(N, up) /\ Node(tree.plan) = 0..N
  <2>1. nd \in Nat \ {0}
    BY DEF Handed, Fits
  <2>2. IsTree(N, up)
    BY DEF Handed, Drafted, Labelled
  <2> QED
    BY <2>1, <2>2 DEF Node
<1>1. \A c \in 0..N : NodeAt(tree, nodes[b + 1], b, c, b * nd + c)
  BY <1>0 DEF Handed
<1>2. \A c \in 1..N : has(c) <=> token[c] = word
  <2> TAKE c \in 1..N
  <2>1. c \in 0..N /\ c # 0
    BY <1>0
  <2>2. tree.tokens[b * nd + c] = <<token[c]>>
    BY <1>1, <2>1 DEF NodeAt
  <2> QED
    BY <2>2
<1>3. /\ \A c \in 1..N : NextChild(N, up, c, sib(c))
      /\ sib(0) = -1
      /\ FirstChild(N, up, n, tree.next[b * nd + n])
  <2>1. \A c \in 0..N : sib(c) = NextSibling(up)[c]
    BY <1>1 DEF NodeAt
  <2>2. tree.next[b * nd + n] = NextToken(up)[n]
    BY <1>0, <1>1 DEF NodeAt
  <2>3. /\ \A c \in 0..N : FirstChild(N, up, c, NextToken(up)[c])
        /\ \A c \in 1..N : NextChild(N, up, c, NextSibling(up)[c])
        /\ NextSibling(up)[0] = -1
    BY <1>0, LinksAre
  <2>4. n \in 0..N /\ 0 \in 0..N /\ \A c \in 1..N : c \in 0..N
    BY <1>0
  <2> HIDE DEF sib
  <2> QED
    BY <2>1, <2>2, <2>3, <2>4
<1> HIDE DEF has, sib, up, token, N, D
<1> DEFINE p == [c \in D |-> IF c = -1 THEN -1 ELSE sib(c)]
           rank == [c \in D |-> IF c = -1 THEN 0 ELSE N + 1 - c]
           base == [c \in D |-> -1]
           G == [c \in D |-> [s \in D |-> IF has(c) THEN c ELSE s]]
           B == {-1}
<1>4. \A c \in D \ B : sib(c) \in D /\ p[c] = sib(c) /\ rank[sib(c)] < rank[c]
  <2> TAKE c \in D \ B
  <2>1. CASE c = 0
    BY <1>0, <1>3, <2>1
  <2>2. CASE c # 0
    <3>1. c \in 1..N /\ NextChild(N, up, c, sib(c))
      BY <1>0, <1>3, <2>2
    <3>2. sib(c) = -1 \/ (sib(c) \in 1..N /\ c < sib(c))
      BY <3>1 DEF NextChild
    <3>3. c \in D /\ c # -1 /\ sib(c) \in D /\ p[c] = sib(c)
      BY <1>0, <3>1, <3>2
    <3>4. rank[c] = N + 1 - c
      BY <3>3
    <3>5. rank[sib(c)] = IF sib(c) = -1 THEN 0 ELSE N + 1 - sib(c)
      BY <3>3
    <3>6. rank[sib(c)] < rank[c]
      <4> DEFINE s == sib(c)
      <4> HIDE DEF s, rank
      <4> QED
        BY <1>0, <3>1, <3>2, <3>4, <3>5 DEF s
    <3> QED
      BY <3>3, <3>6
  <2> QED
    BY <2>1, <2>2
<1>5. Recurs(D, D, N + 1, p, rank, B, base, G)
  <2>1. p \in [D -> D] /\ base \in [D -> D]
    <3>1. -1 \in D
      BY <1>0
    <3> QED
      BY <1>4, <3>1
  <2>2. rank \in [D -> 0..(N + 1)] /\ N + 1 \in Nat /\ B \subseteq D
    BY <1>0
  <2>3. G \in [D -> [D -> D]]
    <3>1. \A c \in D : [s \in D |-> IF has(c) THEN c ELSE s] \in [D -> D]
      OBVIOUS
    <3> QED
      BY <3>1
  <2>4. \A x \in D \ B : rank[p[x]] < rank[x]
    <3> HIDE DEF rank, p
    <3> QED
      BY <1>4
  <2> HIDE DEF p, rank, base, G, B
  <2> QED
    BY <2>1, <2>2, <2>3, <2>4 DEF Recurs
<1>6. PICK g \in [D -> D] : \A c \in D : g[c] = IF c \in B THEN base[c] ELSE G[c][g[p[c]]]
  <2> HIDE DEF p, rank, base, G, B
  <2> QED
    BY ONLY <1>5, Recursion
<1>7. Sat(g)
  <2>1. \A c \in D : g[c] = IF c = -1 THEN -1 ELSE IF has(c) THEN c ELSE g[sib(c)]
    <3> TAKE c \in D
    <3>1. CASE c = -1
      BY <1>6, <3>1
    <3>2. CASE c # -1
      <4>1. p[c] = sib(c) /\ sib(c) \in D
        BY <1>4, <3>2
      <4>2. g[c] = G[c][g[sib(c)]] /\ g[sib(c)] \in D
        BY <1>6, <3>2, <4>1
      <4> QED
        BY <3>2, <4>2
    <3> QED
      BY <3>1, <3>2
  <2>2. g = [c \in D |-> g[c]]
    BY <1>6
  <2> QED
    BY <2>1, <2>2
<1>8. Sat(Match(b, word))
  <2>1. Match(b, word) = CHOOSE f : Sat(f)
    BY DEF Match, has, sib, D
  <2> HIDE DEF Sat
  <2> QED
    BY <1>7, <2>1
<1> DEFINE M == Match(b, word)
<1>9. \A c \in D : M[c] = IF c = -1 THEN -1 ELSE IF has(c) THEN c ELSE M[sib(c)]
  <2>1. M = [c \in D |-> IF c = -1 THEN -1 ELSE IF has(c) THEN c ELSE M[sib(c)]]
    BY <1>8
  <2> HIDE DEF M
  <2> QED
    BY <2>1
<1> HIDE DEF M
<1> DEFINE good(c) == \/ ChildWith(N, up, token, up[c], word, M[c])
                      \/ NoneFrom(N, up, token, up[c], word, c, M[c])
           T == {c \in D : c \in 1..N => good(c)}
<1>10. T = D
  <2>1. B \subseteq T /\ T \subseteq D
    BY <1>0
  <2>2. ASSUME NEW c \in D \ B, p[c] \in T PROVE c \in T
    <3>1. CASE c \notin 1..N
      BY <3>1
    <3>2. CASE c \in 1..N
      <4>1. NextChild(N, up, c, sib(c)) /\ p[c] = sib(c) /\ sib(c) \in T /\ c # -1 /\ c \in D
        BY <1>0, <1>3, <1>4, <2>2, <3>2
      <4>2. CASE has(c)
        <5>1. M[c] = c /\ token[c] = word
          BY <1>2, <1>9, <3>2, <4>1, <4>2 DEF token, N, has
        <5> QED
          BY <3>2, <4>1, <5>1 DEF ChildWith
      <4>3. CASE ~has(c)
        <5>1. M[c] = M[sib(c)] /\ token[c] # word
          BY <1>2, <1>9, <3>2, <4>1, <4>3
        <5>2. CASE sib(c) = -1
          <6>1. M[c] = -1
            BY <1>0, <1>9, <5>1, <5>2
          <6>2. \A m \in 1..N : up[m] = up[c] => m <= c
            BY <1>0, <4>1, <5>2 DEF NextChild
          <6>3. \A m \in 1..N : up[m] = up[c] /\ c <= m => token[m] # word
            <7> TAKE m \in 1..N
            <7>1. up[m] = up[c] /\ c <= m => m = c
              BY <1>0, <3>2, <6>2
            <7> QED
              BY <5>1, <7>1
          <6> QED
            BY <4>1, <6>1, <6>3 DEF NoneFrom
        <5>3. CASE sib(c) # -1
          <6>1. /\ sib(c) \in 1..N /\ up[sib(c)] = up[c] /\ c < sib(c)
                /\ \A m \in 1..N : up[m] = up[c] /\ c < m => sib(c) <= m
            BY <4>1, <5>3 DEF NextChild
          <6>2. good(sib(c))
            BY <4>1, <6>1
          <6>3. CASE ChildWith(N, up, token, up[sib(c)], word, M[sib(c)])
            BY <4>1, <5>1, <6>1, <6>3
          <6>4. CASE NoneFrom(N, up, token, up[sib(c)], word, sib(c), M[sib(c)])
            <7>1. M[c] = -1 /\ \A m \in 1..N : up[m] = up[c] /\ sib(c) <= m => token[m] # word
              BY <5>1, <6>1, <6>4 DEF NoneFrom
            <7>2. \A m \in 1..N : up[m] = up[c] /\ c <= m => token[m] # word
              <8> TAKE m \in 1..N
              <8>1. up[m] = up[c] /\ c <= m => m = c \/ sib(c) <= m
                BY <1>0, <3>2, <6>1
              <8> QED
                BY <5>1, <7>1, <8>1
            <7> QED
              BY <4>1, <7>1, <7>2 DEF NoneFrom
          <6> QED
            BY <6>2, <6>3, <6>4
        <5> QED
          BY <5>2, <5>3
      <4> QED
        BY <4>2, <4>3
    <3> QED
      BY <3>1, <3>2
  <2>3. p \in [D -> D] /\ rank \in [D -> Nat] /\ B \subseteq D /\ \A x \in D \ B : rank[p[x]] < rank[x]
    <3>1. N + 1 \in Nat /\ rank \in [D -> 0..(N + 1)]
      BY <1>0
    <3> HIDE DEF p, rank, base, G, B
    <3>2. rank \in [D -> Nat]
      BY <3>1
    <3> QED
      BY <1>5, <3>2 DEF Recurs
  <2> HIDE DEF T, p, rank, B
  <2>4. Descent(D, p, rank, B, T)
    BY <2>1, <2>2, <2>3 DEF Descent
  <2> QED
    BY ONLY <2>4, ByRank
<1> DEFINE first == tree.next[b * nd + n]
<1>11. found = M[first]
  BY DEF M
<1>12. FirstChild(N, up, n, first)
  BY <1>3
<1> HIDE DEF first
<1>13. CASE first = -1
  <2>1. found = -1
    BY <1>0, <1>9, <1>11, <1>13
  <2>2. \A m \in 1..N : up[m] # n
    BY <1>0, <1>12, <1>13 DEF FirstChild
  <2>3. NoneFrom(N, up, token, n, word, 0, found)
    BY <2>1, <2>2 DEF NoneFrom
  <2> QED
    BY <2>3 DEF N, up, token
<1>14. CASE first # -1
  <2>1. first \in 1..N /\ up[first] = n /\ \A m \in 1..N : up[m] = n => first <= m
    BY <1>12, <1>14 DEF FirstChild
  <2>2. good(first)
    <3>1. first \in T
      BY <1>0, <1>10, <2>1
    <3> QED
      BY <2>1, <3>1
  <2>3. CASE ChildWith(N, up, token, up[first], word, M[first])
    BY <1>11, <2>1, <2>3 DEF N, up, token
  <2>4. CASE NoneFrom(N, up, token, up[first], word, first, M[first])
    <3>1. found = -1 /\ \A m \in 1..N : up[m] = n /\ 0 <= m => token[m] # word
      BY <1>11, <2>1, <2>4 DEF NoneFrom
    <3>2. NoneFrom(N, up, token, n, word, 0, found)
      BY <3>1 DEF NoneFrom
    <3> QED
      BY <3>2 DEF N, up, token
  <2> QED
    BY <2>2, <2>3, <2>4
<1> QED
  BY <1>13, <1>14

\* A path of nodes that leads down from the root.
RootPath(plan, node, w) ==
  /\ w \in Seq(Node(plan)) /\ Len(w) \in 1..(plan.steps + 1) /\ w[1] = 0
  /\ \A j \in 1..(Len(w) - 1) : w[j + 1] \in 1..(plan.nd - 1) /\ node.up[w[j + 1]] = w[j]

\* Every node of it has the word predicted for the one before.
Follows(plan, node, b, predicted, w) ==
  \A j \in 1..(Len(w) - 1) : node.token[w[j + 1]] = predicted[b * plan.nd + w[j]]

\* No child of its last node has the word predicted there.
Ends(plan, node, b, predicted, w) ==
  \A m \in 1..(plan.nd - 1) :
    node.up[m] = w[Len(w)] => node.token[m] # predicted[b * plan.nd + w[Len(w)]]

\* A walk follows the predictions from the root, and is as long as the tree is
\* deep or ends where no child was predicted.
LEMMA WalkIs ==
  ASSUME NEW nodes, Handed(tree, nodes), NEW b \in Request(tree.n), NEW predicted
  PROVE  /\ RootPath(tree.plan, nodes[b + 1], Walk(b, predicted))
         /\ Follows(tree.plan, nodes[b + 1], b, predicted, Walk(b, predicted))
         /\ \/ Len(Walk(b, predicted)) = tree.plan.steps + 1
            \/ Ends(tree.plan, nodes[b + 1], b, predicted, Walk(b, predicted))
<1> DEFINE plan == tree.plan
           nd == plan.nd
           node == nodes[b + 1]
           levels == plan.steps
           S == Seq(Node(plan)) \ {<<>>}
           at(x) == Match(b, predicted[b * nd + x])[tree.next[b * nd + x]]
           on(i, w) == LET c == at(Last(w)) IN IF Len(w) < i \/ c = -1 THEN w ELSE Append(w, c)
           G == [i \in 1..levels |-> [w \in S |-> on(i, w)]]
           Sat(f) == f = [i \in 0..levels |-> IF i = 0 THEN <<0>> ELSE on(i, f[i - 1])]
           Walking == CHOOSE f : Sat(f)
<1>0. levels \in Nat /\ nd \in Nat \ {0} /\ Node(plan) = 0..(nd - 1)
  <2>1. plan \in server.plans /\ Config
    BY DEF Handed, Fits
  <2> QED
    BY <2>1, ConfigIs DEF Node
<1>1. Walk(b, predicted) = Walking[levels]
  BY DEF Walk
<1>2. \A x \in Node(plan) : \/ ChildWith(nd - 1, node.up, node.token, x, predicted[b * nd + x], at(x))
                            \/ NoneFrom(nd - 1, node.up, node.token, x, predicted[b * nd + x], 0, at(x))
  BY MatchIs
<1>3. \A x \in Node(plan) : at(x) = -1 \/ at(x) \in Node(plan)
  <2> TAKE x \in Node(plan)
  <2> HIDE DEF at
  <2>1. at(x) = -1 \/ at(x) \in 1..(nd - 1)
    BY <1>2 DEF ChildWith, NoneFrom
  <2> QED
    BY <1>0, <2>1
<1> HIDE DEF at, node, nd, levels, plan
<1>4. \A w \in S : Len(w) \in Nat \ {0} /\ Last(w) = w[Len(w)] /\ Last(w) \in Node(plan)
  <2> TAKE w \in S
  <2>1. Len(w) \in Nat \ {0}
    BY EmptySeq
  <2>2. Last(w) = w[Len(w)]
    BY DEF Last
  <2> QED
    BY <2>1, <2>2
<1>5. \A w \in S, i \in 1..levels : on(i, w) \in S
  <2> TAKE w \in S, i \in 1..levels
  <2>1. CASE at(Last(w)) = -1
    BY <2>1
  <2>2. CASE at(Last(w)) # -1
    <3>1. at(Last(w)) \in Node(plan)
      BY <1>3, <1>4, <2>2
    <3>2. Append(w, at(Last(w))) \in S
      BY <3>1, AppendProperties
    <3> QED
      BY <3>2
  <2> QED
    BY <2>1, <2>2
<1>6. <<0>> \in S
  <2>1. 0 \in Node(plan)
    BY <1>0 
  <2> QED
    BY <2>1
<1>7. PICK g \in [0..levels -> S] : g[0] = <<0>> /\ \A i \in 1..levels : g[i] = G[i][g[i - 1]]
  <2>1. G \in [1..levels -> [S -> S]]
    <3>1. \A i \in 1..levels : [w \in S |-> on(i, w)] \in [S -> S]
      BY <1>5
    <3> HIDE DEF on, S
    <3> QED
      BY <3>1
  <2> DEFINE z == <<0>>
  <2>2. levels \in Nat /\ z \in S
    BY <1>0, <1>6
  <2> HIDE DEF G, S, z
  <2>3. \E h \in [0..levels -> S] : h[0] = z /\ \A i \in 1..levels : h[i] = G[i][h[i - 1]]
    BY <2>1, <2>2, StepByStep
  <2> QED
    BY <2>3 DEF z
<1>8. \A i \in 1..levels : i - 1 \in 0..levels /\ i \in 0..levels /\ g[i - 1] \in S /\ g[i] = on(i, g[i - 1])
  <2> TAKE i \in 1..levels
  <2>1. i - 1 \in 0..levels /\ i \in 0..levels
    BY <1>0
  <2> HIDE DEF on, S
  <2> QED
    BY <1>7, <2>1
<1>9. Sat(g)
  <2>1. \A i \in 0..levels : g[i] = IF i = 0 THEN <<0>> ELSE on(i, g[i - 1])
    <3> TAKE i \in 0..levels
    <3>1. i = 0 \/ i \in 1..levels
      BY <1>0
    <3> HIDE DEF on, S
    <3> QED
      BY <1>0, <1>7, <1>8, <3>1
  <2> HIDE DEF on, S
  <2>2. g = [i \in 0..levels |-> g[i]]
    BY <1>7
  <2> QED
    BY <2>1, <2>2
<1>10. Sat(Walking)
  <2> HIDE DEF Sat
  <2> QED
    BY <1>9
<1> HIDE DEF Walking
<1> DEFINE f == Walking
<1>11. f[0] = <<0>> /\ \A i \in 1..levels : f[i] = on(i, f[i - 1])
  <2>1. f = [i \in 0..levels |-> IF i = 0 THEN <<0>> ELSE on(i, f[i - 1])]
    BY <1>10
  <2> HIDE DEF f, on
  <2>2. 0 \in 0..levels /\ \A i \in 1..levels : i \in 0..levels /\ i # 0
    BY <1>0
  <2>3. f[0] = <<0>>
    BY <2>1, <2>2
  <2>4. \A i \in 1..levels : f[i] = on(i, f[i - 1])
    BY <2>1, <2>2
  <2> QED
    BY <2>3, <2>4
<1> HIDE DEF f
<1> DEFINE good(i, w) ==
             /\ w \in S /\ Len(w) <= i + 1 /\ w[1] = 0
             /\ \A j \in 1..(Len(w) - 1) : /\ w[j + 1] \in 1..(nd - 1) /\ node.up[w[j + 1]] = w[j]
                                           /\ node.token[w[j + 1]] = predicted[b * nd + w[j]]
             /\ Len(w) = i + 1 \/ at(w[Len(w)]) = -1
<1>12. good(0, f[0])
  <2>1. Len(<<0>>) = 1 /\ <<0>>[1] = 0
    OBVIOUS
  <2> HIDE DEF S
  <2> QED
    BY <1>6, <1>11, <2>1
<1>13. ASSUME NEW i \in 1..levels, good(i - 1, f[i - 1]) PROVE good(i, f[i])
  <2> DEFINE w == f[i - 1]
             l == Len(w)
             x == w[l]
             c == at(x)
  <2>1. /\ w \in S /\ l \in Nat \ {0} /\ l <= i /\ w[1] = 0 /\ Last(w) = x /\ x \in Node(plan)
        /\ i \in Nat
        /\ l = i \/ c = -1
        /\ \A j \in 1..(l - 1) : /\ w[j + 1] \in 1..(nd - 1) /\ node.up[w[j + 1]] = w[j]
                                 /\ node.token[w[j + 1]] = predicted[b * nd + w[j]]
    <3>1. i \in Nat /\ (i - 1) + 1 = i
      BY <1>0
    <3>2. w \in S /\ Len(w) <= (i - 1) + 1 /\ w[1] = 0 /\ (Len(w) = (i - 1) + 1 \/ at(w[Len(w)]) = -1)
      BY <1>13
    <3>3. \A j \in 1..(Len(w) - 1) : /\ w[j + 1] \in 1..(nd - 1) /\ node.up[w[j + 1]] = w[j]
                                     /\ node.token[w[j + 1]] = predicted[b * nd + w[j]]
      BY <1>13
    <3>4. Len(w) \in Nat \ {0} /\ Last(w) = w[Len(w)] /\ Last(w) \in Node(plan)
      BY <1>4, <3>2
    <3> HIDE DEF S, w
    <3> QED
      BY <3>1, <3>2, <3>3, <3>4
  <2>2. f[i] = IF l < i \/ c = -1 THEN w ELSE Append(w, c)
    BY <1>11, <2>1
  <2>3. CASE c = -1
    <3>1. f[i] = w
      BY <2>2, <2>3
    <3>2. Len(w) = l /\ at(w[Len(w)]) = -1
      BY <2>3
    <3>3. /\ w \in S /\ Len(w) \in Nat /\ Len(w) <= i /\ w[1] = 0 /\ i \in Nat
          /\ \A j \in 1..(Len(w) - 1) : /\ w[j + 1] \in 1..(nd - 1) /\ node.up[w[j + 1]] = w[j]
                                        /\ node.token[w[j + 1]] = predicted[b * nd + w[j]]
      BY <2>1
    <3> HIDE DEF S, w
    <3>4. Len(w) <= i + 1
      BY <3>3
    <3> QED
      BY <3>1, <3>2, <3>3, <3>4
  <2>4. CASE c # -1
    <3> DEFINE u == Append(w, c)
    <3>1. f[i] = u /\ l = i
      BY <2>1, <2>2, <2>4
    <3>2. ChildWith(nd - 1, node.up, node.token, x, predicted[b * nd + x], c)
      BY <1>2, <2>1, <2>4 DEF NoneFrom
    <3>3. c \in 1..(nd - 1) /\ node.up[c] = x /\ node.token[c] = predicted[b * nd + x]
      BY <3>2 DEF ChildWith
    <3>4. c \in Node(plan)
      BY <1>0, <3>3 
    <3>5. w \in Seq(Node(plan))
      BY <2>1
    <3> HIDE DEF w, c, x
    <3>6. /\ u \in S /\ Len(u) = l + 1 /\ u[l + 1] = c /\ \A j \in 1..l : u[j] = w[j]
      BY <3>4, <3>5, AppendProperties
    <3> HIDE DEF u, l
    <3>7. \A j \in 1..(Len(u) - 1) : /\ u[j + 1] \in 1..(nd - 1) /\ node.up[u[j + 1]] = u[j]
                                     /\ node.token[u[j + 1]] = predicted[b * nd + u[j]]
      <4> TAKE j \in 1..(Len(u) - 1)
      <4>0. l \in Nat \ {0} /\ Len(u) - 1 = l
        BY <2>1, <3>6
      <4>4. j \in 1..l
        BY <4>0
      <4>1. j \in 1..l /\ (j = l \/ (j \in 1..(l - 1) /\ j + 1 \in 1..l))
        BY <4>0, <4>4
      <4>2. CASE j = l
        BY <3>3, <3>6, <4>1, <4>2 DEF x
      <4>3. CASE j # l
        BY <2>1, <3>6, <4>1, <4>3
      <4> QED
        BY <4>2, <4>3
    <3>8. u[1] = 0 /\ Len(u) = i + 1
      BY <2>1, <3>1, <3>6
    <3> HIDE DEF S
    <3> QED
      BY <2>1, <3>1, <3>6, <3>7, <3>8
  <2> QED
    BY <2>3, <2>4
<1>14. good(levels, f[levels])
  <2> DEFINE P == {i \in 0..levels : good(i, f[i])}
             prev == [i \in 1..levels |-> i - 1]
  <2>1. IsTree(levels, prev)
    BY <1>0 DEF IsTree
  <2>2. 0 \in P /\ P \subseteq 0..levels
    BY <1>0, <1>12
  <2>3. \A i \in 1..levels : prev[i] \in P => i \in P
    <3> TAKE i \in 1..levels
    <3> HAVE prev[i] \in P
    <3>1. i - 1 \in P
      OBVIOUS
    <3> HIDE DEF good
    <3>2. good(i - 1, f[i - 1]) /\ i \in 0..levels
      BY <1>0, <3>1
    <3> QED
      BY <1>13, <3>2
  <2> HIDE DEF P, prev
  <2>4. P = 0..levels
    BY <2>1, <2>2, <2>3, TreeInduction DEF Hereditary
  <2>5. levels \in P
    BY <1>0, <2>4
  <2> QED
    BY <2>5 DEF P
<1> DEFINE v == f[levels]
<1>15. Walk(b, predicted) = v
  BY <1>1 DEF f
<1>16. /\ v \in S /\ Len(v) <= levels + 1 /\ v[1] = 0
       /\ \A j \in 1..(Len(v) - 1) : /\ v[j + 1] \in 1..(nd - 1) /\ node.up[v[j + 1]] = v[j]
                                     /\ node.token[v[j + 1]] = predicted[b * nd + v[j]]
       /\ Len(v) = levels + 1 \/ at(v[Len(v)]) = -1
  BY <1>14
<1> HIDE DEF v, S, good, on, G, Sat
<1>17. v \in Seq(Node(plan)) /\ Len(v) \in 1..(levels + 1) /\ v[Len(v)] \in Node(plan)
  <2>1. Len(v) \in Nat \ {0} /\ v[Len(v)] \in Node(plan)
    BY <1>4, <1>16
  <2> QED
    BY <1>0, <1>16, <2>1 DEF S
<1>18. RootPath(plan, node, v)
  BY <1>16, <1>17 DEF RootPath, nd, levels
<1>19. Follows(plan, node, b, predicted, v)
  BY <1>16 DEF Follows, nd
<1>20. at(v[Len(v)]) = -1 => Ends(plan, node, b, predicted, v)
  <2> HAVE at(v[Len(v)]) = -1
  <2> DEFINE x == v[Len(v)]
  <2>1. NoneFrom(nd - 1, node.up, node.token, x, predicted[b * nd + x], 0, at(x))
    <3>1. -1 \notin 1..(nd - 1)
      BY <1>0
    <3> QED
      BY <1>2, <1>17, <3>1 DEF ChildWith
  <2>2. \A m \in 1..(nd - 1) : node.up[m] = x => node.token[m] # predicted[b * nd + x]
    BY <1>0, <2>1 DEF NoneFrom
  <2> QED
    BY <2>2 DEF Ends, nd
<1>21. \/ Len(v) = plan.steps + 1
       \/ Ends(plan, node, b, predicted, v)
  BY <1>16, <1>20 DEF levels
<1> QED
  BY <1>15, <1>18, <1>19, <1>21 DEF plan, node

-----------------------------------------------------------------------------
(* The result                                                                *)

\* A path from the root takes larger and larger numbers, so it is no longer
\* than there are nodes; in a chain it takes them all.
LEMMA RootPathIs ==
  ASSUME NEW nodes, Handed(tree, nodes), NEW b \in Request(tree.n), NEW w,
         RootPath(tree.plan, nodes[b + 1], w), NEW i \in 1..Len(w)
  PROVE  /\ w[i] \in Node(tree.plan) /\ w[i] \in Nat /\ i - 1 \in Node(tree.plan)
         /\ server.topk = 1 => w[i] = i - 1
<1> DEFINE nd == tree.plan.nd
           N == nd - 1
           up == nodes[b + 1].up
           l == Len(w)
           P == {j \in 0..(l - 1) : j <= w[j + 1] /\ (server.topk = 1 => w[j + 1] = j)}
           prev == [j \in 1..(l - 1) |-> j - 1]
<1>0. N \in Nat /\ IsTree(N, up) /\ Node(tree.plan) = 0..N
  <2>1. nd \in Nat \ {0}
    BY DEF Handed, Fits
  <2>2. IsTree(N, up)
    BY DEF Handed, Drafted, Labelled
  <2> QED
    BY <2>1, <2>2 DEF Node
<1>1. /\ w \in Seq(0..N) /\ l \in Nat \ {0} /\ w[1] = 0
      /\ \A j \in 1..(l - 1) : w[j + 1] \in 1..N /\ up[w[j + 1]] = w[j]
  <2>1. w \in Seq(0..N) /\ l \in 1..(tree.plan.steps + 1) /\ w[1] = 0
    BY <1>0 DEF RootPath
  <2>2. \A j \in 1..(l - 1) : w[j + 1] \in 1..N /\ up[w[j + 1]] = w[j]
    BY DEF RootPath
  <2>3. l \in Nat
    BY <2>1
  <2>4. l # 0
    BY <2>1
  <2> QED
    BY <2>1, <2>2, <2>3, <2>4
<1>2. server.topk = 1 => \A m \in 1..N : up[m] = m - 1
  BY DEF Handed, Drafted
<1>3. \A m \in 1..N : up[m] < m /\ up[m] \in Nat
  <2> HIDE DEF up, N
  <2>1. up \in [1..N -> 0..N] /\ \A m \in 1..N : up[m] < m
    BY <1>0 DEF IsTree
  <2> QED
    BY <1>0, <2>1
<1> HIDE DEF up, N
<1>4. \A j \in 1..l : w[j] \in 0..N
  <2>1. w \in Seq(0..N)
    BY <1>1
  <2> QED
    BY <2>1, ElementOfSeq
<1> HIDE DEF l
<1>5. P = 0..(l - 1)
  <2>1. IsTree(l - 1, prev)
    BY <1>1 DEF IsTree
  <2>2. 0 \in P /\ P \subseteq 0..(l - 1)
    BY <1>1
  <2>3. ASSUME NEW j \in 1..(l - 1), prev[j] \in P PROVE j \in P
    <3>1. j - 1 \in P /\ (j - 1) + 1 = j /\ j \in 0..(l - 1) /\ j \in 1..l
      BY <1>1, <2>3
    <3>2. j - 1 <= w[j] /\ (server.topk = 1 => w[j] = j - 1)
      BY <3>1
    <3>3. w[j + 1] \in 1..N /\ up[w[j + 1]] = w[j]
      BY <1>1
    <3> DEFINE c == w[j + 1]
    <3>4. w[j] < c /\ c \in Nat /\ w[j] \in Nat
      BY <1>3, <3>3
    <3>5. server.topk = 1 => c = w[j] + 1
      <4> HAVE server.topk = 1
      <4>1. w[j] = c - 1
        BY <1>2, <3>3
      <4> QED
        BY <3>4, <4>1
    <3>6. j <= c /\ (server.topk = 1 => c = j)
      <4> HIDE DEF c
      <4> QED
        BY <3>1, <3>2, <3>4, <3>5
    <3> QED
      BY <3>1, <3>6
  <2> HIDE DEF P, prev
  <2> QED
    BY <2>1, <2>2, <2>3, TreeInduction DEF Hereditary
<1>6. i - 1 \in P /\ (i - 1) + 1 = i
  <2>1. i \in 1..l
    BY DEF l
  <2> HIDE DEF P
  <2> QED
    BY <1>1, <1>5, <2>1
<1>7. w[i] \in 0..N
  BY <1>4 DEF l
<1>8. i \in Nat \ {0}
  <2>1. i \in 1..l
    BY DEF l
  <2> QED
    BY <1>1, <2>1
<1>9. i - 1 <= w[i] /\ (server.topk = 1 => w[i] = i - 1)
  BY <1>6
<1> QED
  BY <1>0, <1>7, <1>8, <1>9

\* What verify returns for a request is that of the nodes on its path: their
\* predictions and hidden states at the front of its block, the last of the
\* predictions as the bonus, and as many tokens more as there are nodes.
Accepting(nodes, paths) ==
  /\ Handed(tree, nodes)
  /\ \A b \in Request(tree.n) : RootPath(tree.plan, nodes[b + 1], paths[b + 1])

LEMMA ResultIs ==
  ASSUME NEW nodes, NEW paths, Accepting(nodes, paths), NEW predicted, NEW asked, NEW r,
         r = Result(paths, predicted, asked), NEW b \in Request(tree.n), NEW i \in 1..Len(paths[b + 1])
  PROVE  /\ r.acc[b] = Len(paths[b + 1])
         /\ r.predict[b * tree.plan.nd + i - 1] = predicted[b * tree.plan.nd + paths[b + 1][i]]
         /\ r.hidden[b * tree.plan.nd + i - 1] = Sees(b, paths[b + 1][i])
         /\ r.bonus[b] = predicted[b * tree.plan.nd + paths[b + 1][Len(paths[b + 1])]]
         /\ r.lens[b] = lens[b] + Len(paths[b + 1])
         /\ r.asked = asked
<1> DEFINE n == tree.n
           nd == tree.plan.nd
           w == paths[b + 1]
           flat == DOMAIN tree.tokens
           places == [x \in 1..(n * Width) |->
                        FlatIndex((x - 1) \div Width, paths[((x - 1) \div Width) + 1])[((x - 1) % Width) + 1]]
           answers == [f \in flat |-> IF f \in Range(places) THEN predicted[f] ELSE 0]
           hidden == [f \in flat |-> Sees(f \div nd, f % nd)]
           front(x) == IF server.topk > 1 THEN Compact(x, places, n, nd) ELSE x
<1>0. /\ Handed(tree, nodes) /\ Config /\ n \in Nat /\ n <= server.bs /\ nd \in Nat \ {0} /\ flat = 0..(n * nd - 1)
      /\ Width \in Nat \ {0} /\ b \in 0..(n - 1) /\ b \in Request(server.bs) /\ b \in Nat /\ server.topk \in Nat \ {0}
  <2>1. Handed(tree, nodes)
    BY DEF Accepting
  <2>2. Fits(nd, n) /\ tree.plan \in server.plans /\ flat = 0..(n * nd - 1)
    BY <2>1 DEF Handed
  <2>3. Config /\ nd \in Nat \ {0} /\ n \in 1..server.bs
    BY <2>2 DEF Fits
  <2>4. server.bs \in Nat /\ tree.plan.steps \in Nat /\ server.topk \in Nat \ {0}
    BY <2>2, <2>3, ConfigIs
  <2>5. b \in 0..(n - 1) /\ n \in Nat /\ n <= server.bs /\ b \in Request(server.bs) /\ b \in Nat
    BY <2>3, <2>4 DEF Request
  <2>6. Width \in Nat \ {0}
    BY <2>4 DEF Width
  <2> QED
    BY <2>1, <2>2, <2>3, <2>4, <2>5, <2>6
<1>1. /\ RootPath(tree.plan, nodes[b + 1], w) /\ Len(w) \in 1..Width
      /\ \A j \in 1..Len(w) : /\ w[j] \in 0..(nd - 1) /\ j - 1 \in 0..(nd - 1)
                              /\ server.topk = 1 => w[j] = j - 1
  <2>1. RootPath(tree.plan, nodes[b + 1], w)
    BY DEF Accepting
  <2>2. Len(w) \in 1..Width
    BY <2>1 DEF RootPath, Width
  <2> QED
    BY <1>0, <2>1, <2>2, RootPathIs DEF Node
<1>2. r = [acc |-> [c \in Request(n) |-> Len(paths[c + 1])], asked |-> asked,
           predict |-> front(answers), hidden |-> front(hidden),
           bonus |-> [c \in Request(n) |-> BonusOf(answers, places, c, [d \in Request(n) |-> Len(paths[d + 1])][c])],
           lens |-> [c \in Request(server.bs) |->
                       IF c < n THEN lens[c] + [d \in Request(n) |-> Len(paths[d + 1])][c] ELSE lens[c]]]
  BY DEF Result
<1>3. /\ r.acc[b] = Len(w) /\ r.asked = asked
      /\ r.predict = front(answers) /\ r.hidden = front(hidden)
      /\ r.bonus[b] = BonusOf(answers, places, b, Len(w))
      /\ r.lens[b] = lens[b] + Len(w)
  <2>1. b < n
    BY <1>0
  <2> HIDE DEF front, answers, hidden, places
  <2> QED
    BY <1>0, <1>2, <2>1
<1> HIDE DEF w, n, nd
<1>4. \A j \in 1..Len(w) : /\ places[b * Width + j] = b * nd + w[j]
                           /\ b * nd + w[j] \in flat /\ b * nd + (j - 1) \in flat
                           /\ (b * nd + w[j]) \div nd = b /\ (b * nd + w[j]) % nd = w[j]
                           /\ (b * nd + (j - 1)) \div nd = b /\ (b * nd + (j - 1)) % nd = j - 1
                           /\ b * nd + w[j] \in Range(places)
                           /\ w[j] \in Nat /\ b * nd \in Nat /\ j - 1 < Width
  <2> TAKE j \in 1..Len(w)
  <2> DEFINE x == b * Width + j
  <2>1. j \in Nat \ {0} /\ j - 1 \in 0..(Width - 1) /\ j \in 1..Width
    BY <1>0, <1>1
  <2>2. /\ b * Width + (j - 1) \in 0..(n * Width - 1)
        /\ (b * Width + (j - 1)) \div Width = b /\ (b * Width + (j - 1)) % Width = j - 1
    <3> DEFINE v == Width
               y == j - 1
    <3>1. n \in Nat /\ v \in Nat \ {0} /\ b \in 0..(n - 1) /\ y \in 0..(v - 1)
      BY <1>0, <2>1
    <3> HIDE DEF v, y
    <3>2. b * v + y \in 0..(n * v - 1) /\ (b * v + y) \div v = b /\ (b * v + y) % v = y
      BY ONLY <3>1, PlaceOf
    <3> QED
      BY <3>2 DEF v, y
  <2>3. x \in 1..(n * Width) /\ x - 1 = b * Width + (j - 1)
    <3> DEFINE u == b * Width
               v == n * Width
    <3>1. u \in Nat /\ v \in Nat
      BY <1>0
    <3>2. u + (j - 1) \in 0..(v - 1)
      BY <2>2
    <3> HIDE DEF u, v
    <3>3. u + j \in 1..v /\ (u + j) - 1 = u + (j - 1)
      BY <2>1, <3>1, <3>2
    <3> QED
      BY <3>3 DEF u, v
  <2>4. places[x] = FlatIndex(b, w)[j]
    <3>1. places[x] = FlatIndex((x - 1) \div Width, paths[((x - 1) \div Width) + 1])[((x - 1) % Width) + 1]
      BY <2>3
    <3>2. (x - 1) \div Width = b /\ ((x - 1) % Width) + 1 = j
      BY <2>1, <2>2, <2>3
    <3> HIDE DEF places, x
    <3> QED
      BY <3>1, <3>2 DEF w
  <2>5. FlatIndex(b, w)[j] = b * nd + w[j]
    <3>1. j <= Len(w)
      BY <1>1
    <3> QED
      BY <2>1, <3>1 DEF FlatIndex, nd
  <2>6. b * nd + w[j] \in Range(places)
    <3>1. x \in DOMAIN places
      BY <2>3
    <3> HIDE DEF places
    <3> QED
      BY <2>4, <2>5, <3>1 DEF Range
  <2>7. /\ b * nd + w[j] \in 0..(n * nd - 1) /\ (b * nd + w[j]) \div nd = b /\ (b * nd + w[j]) % nd = w[j]
    <3> DEFINE y == w[j]
    <3>1. n \in Nat /\ nd \in Nat \ {0} /\ b \in 0..(n - 1) /\ y \in 0..(nd - 1)
      BY <1>0, <1>1
    <3> HIDE DEF y
    <3>2. b * nd + y \in 0..(n * nd - 1) /\ (b * nd + y) \div nd = b /\ (b * nd + y) % nd = y
      BY ONLY <3>1, PlaceOf
    <3> QED
      BY <3>2 DEF y
  <2>8. /\ b * nd + (j - 1) \in 0..(n * nd - 1)
        /\ (b * nd + (j - 1)) \div nd = b /\ (b * nd + (j - 1)) % nd = j - 1
    <3> DEFINE y == j - 1
    <3>1. n \in Nat /\ nd \in Nat \ {0} /\ b \in 0..(n - 1) /\ y \in 0..(nd - 1)
      BY <1>0, <1>1
    <3> HIDE DEF y
    <3>2. /\ b * nd + y \in 0..(n * nd - 1) /\ (b * nd + y) \div nd = b /\ (b * nd + y) % nd = y
      BY ONLY <3>1, PlaceOf
    <3> QED
      BY <3>2 DEF y
  <2>9. w[j] \in Nat /\ b * nd \in Nat /\ j - 1 < Width
    BY <1>0, <1>1, <2>1
  <2> HIDE DEF places, flat
  <2> QED
    BY <1>0, <2>4, <2>5, <2>6, <2>7, <2>8, <2>9
<1>5. \A j \in 1..Len(w) : /\ answers[b * nd + w[j]] = predicted[b * nd + w[j]]
                           /\ hidden[b * nd + w[j]] = Sees(b, w[j])
  <2> TAKE j \in 1..Len(w)
  <2>1. answers[b * nd + w[j]] = predicted[b * nd + w[j]]
    <3> HIDE DEF places, flat
    <3> QED
      BY <1>4
  <2>2. hidden[b * nd + w[j]] = Sees(b, w[j])
    <3> HIDE DEF places, flat
    <3> QED
      BY <1>4
  <2> QED
    BY <2>1, <2>2
<1>6. ASSUME NEW x, DOMAIN x = flat, NEW j \in 1..Len(w)
      PROVE  front(x)[b * nd + j - 1] = x[b * nd + w[j]]
  <2>0. b * nd + j - 1 = b * nd + (j - 1) /\ j \in Nat
    <3>1. j \in Nat
      BY <1>1
    <3> DEFINE u == b * nd
    <3>2. u \in Nat
      BY <1>4
    <3> HIDE DEF u
    <3>3. u + j - 1 = u + (j - 1)
      BY <3>1, <3>2
    <3> QED
      BY <3>1, <3>3 DEF u
  <2>1. CASE server.topk > 1
    <3> DEFINE f == b * nd + (j - 1)
               q == b * nd + w[j]
    <3>1. f \in flat /\ f % nd = j - 1 /\ f \div nd = b /\ j - 1 < Width
      BY <1>4
    <3>2. Compact(x, places, n, nd)[f] = x[Max({places[(f \div nd) * Width + (f % nd) + 1], 0})]
      <4> HIDE DEF places, f, flat
      <4> QED
        BY <1>6, <3>1 DEF Compact
    <3>3. (f \div nd) * Width + (f % nd) + 1 = b * Width + j
      <4> DEFINE u == b * Width
      <4>1. u \in Nat
        BY <1>0
      <4> HIDE DEF u, f
      <4>2. (f \div nd) * Width = u /\ f % nd = j - 1
        BY <3>1 DEF u
      <4>3. u + (j - 1) + 1 = u + j
        BY <2>0, <4>1
      <4>4. (f \div nd) * Width + (f % nd) + 1 = u + j
        BY ONLY <4>2, <4>3
      <4> QED
        BY <4>4 DEF u
    <3>4. places[b * Width + j] = q /\ q \in Nat
      <4> DEFINE u == b * nd
      <4> HIDE DEF places, u
      <4>1. places[b * Width + j] = u + w[j] /\ w[j] \in Nat /\ u \in Nat
        BY <1>4 DEF u
      <4>2. u + w[j] \in Nat
        BY <4>1
      <4> QED
        BY <4>1, <4>2 DEF u
    <3> HIDE DEF q, places
    <3>5. Max({q, 0}) = q
      BY <3>4 DEF Max
    <3>6. front(x) = Compact(x, places, n, nd)
      BY <2>1
    <3> HIDE DEF front, f
    <3>7. front(x)[f] = x[q]
      BY <3>2, <3>3, <3>4, <3>5, <3>6
    <3>8. front(x)[b * nd + (j - 1)] = x[b * nd + w[j]]
      BY ONLY <3>7 DEF f, q
    <3> QED
      BY ONLY <2>0, <3>8
  <2>2. CASE ~(server.topk > 1)
    <3>1. server.topk = 1 /\ front(x) = x
      <4>1. front(x) = x
        BY <2>2
      <4>2. server.topk = 1
        <5> HIDE DEF front
        <5> QED
          BY <1>0, <2>2
      <4> QED
        BY <4>1, <4>2
    <3>2. w[j] = j - 1
      BY <1>1, <3>1
    <3> HIDE DEF front
    <3> QED
      BY <2>0, <3>1, <3>2
  <2> QED
    BY <2>1, <2>2
<1>7. DOMAIN answers = flat /\ DOMAIN hidden = flat
  OBVIOUS
<1>8. BonusOf(answers, places, b, Len(w)) = answers[places[b * Width + Len(w)]]
  BY DEF BonusOf
<1>9. Len(w) \in 1..Len(w) /\ i \in 1..Len(w)
  <2>1. Len(w) \in Nat \ {0}
    BY <1>0, <1>1
  <2> QED
    BY <2>1 DEF w
<1>10. r.bonus[b] = predicted[b * nd + w[Len(w)]]
  <2> HIDE DEF answers, places
  <2> QED
    BY <1>3, <1>4, <1>5, <1>8, <1>9
<1>11. r.predict[b * nd + i - 1] = predicted[b * nd + w[i]] /\ r.hidden[b * nd + i - 1] = Sees(b, w[i])
  <2> HIDE DEF answers, hidden, places, front
  <2> QED
    BY <1>3, <1>5, <1>6, <1>7, <1>9
<1> QED
  BY <1>3, <1>10, <1>11 DEF w, nd

\* What a request is handed in r.
EmissionOf(r, b) == [i \in 1..r.acc[b] |-> r.predict[b * tree.plan.nd + i - 1]]

\* Words, each the prediction of a node of w, whose path is the words before.
Spells(node, b, predicted, w, e) ==
  /\ e \in Seq(TokenId) /\ Len(e) = Len(w) /\ Len(e) \in Nat \ {0}
  /\ \A i \in 1..Len(e) : /\ e[i] = predicted[b * tree.plan.nd + w[i]]
                          /\ w[i] \in Node(tree.plan)
                          /\ PathOf(node.up, node.token)[w[i]] = SubSeq(e, 1, i - 1)

\* The first words of a list, one more at a time.
LEMMA OneMore ==
  ASSUME NEW W, NEW e \in Seq(W), NEW i \in Nat, i + 1 <= Len(e)
  PROVE  SubSeq(e, 1, i + 1) = Append(SubSeq(e, 1, i), e[i + 1])
<1> DEFINE s == SubSeq(e, 1, i)
           t == SubSeq(e, 1, i + 1)
           u == Append(s, e[i + 1])
<1>0. Len(e) \in Nat /\ i <= Len(e) /\ i + 1 \in Nat /\ i + 1 \in 1..Len(e)
  BY LenProperties
<1>1. s \in Seq(W) /\ Len(s) = i /\ \A j \in 1..i : s[j] = e[j]
  <2>1. 1 \in 1..(Len(e) + 1) /\ i \in 0..Len(e)
    BY <1>0
  <2>2. Len(s) = i
    BY <1>0, <2>1, SubSeqProperties
  <2>3. \A j \in 1..i : s[j] = e[j]
    BY <1>0, <2>1, SubSeqProperties
  <2>4. s \in Seq(W)
    BY <1>0, <2>1, SubSeqProperties
  <2> QED
    BY <2>2, <2>3, <2>4
<1>2. t \in Seq(W) /\ Len(t) = i + 1 /\ \A j \in 1..(i + 1) : t[j] = e[j]
  <2>1. 1 \in 1..(Len(e) + 1) /\ i + 1 \in 0..Len(e)
    BY <1>0
  <2>2. Len(t) = i + 1
    BY <1>0, <2>1, SubSeqProperties
  <2>3. \A j \in 1..(i + 1) : t[j] = e[j]
    BY <1>0, <2>1, SubSeqProperties
  <2>4. t \in Seq(W)
    BY <1>0, <2>1, SubSeqProperties
  <2> QED
    BY <2>2, <2>3, <2>4
<1>3. e[i + 1] \in W
  BY <1>0, ElementOfSeq
<1> HIDE DEF s, t
<1>4. u \in Seq(W) /\ Len(u) = i + 1 /\ u[i + 1] = e[i + 1] /\ \A j \in 1..i : u[j] = s[j]
  BY <1>1, <1>3, AppendProperties
<1> HIDE DEF u
<1>5. \A j \in 1..(i + 1) : t[j] = u[j]
  <2> TAKE j \in 1..(i + 1)
  <2>1. j = i + 1 \/ j \in 1..i
    BY <1>0
  <2> QED
    BY <1>1, <1>2, <1>4, <2>1
<1>6. t = u
  BY <1>2, <1>4, <1>5, SeqEqual
<1> QED
  BY <1>6 DEF s, t, u

\* Along a path that follows the predictions, what is emitted spells the paths.
LEMMA SpellsIs ==
  ASSUME NEW nodes, Handed(tree, nodes), NEW b \in Request(tree.n), NEW w, NEW predicted,
         RootPath(tree.plan, nodes[b + 1], w), Follows(tree.plan, nodes[b + 1], b, predicted, w),
         \A i \in 1..Len(w) : predicted[b * tree.plan.nd + w[i]] \in TokenId,
         NEW e, e = [i \in 1..Len(w) |-> predicted[b * tree.plan.nd + w[i]]]
  PROVE  Spells(nodes[b + 1], b, predicted, w, e)
<1> DEFINE nd == tree.plan.nd
           N == nd - 1
           up == nodes[b + 1].up
           token == nodes[b + 1].token
           path == PathOf(up, token)
           l == Len(w)
           P == {j \in 0..(l - 1) : path[w[j + 1]] = SubSeq(e, 1, j)}
           prev == [j \in 1..(l - 1) |-> j - 1]
<1>0. l \in Nat \ {0} /\ w[1] = 0
  <2>1. w \in Seq(Node(tree.plan)) /\ Len(w) \in 1..(tree.plan.steps + 1) /\ w[1] = 0
    BY DEF RootPath
  <2>2. Len(w) \in Nat
    BY <2>1
  <2>3. Len(w) # 0
    BY <2>1
  <2> QED
    BY <2>1, <2>2, <2>3
<1>1. \A i \in 1..l : w[i] \in Node(tree.plan)
  BY RootPathIs
<1>2. e \in Seq(TokenId) /\ Len(e) = l
  <2>1. e \in [1..l -> TokenId]
    OBVIOUS
  <2> QED
    BY <1>0, <2>1, ListOf
<1>3. \A i \in 1..l : e[i] = predicted[b * nd + w[i]]
  OBVIOUS
<1>4. /\ path[0] = <<>> /\ \A m \in 1..N : path[m] = Append(path[up[m]], token[m])
  <2>1. Labelled(N, up, TokenId, token)
    BY DEF Handed, Drafted
  <2> QED
    BY <2>1, PathOfIs
<1>5. \A j \in 1..(l - 1) : w[j + 1] \in 1..N /\ up[w[j + 1]] = w[j] /\ token[w[j + 1]] = predicted[b * nd + w[j]]
  BY DEF RootPath, Follows
<1> HIDE DEF path, l, N, nd, up, token
<1>6. P = 0..(l - 1)
  <2>1. IsTree(l - 1, prev)
    BY <1>0 DEF IsTree
  <2>2. 0 \in P /\ P \subseteq 0..(l - 1)
    <3>1. SubSeq(e, 1, 0) = <<>>
      BY <1>2, SubSeqEmpty
    <3>2. 0 \in 0..(l - 1) /\ 0 + 1 = 1
      BY <1>0
    <3> QED
      BY <1>0, <1>4, <3>1, <3>2
  <2>3. ASSUME NEW j \in 1..(l - 1), prev[j] \in P PROVE j \in P
    <3>1. (j - 1) + 1 = j /\ j \in 0..(l - 1) /\ j \in 1..l /\ j - 1 \in Nat
      BY <1>0
    <3>2. path[w[j]] = SubSeq(e, 1, j - 1)
      <4> DEFINE i == j - 1
      <4>1. i \in P
        <5>1. prev[j] = i
          OBVIOUS
        <5> HIDE DEF P, prev
        <5> QED
          BY <2>3, <5>1
      <4>2. i + 1 = j
        BY <3>1
      <4> HIDE DEF i
      <4>3. path[w[i + 1]] = SubSeq(e, 1, i)
        BY <4>1
      <4> QED
        BY <4>2, <4>3 DEF i
    <3>3. path[w[j + 1]] = Append(path[w[j]], e[j])
      <4> DEFINE c == w[j + 1]
      <4>1. c \in 1..N /\ up[c] = w[j] /\ token[c] = predicted[b * nd + w[j]]
        BY <1>5
      <4>2. e[j] = token[c]
        BY <1>3, <3>1, <4>1
      <4> HIDE DEF c
      <4>3. path[c] = Append(path[up[c]], token[c])
        BY <1>4, <4>1
      <4> QED
        BY <4>1, <4>2, <4>3 DEF c
    <3>4. SubSeq(e, 1, j) = Append(SubSeq(e, 1, j - 1), e[j])
      <4> DEFINE i == j - 1
      <4>1. i \in Nat /\ i + 1 <= Len(e) /\ i + 1 = j
        BY <1>0, <1>2, <3>1
      <4> HIDE DEF i
      <4>2. SubSeq(e, 1, i + 1) = Append(SubSeq(e, 1, i), e[i + 1])
        BY <1>2, <4>1, OneMore
      <4> QED
        BY <4>1, <4>2 DEF i
    <3>5. path[w[j + 1]] = SubSeq(e, 1, j)
      BY <3>2, <3>3, <3>4
    <3> QED
      BY <3>1, <3>5
  <2> HIDE DEF P, prev
  <2> QED
    BY <2>1, <2>2, <2>3, TreeInduction DEF Hereditary
<1>7. \A i \in 1..l : path[w[i]] = SubSeq(e, 1, i - 1)
  <2> TAKE i \in 1..l
  <2>1. i - 1 \in 0..(l - 1) /\ (i - 1) + 1 = i
    BY <1>0
  <2>2. i - 1 \in P
    <3> HIDE DEF P
    <3> QED
      BY <1>6, <2>1
  <2> QED
    BY <2>1, <2>2
<1> QED
  BY <1>0, <1>1, <1>2, <1>3, <1>7 DEF Spells, l, path, up, token, nd

\* Paths that follow predicted words.
Delivers(nodes, paths, predicted) ==
  /\ Accepting(nodes, paths)
  /\ \A b \in Request(tree.n) : Follows(tree.plan, nodes[b + 1], b, predicted, paths[b + 1])
  /\ \A f \in 0..(tree.n * tree.plan.nd - 1) : predicted[f] \in TokenId

\* What FrontExact says of request b, for the result r.
FrontOf(r, b) ==
  LET e == EmissionOf(r, b)
  IN /\ \A i \in DOMAIN e : r.hidden[b * tree.plan.nd + i - 1] = Context(b, SubSeq(e, 1, i - 1))
     /\ r.hidden[b * tree.plan.nd + r.acc[b] - 1] = Context(b, Front(e))
     /\ r.bonus[b] = Last(e)
     /\ r.lens[b] = lens[b] + Len(e)

\* What is emitted spells the accepted paths, and the front is theirs.
LEMMA EmissionIs ==
  ASSUME NEW nodes, NEW paths, NEW predicted, Delivers(nodes, paths, predicted),
         NEW asked, NEW r, r = Result(paths, predicted, asked), NEW b \in Request(tree.n)
  PROVE  /\ Spells(nodes[b + 1], b, predicted, paths[b + 1], EmissionOf(r, b))
         /\ FrontOf(r, b)
         /\ r.asked = asked
<1> DEFINE nd == tree.plan.nd
           w == paths[b + 1]
           e == EmissionOf(r, b)
           node == nodes[b + 1]
<1>0. /\ Accepting(nodes, paths) /\ Handed(tree, nodes) /\ RootPath(tree.plan, node, w)
      /\ Follows(tree.plan, node, b, predicted, w)
  BY DEF Delivers, Accepting
<1>1. nd \in Nat \ {0} /\ tree.n \in Nat /\ b \in 0..(tree.n - 1) /\ Node(tree.plan) = 0..(nd - 1)
  <2>1. Fits(nd, tree.n)
    BY <1>0 DEF Handed
  <2>2. nd \in Nat \ {0} /\ tree.n \in 1..server.bs /\ Config
    BY <2>1 DEF Fits
  <2>3. tree.n \in Nat
    BY <2>2, ConfigIs
  <2> QED
    BY <2>2, <2>3 DEF Request, Node
<1>2. Len(w) \in Nat \ {0}
  <2>1. w \in Seq(Node(tree.plan)) /\ Len(w) \in 1..(tree.plan.steps + 1)
    BY <1>0 DEF RootPath
  <2>2. Len(w) \in Nat
    BY <2>1
  <2>3. Len(w) # 0
    BY <2>1
  <2> QED
    BY <2>2, <2>3
<1>3. \A i \in 1..Len(w) : /\ r.acc[b] = Len(w) /\ r.asked = asked
                           /\ r.predict[b * nd + i - 1] = predicted[b * nd + w[i]]
                           /\ r.hidden[b * nd + i - 1] = Sees(b, w[i])
                           /\ r.bonus[b] = predicted[b * nd + w[Len(w)]]
                           /\ r.lens[b] = lens[b] + Len(w)
  <2> TAKE i \in 1..Len(w)
  <2> QED
    BY <1>0, ResultIs
<1>4. Len(w) \in 1..Len(w)
  BY <1>2
<1> HIDE DEF w
<1>5. e = [i \in 1..Len(w) |-> predicted[b * nd + w[i]]]
  <2>1. e = [i \in 1..r.acc[b] |-> r.predict[b * nd + i - 1]]
    BY DEF EmissionOf
  <2>2. r.acc[b] = Len(w)
    BY <1>3, <1>4
  <2> HIDE DEF e
  <2> QED
    BY <1>3, <2>1, <2>2
<1>6. \A i \in 1..Len(w) : w[i] \in Node(tree.plan) /\ predicted[b * nd + w[i]] \in TokenId
  <2> TAKE i \in 1..Len(w)
  <2>1. w[i] \in 0..(nd - 1) /\ w[i] \in Node(tree.plan)
    BY <1>0, <1>1, RootPathIs
  <2> DEFINE y == w[i]
             n == tree.n
  <2>2. n \in Nat /\ nd \in Nat \ {0} /\ b \in 0..(n - 1) /\ y \in 0..(nd - 1)
    BY <1>1, <2>1
  <2> HIDE DEF y, n, nd
  <2>3. b * nd + y \in 0..(n * nd - 1)
    BY ONLY <2>2, PlaceOf
  <2> QED
    BY <2>1, <2>3 DEF Delivers, y, n, nd
<1>7. Spells(node, b, predicted, w, e)
  <2> HIDE DEF e
  <2> QED
    BY <1>0, <1>5, <1>6, SpellsIs
<1>8. /\ Len(e) = Len(w) /\ e \in Seq(TokenId) /\ DOMAIN e = 1..Len(e)
      /\ \A i \in 1..Len(e) : /\ e[i] = predicted[b * nd + w[i]]
                              /\ PathOf(node.up, node.token)[w[i]] = SubSeq(e, 1, i - 1)
  <2> HIDE DEF e
  <2>1. Len(e) = Len(w) /\ e \in Seq(TokenId)
    BY <1>7 DEF Spells
  <2>2. DOMAIN e = 1..Len(e)
    BY <2>1
  <2> QED
    BY <1>7, <2>1, <2>2 DEF Spells
<1>9. \A i \in 1..Len(w) : r.hidden[b * nd + i - 1] = Context(b, SubSeq(e, 1, i - 1))
  <2> TAKE i \in 1..Len(w)
  <2>1. Sees(b, w[i]) = Context(b, PathOf(node.up, node.token)[w[i]])
    BY <1>0, <1>6, SeesIs
  <2>2. PathOf(node.up, node.token)[w[i]] = SubSeq(e, 1, i - 1)
    BY <1>8
  <2> HIDE DEF e, node
  <2> QED
    BY <1>3, <2>1, <2>2
<1>10. FrontOf(r, b)
  <2>1. \A i \in DOMAIN e : r.hidden[b * nd + i - 1] = Context(b, SubSeq(e, 1, i - 1))
    <3> HIDE DEF e
    <3> QED
      BY <1>8, <1>9
  <2>2. r.acc[b] = Len(w) /\ r.bonus[b] = predicted[b * nd + w[Len(w)]] /\ r.lens[b] = lens[b] + Len(w)
    BY <1>3, <1>4
  <2>3. r.hidden[b * nd + r.acc[b] - 1] = Context(b, Front(e))
    <3>1. Front(e) = SubSeq(e, 1, Len(w) - 1)
      <4> HIDE DEF e
      <4> QED
        BY <1>8 DEF Front
    <3> HIDE DEF e
    <3> QED
      BY <1>4, <1>9, <2>2, <3>1
  <2>4. r.bonus[b] = Last(e)
    <3> HIDE DEF e
    <3> QED
      BY <1>4, <1>8, <2>2 DEF Last
  <2>5. r.lens[b] = lens[b] + Len(e)
    <3> HIDE DEF e
    <3> QED
      BY <1>8, <2>2
  <2> QED
    BY <2>1, <2>3, <2>4, <2>5 DEF FrontOf
<1>11. r.asked = asked
  BY <1>3, <1>4
<1> QED
  BY <1>7, <1>10, <1>11 DEF w

\* What GreedyExact says of request b, for the result r.
GreedyOf(r, b) ==
  LET e == EmissionOf(r, b)
      answer == r.asked
  IN /\ \A i \in DOMAIN e :
          LET c == Context(b, SubSeq(e, 1, i - 1))
          IN c \in DOMAIN answer /\ answer[c] = e[i]
     /\ \A i \in 1..(Len(e) - 1) : SubSeq(e, 1, i) \in tree.paths[b + 1]
     /\ e \notin tree.paths[b + 1]

\* Walking greedily emits the target's continuation.
Contexts == {Sees(f \div tree.plan.nd, f % tree.plan.nd) : f \in DOMAIN tree.tokens}
Asked(answer) == [f \in DOMAIN tree.tokens |-> answer[Sees(f \div tree.plan.nd, f % tree.plan.nd)]]

LEMMA GreedyIs ==
  ASSUME NEW nodes, Handed(tree, nodes), NEW answer \in [Contexts -> Words],
         NEW r, r = Result([b \in 1..tree.n |-> Walk(b - 1, Asked(answer))], Asked(answer), answer),
         NEW b \in Request(tree.n)
  PROVE  GreedyOf(r, b) /\ FrontOf(r, b)
<1> DEFINE n == tree.n
           nd == tree.plan.nd
           N == nd - 1
           predicted == Asked(answer)
           paths == [c \in 1..n |-> Walk(c - 1, predicted)]
           w == paths[b + 1]
           e == EmissionOf(r, b)
           node == nodes[b + 1]
           path == PathOf(node.up, node.token)
<1>0. /\ nd \in Nat \ {0} /\ n \in Nat /\ b \in 0..(n - 1) /\ Node(tree.plan) = 0..N
      /\ DOMAIN tree.tokens = 0..(n * nd - 1) /\ Request(n) = 0..(n - 1)
  <2>1. Fits(nd, n) /\ DOMAIN tree.tokens = 0..(n * nd - 1)
    BY DEF Handed
  <2>2. nd \in Nat \ {0} /\ n \in 1..server.bs /\ Config
    BY <2>1 DEF Fits
  <2>3. n \in Nat
    BY <2>2, ConfigIs
  <2> QED
    BY <2>1, <2>2, <2>3 DEF Request, Node
<1>1. \A f \in 0..(n * nd - 1) : predicted[f] \in TokenId
  <2> TAKE f \in 0..(n * nd - 1)
  <2>1. predicted[f] = answer[Sees(f \div nd, f % nd)] /\ Sees(f \div nd, f % nd) \in Contexts
    BY <1>0 DEF Contexts, Asked
  <2>2. Words \subseteq TokenId
    BY TreeAssumption DEF TreeAssumption
  <2> QED
    BY <2>1, <2>2
<1>2. \A c \in Request(n) : /\ paths[c + 1] = Walk(c, predicted)
                            /\ RootPath(tree.plan, nodes[c + 1], paths[c + 1])
                            /\ Follows(tree.plan, nodes[c + 1], c, predicted, paths[c + 1])
                            /\ \/ Len(paths[c + 1]) = tree.plan.steps + 1
                               \/ Ends(tree.plan, nodes[c + 1], c, predicted, paths[c + 1])
  <2> TAKE c \in Request(n)
  <2>1. c + 1 \in 1..n /\ (c + 1) - 1 = c
    BY <1>0
  <2>2. paths[c + 1] = Walk(c, predicted)
    BY <2>1
  <2> HIDE DEF predicted, paths
  <2> QED
    BY <2>2, WalkIs
<1>3. Delivers(nodes, paths, predicted)
  BY <1>0, <1>1, <1>2 DEF Delivers, Accepting
<1>4. Spells(node, b, predicted, w, e) /\ FrontOf(r, b) /\ r.asked = answer
  <2> HIDE DEF predicted, paths
  <2>1. r = Result(paths, predicted, answer)
    BY DEF paths, predicted
  <2> QED
    BY <1>3, <2>1, EmissionIs
<1> HIDE DEF e, predicted, paths
<1>5. /\ e \in Seq(TokenId) /\ Len(e) = Len(w) /\ Len(e) \in Nat \ {0} /\ DOMAIN e = 1..Len(e)
      /\ \A i \in 1..Len(e) : e[i] = predicted[b * nd + w[i]] /\ w[i] \in 0..N /\ path[w[i]] = SubSeq(e, 1, i - 1)
  <2>1. e \in Seq(TokenId) /\ Len(e) = Len(w) /\ Len(e) \in Nat \ {0}
    BY <1>4 DEF Spells
  <2>2. DOMAIN e = 1..Len(e)
    BY <2>1
  <2> QED
    BY <1>0, <1>4, <2>1, <2>2 DEF Spells
<1>6. \A i \in 1..Len(e) : /\ Context(b, SubSeq(e, 1, i - 1)) \in Contexts
                           /\ answer[Context(b, SubSeq(e, 1, i - 1))] = e[i]
  <2> TAKE i \in 1..Len(e)
  <2> DEFINE f == b * nd + w[i]
  <2>1. f \in 0..(n * nd - 1) /\ f \div nd = b /\ f % nd = w[i]
    <3> DEFINE y == w[i]
    <3>1. n \in Nat /\ nd \in Nat \ {0} /\ b \in 0..(n - 1) /\ y \in 0..(nd - 1)
      BY <1>0, <1>5
    <3> HIDE DEF y, n, nd
    <3>2. b * nd + y \in 0..(n * nd - 1) /\ (b * nd + y) \div nd = b /\ (b * nd + y) % nd = y
      BY ONLY <3>1, PlaceOf
    <3> QED
      BY <3>2 DEF y, n, nd
  <2>2. Sees(b, w[i]) = Context(b, path[w[i]])
    <3>1. w[i] \in Node(tree.plan)
      BY <1>0, <1>5
    <3> QED
      BY <3>1, SeesIs
  <2>3. path[w[i]] = SubSeq(e, 1, i - 1) /\ e[i] = predicted[f]
    BY <1>5
  <2> HIDE DEF f, path
  <2>4. predicted[f] = answer[Sees(b, w[i])] /\ Sees(b, w[i]) \in Contexts
    BY <1>0, <2>1 DEF predicted, Asked, Contexts
  <2> QED
    BY <2>2, <2>3, <2>4
<1>7. \A m \in 0..N : path[m] \in Seq(TokenId) /\ (m # 0 => path[m] \in tree.paths[b + 1])
  <2>1. Labelled(N, node.up, TokenId, node.token) /\ tree.paths[b + 1] = {path[i] : i \in 1..N}
    BY DEF Handed, Drafted
  <2>2. path \in [0..N -> Seq(TokenId)]
    BY <2>1, PathOfIs
  <2> HIDE DEF path
  <2> TAKE m \in 0..N
  <2>3. m # 0 => m \in 1..N
    BY <1>0
  <2> QED
    BY <2>1, <2>2, <2>3
<1>8. \A i \in 1..(Len(e) - 1) : SubSeq(e, 1, i) \in tree.paths[b + 1]
  <2> TAKE i \in 1..(Len(e) - 1)
  <2>1. i + 1 \in 1..Len(e) /\ (i + 1) - 1 = i /\ i \in 1..(Len(w) - 1)
    BY <1>5
  <2>2. path[w[i + 1]] = SubSeq(e, 1, i)
    BY <1>5, <2>1
  <2>3. w[i + 1] \in 1..N
    BY <1>2, <2>1 DEF RootPath
  <2>4. w[i + 1] \in 0..N /\ w[i + 1] # 0
    BY <1>0, <2>3
  <2> HIDE DEF path
  <2> QED
    BY <1>7, <2>2, <2>4
<1>9. ASSUME e \in tree.paths[b + 1] PROVE FALSE
  <2>0. /\ Labelled(N, node.up, TokenId, node.token) /\ tree.paths[b + 1] = {path[i] : i \in 1..N}
        /\ \A i \in 1..N : Depth(node.up)[i] <= tree.plan.steps
        /\ \A i, j \in 1..N : i # j /\ node.up[i] = node.up[j] => node.token[i] # node.token[j]
    BY DEF Handed, Drafted
  <2>1. PICK m \in 1..N : e = path[m]
    <3> HIDE DEF path
    <3> QED
      BY <1>9, <2>0
  <2>2. m \in 0..N /\ node.up \in [1..N -> 0..N] /\ node.token \in [1..N -> TokenId] /\ node.up[m] \in 0..N
    BY <1>0, <2>0 DEF Labelled, IsTree
  <2>3. Len(e) <= tree.plan.steps
    <3>1. Len(path[m]) = Depth(node.up)[m]
      BY <2>0, <2>2, PathLength
    <3> HIDE DEF path
    <3> QED
      BY <2>0, <2>1, <3>1
  <2>4. Ends(tree.plan, node, b, predicted, w)
    <3>1. tree.plan.steps \in Nat
      <4>1. tree.plan \in server.plans /\ Config
        BY DEF Handed, Fits
      <4> QED
        BY <4>1, ConfigIs
    <3>2. Len(w) # tree.plan.steps + 1
      BY <1>5, <2>3, <3>1
    <3> QED
      BY <1>2, <3>2
  <2> DEFINE l == Len(e)
             u == node.up[m]
             x == w[l]
             i == l - 1
  <2>5. l \in 1..l /\ i \in Nat /\ i + 1 = l /\ i + 1 <= Len(e)
    BY <1>5
  <2>6. path[x] = SubSeq(e, 1, i) /\ e[l] = predicted[b * nd + x] /\ x \in 0..N
    BY <1>5, <2>5
  <2>7. e = Append(path[x], e[l])
    <3> HIDE DEF l, i, path, x
    <3>1. SubSeq(e, 1, i + 1) = Append(SubSeq(e, 1, i), e[i + 1])
      BY <1>5, <2>5, OneMore
    <3>2. SubSeq(e, 1, Len(e)) = e
      BY <1>5, SubSeqFull
    <3> QED
      BY <2>5, <2>6, <3>1, <3>2 DEF l
  <2>8. e = Append(path[u], node.token[m])
    <3>1. path[m] = Append(path[node.up[m]], node.token[m])
      <4>1. Labelled(N, node.up, TokenId, node.token) /\ m \in 1..N
        BY <2>0
      <4> HIDE DEF N, node
      <4>2. \A i1 \in 1..N : PathOf(node.up, node.token)[i1]
                               = Append(PathOf(node.up, node.token)[node.up[i1]], node.token[i1])
        BY ONLY <4>1, PathOfIs
      <4> QED
        BY <4>2
    <3> QED
      BY <2>1, <3>1
  <2>9. path[x] = path[u] /\ e[l] = node.token[m]
    <3>1. path[x] \in Seq(TokenId) /\ path[u] \in Seq(TokenId) /\ node.token[m] \in TokenId /\ e[l] \in TokenId
      <4>1. e[l] \in TokenId
        BY <1>5, <2>5, ElementOfSeq
      <4>2. node.token[m] \in TokenId
        BY <2>2
      <4> HIDE DEF path, l, x
      <4> QED
        BY <1>7, <2>2, <2>6, <4>1, <4>2
    <3> DEFINE s == path[x]
               t == path[u]
               p == e[l]
               q == node.token[m]
               W == TokenId
    <3>2. s \in Seq(W) /\ t \in Seq(W) /\ p \in W /\ q \in W /\ Append(s, p) = Append(t, q)
      BY <2>7, <2>8, <3>1
    <3> HIDE DEF s, t, p, q, W
    <3>3. s = t /\ p = q
      BY ONLY <3>2, AppendsAlike
    <3> QED
      BY <3>3 DEF s, t, p, q
  <2>10. x = u
    <3>1. /\ Labelled(N, node.up, TokenId, node.token) /\ x \in 0..N /\ u \in 0..N
          /\ \A i1, i2 \in 1..N : i1 # i2 /\ node.up[i1] = node.up[i2] => node.token[i1] # node.token[i2]
          /\ PathOf(node.up, node.token)[x] = PathOf(node.up, node.token)[u]
      BY <2>0, <2>2, <2>6, <2>9
    <3> HIDE DEF x, u
    <3> QED
      BY ONLY <3>1, PathsApart
  <2>11. node.token[m] # predicted[b * nd + x]
    <3>1. w[Len(w)] = x
      BY <1>5
    <3> QED
      BY <2>4, <2>10, <3>1 DEF Ends
  <2> QED
    BY <2>6, <2>9, <2>11
<1>10. GreedyOf(r, b)
  <2>1. DOMAIN answer = Contexts
    OBVIOUS
  <2>2. \A i \in DOMAIN e : /\ Context(b, SubSeq(e, 1, i - 1)) \in DOMAIN answer
                            /\ answer[Context(b, SubSeq(e, 1, i - 1))] = e[i]
    BY <1>5, <1>6, <2>1
  <2> QED
    BY <1>4, <1>8, <1>9, <2>2 DEF GreedyOf, e
<1> QED
  BY <1>4, <1>10

-----------------------------------------------------------------------------
(* Sampling acceptance                                                       *)

\* The largest of some numbers below a bound.
LEMMA Largest ==
  ASSUME NEW M \in Nat, NEW S \in SUBSET (0..M), S # {}
  PROVE  Max(S) \in S /\ \A y \in S : y <= Max(S)
<1> DEFINE T == {M - x : x \in S}
<1>1. T \in SUBSET Nat /\ T # {}
  <2>1. \A x \in S : x \in 0..M /\ M - x \in Nat
    OBVIOUS
  <2>2. PICK x \in S : TRUE
    OBVIOUS
  <2>3. M - x \in T
    OBVIOUS
  <2> QED
    BY <2>1, <2>3
<1>2. PICK m \in T : \A y \in T : m <= y
  <2> HIDE DEF T
  <2> QED
    BY <1>1, Smallest
<1>3. PICK x \in S : m = M - x
  BY <1>2
<1>4. \A y \in S : x >= y
  <2> TAKE y \in S
  <2>1. M - y \in T
    OBVIOUS
  <2>2. M - x <= M - y
    <3> HIDE DEF T
    <3> QED
      BY <1>2, <1>3, <2>1
  <2>3. x \in 0..M /\ y \in 0..M
    OBVIOUS
  <2> QED
    BY <2>2, <2>3
<1>5. Max(S) = CHOOSE v \in S : \A y \in S : v >= y
  BY DEF Max
<1> QED
  BY <1>4, <1>5

\* A token is drawn from the vocabulary.
LEMMA FinalIs ==
  ASSUME NEW w, NEW coin
  PROVE  Final(w, coin) \in TokenId
<1> DEFINE passed == {t \in TokenId : w[t] > 0 /\ Mass(w, 0..t) * Grid > coin * Total(w)}
<1>0. Vocab \in Nat \ {0}
  BY SamplerAssumption DEF SamplerAssumption
<1>1. Final(w, coin) = IF passed = {} THEN Vocab - 1 ELSE Min(passed)
  BY DEF Final
<1>2. passed \subseteq TokenId /\ passed \in SUBSET Nat
  BY <1>0 DEF TokenId
<1> HIDE DEF passed
<1>3. CASE passed = {}
  BY <1>0, <1>1, <1>3 DEF TokenId
<1>4. CASE passed # {}
  <2>1. LeastOr(passed, 0) \in passed /\ LeastOr(passed, 0) = Min(passed)
    BY <1>2, <1>4, LeastIs DEF LeastOr
  <2> QED
    BY <1>1, <1>2, <1>4, <2>1
<1> QED
  BY <1>3, <1>4

\* What sampling a chain emits: some of the proposals, in order, and one more.
LEMMA ChainEmits ==
  ASSUME NEW d \in Nat \ {0}, NEW ps, Len(ps) = d, NEW qs, NEW coins,
         NEW xs, xs \in [1..(d - 1) -> TokenId], NEW e, e = ChainSample(ps, qs, xs, coins)
  PROVE  /\ e \in Seq(TokenId) /\ Len(e) \in 1..d
         /\ \A j \in 1..(Len(e) - 1) : e[j] = xs[j] /\ Accepts(coins[j], ps[j], qs[j], xs[j])
         /\ Len(e) < d => ~Accepts(coins[Len(e)], ps[Len(e)], qs[Len(e)], xs[Len(e)])
         /\ e[Len(e)] = Final(IF Len(e) < d THEN Residual(ps[Len(e)], qs[Len(e)]) ELSE ps[d], coins[d])
<1> DEFINE S == {n \in 0..(d - 1) : \A i \in 1..n : Accepts(coins[i], ps[i], qs[i], xs[i])}
           num == Max(S)
           last == IF num < d - 1 THEN Residual(ps[num + 1], qs[num + 1]) ELSE ps[d]
           x == Final(last, coins[d])
           head == SubSeq(xs, 1, num)
<1>1. e = head \o <<x>>
  BY DEF ChainSample
<1>2. num \in 0..(d - 1) /\ num \in S /\ \A n \in S : n <= num
  <2>1. 0 \in S /\ S \in SUBSET (0..(d - 1)) /\ d - 1 \in Nat
    OBVIOUS
  <2> HIDE DEF S
  <2>2. num \in S /\ \A n \in S : n <= num
    BY <2>1, Largest
  <2> QED
    BY <2>1, <2>2
<1> HIDE DEF num
<1>11. /\ \A i \in 1..num : Accepts(coins[i], ps[i], qs[i], xs[i])
       /\ num < d - 1 => ~Accepts(coins[num + 1], ps[num + 1], qs[num + 1], xs[num + 1])
  <2>1. \A i \in 1..num : Accepts(coins[i], ps[i], qs[i], xs[i])
    BY <1>2
  <2>2. ASSUME num < d - 1, Accepts(coins[num + 1], ps[num + 1], qs[num + 1], xs[num + 1]) PROVE FALSE
    <3>1. \A i \in 1..(num + 1) : i \in 1..num \/ i = num + 1
      BY <1>2
    <3>2. \A i \in 1..(num + 1) : Accepts(coins[i], ps[i], qs[i], xs[i])
      BY <2>1, <2>2, <3>1
    <3>3. num + 1 \in 0..(d - 1)
      BY <1>2, <2>2
    <3>4. num + 1 \in S
      BY <3>2, <3>3
    <3> HIDE DEF S
    <3>5. num + 1 <= num
      BY <1>2, <3>4
    <3> QED
      BY <1>2, <3>5
  <2> QED
    BY <2>1, <2>2
<1> HIDE DEF S
<1>3. x \in TokenId
  BY FinalIs
<1> HIDE DEF x, last
<1>4. head \in Seq(TokenId) /\ Len(head) = num /\ \A j \in 1..num : head[j] = xs[j]
  <2>1. \A i \in 1..num : xs[i] \in TokenId
    BY <1>2
  <2>2. num \in Int /\ num \in Nat
    BY <1>2
  <2>3. head \in Seq(TokenId)
    BY <2>1, <2>2, SubSeqProperties
  <2>4. Len(head) = num
    <3>1. Len(head) = IF 1 <= num THEN num - 1 + 1 ELSE 0
      BY <2>1, <2>2, SubSeqProperties
    <3> QED
      BY <2>2, <3>1
  <2>5. \A j \in 1..num : head[j] = xs[j]
    <3>1. \A j \in 1..(num - 1 + 1) : head[j] = xs[1 + j - 1]
      BY <2>1, <2>2, SubSeqProperties
    <3> TAKE j \in 1..num
    <3>2. 1 + j - 1 = j /\ j \in 1..(num - 1 + 1)
      BY <2>2
    <3> QED
      BY <3>1, <3>2
  <2> QED
    BY <2>3, <2>4, <2>5
<1> HIDE DEF head
<1>5. <<x>> \in Seq(TokenId) /\ Len(<<x>>) = 1
  BY <1>3
<1>6. e \in Seq(TokenId) /\ Len(e) = num + 1 /\ \A j \in 1..num : e[j] = head[j]
  <2>1. e \in Seq(TokenId) /\ Len(e) = Len(head) + 1
    <3> DEFINE t == <<x>>
    <3>1. t \in Seq(TokenId) /\ Len(t) = 1
      BY <1>5
    <3> HIDE DEF t
    <3>2. head \o t \in Seq(TokenId) /\ Len(head \o t) = Len(head) + Len(t)
      BY <1>4, <3>1, ConcatProperties
    <3> QED
      BY <1>1, <3>1, <3>2 DEF t
  <2>2. \A j \in 1..Len(head) : e[j] = head[j]
    <3> TAKE j \in 1..Len(head)
    <3>1. j \in 1..(Len(head) + Len(<<x>>)) /\ j <= Len(head)
      BY <1>2, <1>4, <1>5
    <3> QED
      BY <1>1, <1>4, <1>5, <3>1, ConcatProperties
  <2> QED
    BY <1>4, <2>1, <2>2
<1>7. ASSUME NEW k, k = num + 1 PROVE e[k] = x
  <2> DEFINE t == <<x>>
  <2>1. t \in Seq(TokenId) /\ Len(t) = 1 /\ t[1] = x
    BY <1>3
  <2> HIDE DEF t
  <2>2. k \in 1..(Len(head) + Len(t)) /\ ~(k <= Len(head)) /\ k - Len(head) = 1
    BY <1>2, <1>4, <1>7, <2>1
  <2>3. \A i \in 1..(Len(head) + Len(t)) :
          (head \o t)[i] = IF i <= Len(head) THEN head[i] ELSE t[i - Len(head)]
    BY <1>4, <2>1, ConcatProperties
  <2>4. (head \o t)[k] = t[1]
    BY <2>2, <2>3
  <2> QED
    BY <1>1, <2>1, <2>4 DEF t
<1>8. /\ e \in Seq(TokenId) /\ Len(e) \in 1..d /\ Len(e) - 1 = num
      /\ (Len(e) < d <=> num < d - 1)
  BY <1>2, <1>6
<1>9. \A j \in 1..num : e[j] = xs[j]
  BY <1>4, <1>6
<1>10. Len(e) = num + 1 /\ e[Len(e)] = x
  BY <1>6, <1>7
<1> QED
  <2> DEFINE l == Len(e)
  <2>1. l = num + 1 /\ l - 1 = num /\ (l < d <=> num < d - 1) /\ l \in 1..d
    BY <1>8, <1>10
  <2>2. e \in Seq(TokenId) /\ e[l] = x
    BY <1>8, <1>10
  <2>3. x = Final(IF l < d THEN Residual(ps[l], qs[l]) ELSE ps[d], coins[d])
    BY <2>1 DEF x, last
  <2> HIDE DEF l
  <2>4. \A j \in 1..(l - 1) : e[j] = xs[j]
    BY ONLY <1>9, <2>1
  <2>5. \A j \in 1..(l - 1) : Accepts(coins[j], ps[j], qs[j], xs[j])
    BY ONLY <1>11, <2>1
  <2>6. l < d => ~Accepts(coins[l], ps[l], qs[l], xs[l])
    <3>1. ASSUME l < d PROVE num < d - 1 /\ num + 1 = l
      BY ONLY <2>1, <3>1
    <3> QED
      BY ONLY <1>11, <3>1
  <2>7. e[l] = Final(IF l < d THEN Residual(ps[l], qs[l]) ELSE ps[d], coins[d])
    BY ONLY <2>2, <2>3
  <2>8. /\ e \in Seq(TokenId) /\ l \in 1..d
        /\ \A j \in 1..(l - 1) : e[j] = xs[j] /\ Accepts(coins[j], ps[j], qs[j], xs[j])
    BY ONLY <2>1, <2>2, <2>4, <2>5
  <2> QED
    BY ONLY <2>6, <2>7, <2>8 DEF l

\* A batch of one chain, and what sampling it may emit.
OneChain(nodes, e) ==
  /\ Handed(tree, nodes) /\ tree.n = 1 /\ server.topk = 1
  /\ e \in Seq(TokenId) /\ Len(e) \in 1..tree.plan.nd
  /\ \A j \in 1..(Len(e) - 1) : e[j] = nodes[1].token[j]

\* The first nodes of the chain, one for each emitted token, are accepted.
ChainFits(nodes, e) ==
  /\ Handed(tree, nodes) /\ tree.plan.nd \in Nat \ {0} /\ Len(e) \in 1..tree.plan.nd
  /\ Len(e) \in Nat \ {0} /\ tree.plan.nd = tree.plan.steps + 1
  /\ Node(tree.plan) = 0..(tree.plan.nd - 1) /\ tree.plan.steps \in Nat
  /\ \A i \in 1..(tree.plan.nd - 1) : nodes[1].up[i] = i - 1
ChainWay(nodes, e, w) ==
  /\ w \in Seq(Node(tree.plan)) /\ Len(w) = Len(e) /\ \A i \in 1..Len(e) : w[i] = i - 1
  /\ \A j \in 1..(Len(w) - 1) :
       /\ w[j + 1] = j /\ w[j] = j - 1
       /\ j \in 1..(tree.plan.nd - 1) /\ j \in 1..(Len(e) - 1)
  /\ RootPath(tree.plan, nodes[1], w)
LEMMA ChainWayIs ==
  ASSUME NEW nodes, NEW e, OneChain(nodes, e), NEW w, w = [i \in 1..Len(e) |-> i - 1]
  PROVE  ChainFits(nodes, e) /\ ChainWay(nodes, e, w)
<1> DEFINE nd == tree.plan.nd
           node == nodes[1]
<1>0. /\ Handed(tree, nodes) /\ nd \in Nat \ {0} /\ Len(e) \in 1..nd /\ Len(e) \in Nat \ {0}
      /\ nd = tree.plan.steps + 1 /\ Node(tree.plan) = 0..(nd - 1) /\ tree.plan.steps \in Nat
      /\ \A i \in 1..(nd - 1) : node.up[i] = i - 1
  <2>1. Handed(tree, nodes) /\ server.topk = 1 /\ Len(e) \in 1..nd /\ tree.n = 1
    BY DEF OneChain
  <2>2. Fits(nd, tree.n) /\ tree.plan \in server.plans /\ Drafted(tree.plan, nodes[0 + 1], tree.paths[0 + 1])
    <3>1. 0 \in Request(tree.n)
      BY <2>1 DEF Request
    <3> QED
      BY <2>1, <3>1 DEF Handed
  <2>3. nd \in Nat \ {0} /\ Config
    BY <2>2 DEF Fits
  <2>4. nd = tree.plan.steps + 1 /\ tree.plan.steps \in Nat
    BY <2>1, <2>2, <2>3, ConfigIs
  <2>5. \A i \in 1..(nd - 1) : node.up[i] = i - 1
    BY <2>1, <2>2 DEF Drafted
  <2>6. Len(e) \in Nat \ {0}
    BY <2>1, <2>3
  <2> QED
    BY <2>1, <2>3, <2>4, <2>5, <2>6 DEF Node
<1>1. w \in Seq(Node(tree.plan)) /\ Len(w) = Len(e) /\ \A i \in 1..Len(e) : w[i] = i - 1
  <2>1. w \in [1..Len(e) -> Node(tree.plan)]
    BY <1>0
  <2>2. w \in Seq(Node(tree.plan)) /\ Len(w) = Len(e)
    <3> DEFINE l == Len(e)
    <3>1. l \in Nat
      BY <1>0
    <3> QED
      BY <2>1, <3>1, ListOf
  <2> QED
    BY <2>2
<1> HIDE DEF nd
<1>2. \A j \in 1..(Len(w) - 1) : /\ w[j + 1] = j /\ w[j] = j - 1 /\ j \in 1..(nd - 1) /\ j \in 1..(Len(e) - 1)
  <2> TAKE j \in 1..(Len(w) - 1)
  <2>1. j \in 1..Len(e) /\ j + 1 \in 1..Len(e) /\ j \in 1..(nd - 1) /\ (j + 1) - 1 = j /\ j \in 1..(Len(e) - 1)
    BY <1>0, <1>1
  <2> QED
    BY <1>1, <2>1
<1>3. RootPath(tree.plan, node, w)
  <2>1. Len(w) \in 1..(tree.plan.steps + 1)
    BY <1>0, <1>1
  <2>2. w[1] = 0
    BY <1>0, <1>1
  <2>3. \A j \in 1..(Len(w) - 1) : w[j + 1] \in 1..(nd - 1) /\ node.up[w[j + 1]] = w[j]
    BY <1>0, <1>2
  <2> QED
    BY <1>1, <2>1, <2>2, <2>3 DEF RootPath, nd
<1> QED
  BY <1>0, <1>1, <1>2, <1>3 DEF ChainFits, ChainWay, nd

LEMMA ChainAccepted ==
  ASSUME NEW nodes, NEW e, OneChain(nodes, e), NEW w, w = [i \in 1..Len(e) |-> i - 1]
  PROVE  Accepting(nodes, <<w>>)
<1>1. Handed(tree, nodes) /\ tree.n = 1 /\ RootPath(tree.plan, nodes[1], w)
  BY ChainWayIs DEF OneChain, ChainFits, ChainWay
<1> DEFINE paths == <<w>>
<1>2. \A b \in Request(tree.n) : b = 0
  BY <1>1 DEF Request
<1>3. paths[0 + 1] = w /\ nodes[0 + 1] = nodes[1]
  OBVIOUS
<1>4. \A b \in Request(tree.n) : RootPath(tree.plan, nodes[b + 1], paths[b + 1])
  <2> TAKE b \in Request(tree.n)
  <2>1. b = 0
    BY <1>2
  <2> HIDE DEF paths
  <2> QED
    BY <1>1, <1>3, <2>1
<1> HIDE DEF paths
<1>5. Accepting(nodes, paths)
  BY <1>1, <1>4 DEF Accepting
<1> QED
  BY <1>5 DEF paths

\* The request is handed just that, and the front is its.
LEMMA SampledIs ==
  ASSUME NEW nodes, NEW e, OneChain(nodes, e), NEW asked, NEW r,
         r = Result(<<[i \in 1..Len(e) |-> i - 1]>>,
                    [f \in 0..(tree.plan.nd - 1) |-> IF f < Len(e) THEN e[f + 1] ELSE 0], asked)
  PROVE  EmissionOf(r, 0) = e /\ FrontOf(r, 0) /\ r.asked = asked
<1> DEFINE nd == tree.plan.nd
           w == [i \in 1..Len(e) |-> i - 1]
           predicted == [f \in 0..(nd - 1) |-> IF f < Len(e) THEN e[f + 1] ELSE 0]
           node == nodes[1]
           paths == <<w>>
<1> HIDE DEF w
<1>a. ChainFits(nodes, e) /\ ChainWay(nodes, e, w)
  BY ChainWayIs DEF w
<1> HIDE DEF nd
<1>0. /\ Handed(tree, nodes) /\ nd \in Nat \ {0} /\ Len(e) \in 1..nd /\ Len(e) \in Nat \ {0}
      /\ nd = tree.plan.steps + 1 /\ Node(tree.plan) = 0..(nd - 1) /\ tree.plan.steps \in Nat
      /\ \A i \in 1..(nd - 1) : node.up[i] = i - 1
  BY <1>a DEF ChainFits, nd
<1>1. w \in Seq(Node(tree.plan)) /\ Len(w) = Len(e) /\ \A i \in 1..Len(e) : w[i] = i - 1
  BY <1>a DEF ChainWay
<1>2. \A j \in 1..(Len(w) - 1) : /\ w[j + 1] = j /\ w[j] = j - 1 /\ j \in 1..(nd - 1) /\ j \in 1..(Len(e) - 1)
  BY <1>a DEF ChainWay, nd
<1>3. RootPath(tree.plan, node, w)
  BY <1>a DEF ChainWay
<1>4. \A i \in 1..Len(e) : predicted[i - 1] = e[i]
  <2> TAKE i \in 1..Len(e)
  <2>1. i - 1 \in 0..(nd - 1) /\ i - 1 < Len(e) /\ (i - 1) + 1 = i
    BY <1>0
  <2> QED
    BY <2>1
<1>5. 0 * nd = 0 /\ \A x \in Int : 0 * nd + x = x
  BY <1>0
<1>6. Follows(tree.plan, node, 0, predicted, w)
  <2>1. \A j \in 1..(Len(w) - 1) : node.token[w[j + 1]] = predicted[0 * nd + w[j]]
    <3> TAKE j \in 1..(Len(w) - 1)
    <3>1. w[j + 1] = j /\ w[j] = j - 1 /\ j \in 1..(Len(e) - 1) /\ j \in 1..Len(e) /\ j - 1 \in Int
      BY <1>0, <1>2
    <3>2. 0 * nd + w[j] = j - 1
      BY <1>5, <3>1
    <3>3. predicted[j - 1] = e[j]
      BY <1>4, <3>1
    <3>4. e[j] = node.token[j]
      BY <3>1 DEF OneChain
    <3> HIDE DEF predicted
    <3> QED
      BY <3>1, <3>2, <3>3, <3>4
  <2> QED
    BY <2>1 DEF Follows, nd
<1>7. \A f \in 0..(1 * nd - 1) : predicted[f] \in TokenId
  <2> TAKE f \in 0..(1 * nd - 1)
  <2>1. f \in 0..(nd - 1) /\ e \in Seq(TokenId)
    BY <1>0 DEF OneChain
  <2>2. 0 \in TokenId
    BY SamplerAssumption DEF SamplerAssumption, TokenId
  <2>3. CASE f < Len(e)
    <3>1. f + 1 \in 1..Len(e)
      BY <1>0, <2>1, <2>3
    <3>2. e[f + 1] \in TokenId
      BY <2>1, <3>1, ElementOfSeq
    <3> QED
      BY <2>1, <2>3, <3>2
  <2>4. CASE ~(f < Len(e))
    BY <2>1, <2>2, <2>4
  <2> QED
    BY <2>3, <2>4
<1> HIDE DEF predicted
<1>8. Delivers(nodes, paths, predicted)
  <2>1. tree.n = 1 /\ \A b \in Request(tree.n) : b = 0
    BY DEF OneChain, Request
  <2>2. paths[0 + 1] = w /\ nodes[0 + 1] = node
    OBVIOUS
  <2>3. \A b \in Request(tree.n) : /\ RootPath(tree.plan, nodes[b + 1], paths[b + 1])
                                   /\ Follows(tree.plan, nodes[b + 1], b, predicted, paths[b + 1])
    <3> TAKE b \in Request(tree.n)
    <3>1. b = 0
      BY <2>1
    <3> HIDE DEF paths, node
    <3> QED
      BY <1>3, <1>6, <2>2, <3>1
  <2>4. \A f \in 0..(tree.n * tree.plan.nd - 1) : predicted[f] \in TokenId
    BY <1>7, <2>1 DEF nd
  <2> HIDE DEF paths, node
  <2> QED
    BY <1>0, <2>3, <2>4 DEF Delivers, Accepting
<1>9. r = Result(paths, predicted, asked) /\ 0 \in Request(tree.n)
  BY DEF w, predicted, nd, OneChain, Request
<1>10. /\ Spells(nodes[0 + 1], 0, predicted, paths[0 + 1], EmissionOf(r, 0))
       /\ FrontOf(r, 0) /\ r.asked = asked
  <2> HIDE DEF paths
  <2> QED
    BY <1>8, <1>9, EmissionIs
<1> DEFINE em == EmissionOf(r, 0)
<1>11. em = e
  <2>1. paths[0 + 1] = w
    OBVIOUS
  <2> HIDE DEF em, paths
  <2>2. em \in Seq(TokenId) /\ Len(em) = Len(w) /\ \A i \in 1..Len(em) : em[i] = predicted[0 * nd + w[i]]
    BY <1>10, <2>1 DEF Spells, em, nd
  <2>3. \A i \in 1..Len(e) : em[i] = e[i]
    <3> TAKE i \in 1..Len(e)
    <3>1. i - 1 \in Int /\ i \in 1..Len(em) /\ w[i] = i - 1
      BY <1>0, <1>1, <2>2
    <3>2. 0 * nd + w[i] = i - 1
      BY <1>5, <3>1
    <3> QED
      BY <1>4, <2>2, <3>1, <3>2
  <2>4. e \in Seq(TokenId) /\ Len(em) = Len(e)
    BY <1>1, <2>2 DEF OneChain
  <2> QED
    BY <2>2, <2>3, <2>4, SeqEqual
<1> QED
  BY <1>10, <1>11

-----------------------------------------------------------------------------
(* The steps                                                                 *)

\* The inputs of two batches differ in the mask alone.
SameNodes(t, v) ==
  /\ t.plan = v.plan /\ t.n = v.n /\ t.paths = v.paths /\ t.tokens = v.tokens
  /\ t.positions = v.positions /\ t.next = v.next /\ t.sibling = v.sibling

\* What was drafted for n requests, and a place for it.
Prepared(plan, n, nodes, paths) ==
  /\ plan \in server.plans /\ Fits(plan.nd, n)
  /\ \A b \in Request(n) : Drafted(plan, nodes[b + 1], paths[b + 1])

\* The arrays that verification is handed hold what was drafted.
LEMMA InputIs ==
  ASSUME NEW plan, NEW n, NEW nodes, NEW paths, NEW rows, Prepared(plan, n, nodes, paths),
         NEW t, SameNodes(t, VerifyInput(plan, n, nodes, paths, rows)),
         server.mask # "unread" => \A b \in Request(n), i \in Node(plan) : RowAt(t, nodes[b + 1], b, i)
  PROVE  Handed(t, nodes)
<1> DEFINE nd == plan.nd
           flat == 0..(n * nd - 1)
           up(f) == nodes[(f \div nd) + 1].up
           at(f) == f % nd
<1>0. /\ nd \in Nat \ {0} /\ n \in Nat /\ Request(n) = 0..(n - 1) /\ Node(plan) = 0..(nd - 1)
  <2>1. nd \in Nat \ {0} /\ n \in 1..server.bs /\ Config
    BY DEF Prepared, Fits
  <2>2. server.bs \in Nat
    BY <2>1, ConfigIs
  <2> QED
    BY <2>1, <2>2 DEF Request, Node
<1>1. /\ t.plan = plan /\ t.n = n /\ t.paths = paths
      /\ t.tokens = [f \in flat |-> IF at(f) = 0 THEN Bonus(f \div nd)
                                    ELSE <<nodes[(f \div nd) + 1].token[at(f)]>>]
      /\ t.positions = [f \in flat |-> lens[f \div nd] + Depth(up(f))[at(f)]]
      /\ t.next = [f \in flat |-> NextToken(up(f))[at(f)]]
      /\ t.sibling = [f \in flat |-> NextSibling(up(f))[at(f)]]
  BY DEF SameNodes, VerifyInput
<1>2. DOMAIN t.tokens = flat
  BY <1>1
<1>3. ASSUME NEW b \in Request(n), NEW i \in Node(plan)
      PROVE  NodeAt(t, nodes[b + 1], b, i, b * nd + i)
  <2> DEFINE f == b * nd + i
  <2>1. f \in flat /\ f \div nd = b /\ f % nd = i
    <3>1. n \in Nat /\ nd \in Nat \ {0} /\ b \in 0..(n - 1) /\ i \in 0..(nd - 1)
      BY <1>0
    <3> HIDE DEF nd
    <3> QED
      BY ONLY <3>1, PlaceOf
  <2> HIDE DEF f, nd, flat
  <2>2. t.tokens[f] = (IF i = 0 THEN Bonus(b) ELSE <<nodes[b + 1].token[i]>>)
    BY <1>1, <2>1
  <2>3. t.positions[f] = lens[b] + Depth(nodes[b + 1].up)[i]
    BY <1>1, <2>1
  <2>4. t.next[f] = NextToken(nodes[b + 1].up)[i] /\ t.sibling[f] = NextSibling(nodes[b + 1].up)[i]
    BY <1>1, <2>1
  <2> QED
    BY <2>2, <2>3, <2>4 DEF NodeAt, f
<1> HIDE DEF nd
<1>4. \A b \in Request(n), i \in Node(plan) : NodeAt(t, nodes[b + 1], b, i, b * plan.nd + i)
  BY <1>3 DEF nd
<1> QED
  BY <1>1, <1>2, <1>4 DEF Handed, Prepared, nd

\* The mask that the kernel writes shows every row its ancestors.
LEMMA InputMask ==
  ASSUME NEW plan, NEW n, NEW nodes, NEW paths, NEW rows, Prepared(plan, n, nodes, paths),
         NEW t, t = VerifyInput(plan, n, nodes, paths, rows), server.mask # "unread",
         NEW b \in Request(n), NEW i \in Node(plan)
  PROVE  RowAt(t, nodes[b + 1], b, i)
<1> DEFINE seen == [c \in 1..n |-> [j \in Node(plan) |-> Ancestors(nodes[c].up)[j]]]
<1>0. /\ Fits(plan.nd, n) /\ plan.nd \in Nat \ {0} /\ n \in Nat /\ Request(n) = 0..(n - 1)
      /\ Node(plan) = 0..(plan.nd - 1)
  <2>1. Fits(plan.nd, n) /\ plan.nd \in Nat \ {0} /\ n \in 1..server.bs /\ Config
    BY DEF Prepared, Fits
  <2>2. server.bs \in Nat
    BY <2>1, ConfigIs
  <2> QED
    BY <2>1, <2>2 DEF Request, Node
<1>1. t.plan = plan /\ t.mask = Mask(plan, n, seen)
  BY DEF VerifyInput
<1>2. \A c \in 1..n, j \in Node(plan) : seen[c][j] = Ancestors(nodes[c].up)[j]
  OBVIOUS
<1>3. \A c \in 1..n, j \in Node(plan) : seen[c][j] \subseteq Node(plan)
  <2> TAKE c \in 1..n, j \in Node(plan)
  <2>1. c - 1 \in Request(n) /\ (c - 1) + 1 = c
    BY <1>0
  <2>2. Drafted(plan, nodes[c], paths[c])
    BY <2>1 DEF Prepared
  <2>3. Ancestors(nodes[c].up) \in [0..(plan.nd - 1) -> SUBSET (0..(plan.nd - 1))]
    BY <2>2, AncestorsIs DEF Drafted, Labelled
  <2> HIDE DEF seen
  <2> QED
    BY <1>0, <1>2, <2>3
<1>4. DOMAIN seen = 1..n
  OBVIOUS
<1> HIDE DEF seen
<1>5. RowsSeen(plan, n, seen)
  BY <1>0, <1>3, <1>4 DEF RowsSeen
<1>6. /\ \A j \in Node(plan) :
              CellAt(plan.nd, b, i, FirstColumn(Layout, b) + j) \in Mask(plan, n, seen) <=> j \in seen[b + 1][i]
      /\ \A c \in 0..(FirstColumn(Layout, b) - 1) : CellAt(plan.nd, b, i, c) \in Mask(plan, n, seen)
  BY <1>0, <1>5, MaskIs
<1>7. seen[b + 1][i] = Ancestors(nodes[b + 1].up)[i]
  BY <1>0, <1>2
<1> QED
  BY <1>1, <1>6, <1>7 DEF RowAt

\* A tree of the root alone is seen in a mask of which everything is set.
LEMMA TrivialMask ==
  ASSUME NEW plan, NEW n, NEW nodes, NEW paths, Prepared(plan, n, nodes, paths), plan.nd = 1,
         NEW t, t.plan = plan, t.mask = AllCells(1),
         NEW b \in Request(n), NEW i \in Node(plan)
  PROVE  RowAt(t, nodes[b + 1], b, i)
<1>0. Fits(1, n) /\ Request(n) = 0..(n - 1) /\ i \in 0..(1 - 1) /\ i = 0 /\ Node(plan) = {0}
  BY DEF Prepared, Request, Node
<1>1. FirstColumn(Layout, b) \in Nat
  BY <1>0, RowsAreNumbers
<1>2. \A x \in Nat : x < FirstColumn(Layout, b) + 1 => CellAt(1, b, i, x) \in t.mask
  BY <1>0, CellsInside
<1>3. Ancestors(nodes[b + 1].up)[0] = {0}
  <2>1. IsTree(plan.nd - 1, nodes[b + 1].up)
    BY DEF Prepared, Drafted, Labelled
  <2> QED
    BY <2>1, AncestorsIs
<1>4. \A j \in Node(plan) : CellAt(1, b, i, FirstColumn(Layout, b) + j) \in t.mask <=> j \in Ancestors(nodes[b + 1].up)[i]
  <2> TAKE j \in Node(plan)
  <2>1. j = 0 /\ FirstColumn(Layout, b) + j \in Nat /\ FirstColumn(Layout, b) + j < FirstColumn(Layout, b) + 1
    BY <1>0, <1>1
  <2> QED
    BY <1>0, <1>2, <1>3, <2>1
<1>5. \A c \in 0..(FirstColumn(Layout, b) - 1) : CellAt(1, b, i, c) \in t.mask
  <2> TAKE c \in 0..(FirstColumn(Layout, b) - 1)
  <2>1. c \in Nat /\ c < FirstColumn(Layout, b) + 1
    BY <1>1
  <2> QED
    BY <1>2, <2>1
<1> QED
  BY <1>4, <1>5 DEF RowAt

\* Nothing about the input depends on what a later step changes.
LEMMA HandedStays ==
  ASSUME NEW t, NEW nodes, Handed(t, nodes), server' = server, lens' = lens, tree' = t
  PROVE  Handed(tree, nodes)'
<1>1. \A nd, b, i, x : CellAt(nd, b, i, x)' = CellAt(nd, b, i, x)
  <2>1. \A nd : FullStart(nd)' = FullStart(nd)
    BY DEF FullStart
  <2>2. Layout' = Layout
    BY DEF Layout
  <2> QED
    BY <2>1, <2>2 DEF CellAt, MaskRow
<1>2. \A b : FirstColumn(Layout, b)' = FirstColumn(Layout, b)
  BY DEF FirstColumn, Layout
<1>3. \A nd, n : Fits(nd, n)' = Fits(nd, n)
  BY DEF Fits, Config
<1>4. \A plan, node, paths : Drafted(plan, node, paths)' = Drafted(plan, node, paths)
  BY DEF Drafted
<1>5. \A u, node, b, i, f : NodeAt(u, node, b, i, f)' = NodeAt(u, node, b, i, f)
  BY DEF NodeAt, Bonus
<1>6. \A u, node, b, i : RowAt(u, node, b, i)' = RowAt(u, node, b, i)
  BY <1>1, <1>2 DEF RowAt
<1> QED
  BY <1>3, <1>4, <1>5, <1>6 DEF Handed

\* With one candidate a step the nodes are a chain.
LEMMA ChainUps ==
  ASSUME NEW plan, NEW n, NEW searches, NEW selected, NEW b,
         DraftOf(1, plan, n, searches, selected, b), plan.nd = plan.steps + 1,
         NEW i \in 1..(plan.nd - 1)
  PROVE  UpOf(1, plan, searches, selected, b)[i] = i - 1
<1> DEFINE N == plan.nd - 1
           up == UpOf(1, plan, searches, selected, b)
           s == selected[b]
           search == searches[b]
           levels == plan.steps
<1>0. IsSelection(1, levels, search, plan.nd, s) /\ IsSearch(1, levels, search) /\ plan.nd \in Nat \ {0}
  BY DEF DraftOf, Drafts, IsSelection
<1>1. HangsFrom(1, search, s, N, up)
  BY NodesAre
<1>2. \A j \in 1..N : s[j] = j - 1
  BY <1>0, ChainSelected
<1>3. N \in Nat /\ i \in 1..N
  BY <1>0
<1> HIDE DEF up, N, s, search
<1>4. CASE i = 1
  <2>1. s[i] < 1
    BY <1>2, <1>3, <1>4
  <2> QED
    BY <1>1, <1>3, <1>4, <2>1 DEF HangsFrom, up
<1>5. CASE i # 1
  <2> DEFINE x == s[i]
             y == ParentOf(1, search.beams, x)
  <2>1. x = i - 1 /\ x \in Nat /\ 1 <= x
    BY <1>2, <1>3, <1>5
  <2>2. x \in AllExpansions(1, levels)
    <3>1. s \in [1..N -> AllExpansions(1, levels)]
      BY <1>0, SelectedIs DEF N
    <3> QED
      BY <1>3, <3>1
  <2>3. Step(1, y) = Step(1, x) - 1 /\ y \in Nat
    BY <1>0, <2>1, <2>2, ParentIs
  <2>4. \A z \in Nat : Step(1, z) = z
    <3> TAKE z \in Nat
    <3>1. CASE z < 1
      BY <3>1 DEF Step
    <3>2. CASE ~(z < 1)
      <4>1. z - 1 \in Nat /\ Step(1, z) = (z - 1) \div (1 * 1) + 1
        BY <3>2 DEF Step
      <4>2. 1 * 1 = 1 /\ (z - 1) \div 1 = z - 1
        BY <4>1
      <4> QED
        BY <4>1, <4>2
    <3> QED
      BY <3>1, <3>2
  <2>5. y = x - 1
    BY <2>1, <2>3, <2>4
  <2>6. up[i] \in 1..N /\ s[up[i]] = y
    BY <1>1, <1>3, <2>1 DEF HangsFrom
  <2>7. up[i] - 1 = y
    BY <1>2, <2>6
  <2>8. up[i] = i - 1
    <3> HIDE DEF x, y
    <3>1. up[i] \in Nat
      BY <1>3, <2>6
    <3> QED
      BY <1>3, <2>1, <2>5, <2>7, <3>1
  <2> QED
    BY <2>8 DEF up
<1> QED
  BY <1>4, <1>5

\* The kernel's nodes hold what the search drafted.
LEMMA DraftedIs ==
  ASSUME NEW plan \in server.plans, Config, NEW n, NEW searches, NEW selected, NEW b,
         DraftOf(server.topk, plan, n, searches, selected, b), NEW node, NEW paths,
         node.up = UpOf(server.topk, plan, searches, selected, b),
         node.token = TokenOf(plan, searches, selected, b),
         paths = Paths(server.topk, searches[b], selected[b])
  PROVE  Drafted(plan, node, paths)
<1>1. /\ Labelled(plan.nd - 1, node.up, TokenId, node.token)
      /\ \A i, j \in 1..(plan.nd - 1) : i # j /\ node.up[i] = node.up[j] => node.token[i] # node.token[j]
  BY WordsAre
<1>2. \A i \in 1..(plan.nd - 1) : Depth(node.up)[i] <= plan.steps
  BY NodeDepth
<1>3. paths = {PathOf(node.up, node.token)[i] : i \in 1..(plan.nd - 1)}
  BY PathsAre
<1>4. server.topk = 1 => \A i \in 1..(plan.nd - 1) : node.up[i] = i - 1
  <2> HAVE server.topk = 1
  <2>1. plan.nd = plan.steps + 1
    BY ConfigIs
  <2> QED
    BY <2>1, ChainUps
<1> QED
  BY <1>1, <1>2, <1>3, <1>4 DEF Drafted

\* There is room for the batch.
LEMMA RoomIs ==
  ASSUME Config, NEW plan, NEW n, Room(plan, n)
  PROVE  /\ plan \in server.plans /\ Fits(plan.nd, n) /\ n \in 1..server.bs /\ n \in Nat
         /\ plan.nd \in Nat \ {0} /\ plan.steps \in Nat /\ server.topk \in Nat \ {0}
         /\ Request(n) = 0..(n - 1)
<1>1. plan \in server.plans /\ n \in 1..server.bs /\ \A b \in 0..(n - 1) : lens[b] + plan.nd <= server.room
  BY DEF Room, Request
<1>2. plan.nd \in Nat \ {0} /\ plan.steps \in Nat /\ server.topk \in Nat \ {0} /\ server.bs \in Nat
  BY <1>1, ConfigIs
<1>3. n \in Nat
  BY <1>1, <1>2
<1> QED
  BY <1>1, <1>2, <1>3 DEF Fits, Request

\* Drafting a tree hands it over.
LEMMA DraftTreeStep ==
  ASSUME Config, NEW plan, NEW n, DraftTree(plan, n)
  PROVE  \E nodes : Handed(tree', nodes)
<1> DEFINE k == server.topk
           choices == UNION {{[search |-> s, selected |-> sel] :
                                sel \in Selections(k, plan.steps, plan.nd, s.beams)} :
                             s \in Searches(k, plan.steps)}
           sel(d) == [b \in 1..n |-> d[b].selected]
           par(d) == Parents(k, plan.steps, [b \in 1..n |-> d[b].search])
           nod(d) == [b \in 1..n |->
                       [up |-> [i \in 1..(plan.nd - 1) |->
                                  NodeParent(k, plan.steps, par(d), sel(d), b - 1, i)],
                        token |-> [i \in 1..(plan.nd - 1) |-> d[b].search.tokens[sel(d)[b][i]]]]]
           pat(d) == [b \in 1..n |-> Paths(k, d[b].search, sel(d)[b])]
<1>0. /\ Room(plan, n) /\ plan.steps > 0
      /\ \E d \in Seqs(choices, n) : tree' = VerifyInput(plan, n, nod(d), pat(d), Nothing)
  BY DEF DraftTree
<1>1. PICK d \in Seqs(choices, n) : tree' = VerifyInput(plan, n, nod(d), pat(d), Nothing)
  BY <1>0
<1>2. /\ plan \in server.plans /\ Fits(plan.nd, n) /\ n \in 1..server.bs /\ n \in Nat
      /\ plan.nd \in Nat \ {0} /\ plan.steps \in Nat \ {0} /\ k \in Nat \ {0}
      /\ Request(n) = 0..(n - 1)
  <2>1. /\ plan \in server.plans /\ Fits(plan.nd, n) /\ n \in 1..server.bs /\ n \in Nat
        /\ plan.nd \in Nat \ {0} /\ plan.steps \in Nat /\ k \in Nat \ {0}
        /\ Request(n) = 0..(n - 1)
    BY <1>0, RoomIs
  <2> QED
    BY <1>0, <2>1
<1> DEFINE searches == [b \in 1..n |-> d[b].search]
           selected == sel(d)
           nodes == nod(d)
           paths == pat(d)
<1> HIDE DEF k
<1>3. \A b \in 1..n : IsSelection(k, plan.steps, searches[b], plan.nd, selected[b])
  <2> TAKE b \in 1..n
  <2>1. d[b] \in choices
    BY DEF Seqs
  <2>2. PICK s \in Searches(k, plan.steps) :
               d[b] \in {[search |-> s, selected |-> x] : x \in Selections(k, plan.steps, plan.nd, s.beams)}
    BY <2>1
  <2>3. d[b].search = s /\ d[b].selected \in Selections(k, plan.steps, plan.nd, s.beams)
    BY <2>2
  <2>4. searches[b] = d[b].search /\ selected[b] = d[b].selected
    OBVIOUS
  <2> HIDE DEF searches, selected
  <2> QED
    BY <1>2, <2>3, <2>4 DEF IsSelection, IsSearch
<1>4. Drafts(k, plan.steps, plan.nd, n, searches, selected)
  <2>1. DOMAIN searches = 1..n
    OBVIOUS
  <2>2. Len(searches) = n
    <3>1. searches \in [1..n -> {d[b].search : b \in 1..n}]
      OBVIOUS
    <3> DEFINE S == {d[b].search : b \in 1..n}
    <3> HIDE DEF searches, S
    <3> QED
      BY <1>2, <3>1, ListOf DEF S
  <2> HIDE DEF searches, selected
  <2> QED
    BY <1>2, <1>3, <2>1, <2>2 DEF Drafts
<1>5. ASSUME NEW b \in 1..n
      PROVE  Drafted(plan, nodes[b], paths[b])
  <2>1. nodes[b].up = UpOf(k, plan, searches, selected, b)
    BY DEF UpOf
  <2>2. nodes[b].token = TokenOf(plan, searches, selected, b)
    BY DEF TokenOf
  <2>3. paths[b] = Paths(k, searches[b], selected[b])
    OBVIOUS
  <2>4. DraftOf(k, plan, n, searches, selected, b)
    BY <1>4 DEF DraftOf
  <2> HIDE DEF nodes, paths, searches, selected
  <2> QED
    BY <1>2, <2>1, <2>2, <2>3, <2>4, DraftedIs DEF k
<1> HIDE DEF nodes, paths
<1>6. Prepared(plan, n, nodes, paths)
  <2>1. \A b \in Request(n) : b + 1 \in 1..n
    BY <1>2
  <2> QED
    BY <1>2, <1>5, <2>1 DEF Prepared
<1>7. tree' = VerifyInput(plan, n, nodes, paths, Nothing)
  BY <1>1 DEF nodes, paths
<1>8. SameNodes(tree', VerifyInput(plan, n, nodes, paths, Nothing))
  BY <1>7 DEF SameNodes
<1>9. server.mask # "unread" => \A b \in Request(n), i \in Node(plan) : RowAt(tree', nodes[b + 1], b, i)
  BY <1>6, <1>7, InputMask
<1>10. Handed(tree', nodes)
  BY <1>6, <1>8, <1>9, InputIs
<1> QED
  BY <1>10

\* The paths of a chain are the beginnings of its words.
LEMMA ChainPaths ==
  ASSUME NEW N \in Nat, NEW W, NEW xs \in [1..N -> W], NEW up, up = [i \in 1..N |-> i - 1]
  PROVE  /\ Labelled(N, up, W, xs) /\ IsTree(N, up)
         /\ \A i \in 1..N : PathOf(up, xs)[i] = SubSeq(xs, 1, i)
<1> DEFINE path == PathOf(up, xs)
           P == {i \in 0..N : path[i] = SubSeq(xs, 1, i)}
<1>1. IsTree(N, up)
  BY DEF IsTree
<1>2. Labelled(N, up, W, xs)
  BY <1>1 DEF Labelled
<1>3. path[0] = <<>> /\ \A n \in 1..N : path[n] = Append(path[up[n]], xs[n])
  BY ONLY <1>2, PathOfIs
<1>4. xs \in Seq(W) /\ Len(xs) = N
  BY ListOf
<1> HIDE DEF path
<1>5. 0 \in P
  <2>1. SubSeq(xs, 1, 0) = <<>>
    BY SubSeqEmpty
  <2>2. path[0] = SubSeq(xs, 1, 0) /\ 0 \in 0..N
    BY <1>3, <2>1
  <2> QED
    BY <2>2
<1>6. ASSUME NEW i \in 1..N, up[i] \in P PROVE i \in P
  <2> DEFINE j == i - 1
  <2>1. j \in Nat /\ j + 1 = i /\ j + 1 <= Len(xs) /\ up[i] = j /\ i \in 0..N
    BY <1>4
  <2> HIDE DEF j
  <2>2. path[j] = SubSeq(xs, 1, j)
    BY <1>6, <2>1
  <2>3. SubSeq(xs, 1, j + 1) = Append(SubSeq(xs, 1, j), xs[j + 1])
    BY <1>4, <2>1, OneMore
  <2>4. path[i] = Append(path[j], xs[i])
    BY <1>3, <2>1
  <2>5. path[i] = SubSeq(xs, 1, i)
    BY <2>1, <2>2, <2>3, <2>4
  <2> QED
    BY <2>1, <2>5
<1>7. P = 0..N
  <2>1. P \subseteq 0..N
    OBVIOUS
  <2> HIDE DEF P
  <2> QED
    BY <1>1, <1>5, <1>6, <2>1, TreeInduction DEF Hereditary
<1>8. \A i \in 1..N : path[i] = SubSeq(xs, 1, i)
  <2> TAKE i \in 1..N
  <2>1. i \in P
    <3> HIDE DEF P
    <3> QED
      BY <1>7
  <2> QED
    BY <2>1
<1> QED
  BY <1>1, <1>2, <1>8 DEF path

\* What a chain of a sampling server is made of: proposals, and a token drawn
\* from each.
Proposed(plan, param, qs, xs) ==
  /\ qs \in [1..plan.steps -> UNION {DraftProposals(row, param.k, param.tp, server.truncated) : row \in DraftRows}]
  /\ xs \in [1..plan.steps -> TokenId]
  /\ \A i \in 1..plan.steps :
       /\ \E row \in DraftRows : qs[i] \in DraftProposals(row, param.k, param.tp, server.truncated)
       /\ qs[i].drawn[xs[i]] > 0

ChainOf(t, nodes) ==
  /\ Handed(t, nodes) /\ t.n = 1
  /\ \E param \in Params : \E qs, xs :
       Proposed(t.plan, param, qs, xs) /\ t.rows = [param |-> param, qs |-> qs] /\ nodes[1].token = xs

\* Drawing a chain hands it over.
LEMMA DraftSampledStep ==
  ASSUME Config, NEW plan, NEW param \in Params, DraftSampled(plan, param)
  PROVE  \E nodes : ChainOf(tree', nodes)
<1>0. Room(plan, 1) /\ plan.steps > 0 /\ server.sampling
  BY DEF DraftSampled
<1>1. /\ plan \in server.plans /\ Fits(plan.nd, 1) /\ plan.nd \in Nat \ {0} /\ plan.steps \in Nat
      /\ server.topk = 1 /\ plan.nd = plan.steps + 1 /\ Request(1) = {0}
  <2>1. /\ plan \in server.plans /\ Fits(plan.nd, 1) /\ plan.nd \in Nat \ {0} /\ plan.steps \in Nat
        /\ Request(1) = 0..(1 - 1)
    BY <1>0, RoomIs
  <2>2. server.topk = 1 /\ plan.nd = plan.steps + 1
    BY <1>0, <2>1, ConfigIs
  <2>3. 0..(1 - 1) = {0}
    OBVIOUS
  <2> QED
    BY <2>1, <2>2, <2>3
<1> DEFINE up == [i \in 1..plan.steps |-> i - 1]
           nodesOf(xs) == <<[up |-> up, token |-> xs]>>
           pathsOf(xs) == <<{SubSeq(xs, 1, i) : i \in 1..plan.steps}>>
<1>2. PICK rows \in Seqs(DraftRows, plan.steps) :
      \E qs \in Seqs(UNION {DraftProposals(rows[i], param.k, param.tp, server.truncated) :
                              i \in 1..plan.steps}, plan.steps) :
      \E xs \in Seqs(TokenId, plan.steps) :
         /\ \A i \in 1..plan.steps :
              /\ qs[i] \in DraftProposals(rows[i], param.k, param.tp, server.truncated)
              /\ qs[i].drawn[xs[i]] > 0
         /\ tree' = VerifyInput(plan, 1, nodesOf(xs), pathsOf(xs), [param |-> param, qs |-> qs])
  BY DEF DraftSampled
<1>3. PICK qs \in Seqs(UNION {DraftProposals(rows[i], param.k, param.tp, server.truncated) :
                              i \in 1..plan.steps}, plan.steps) :
      \E xs \in Seqs(TokenId, plan.steps) :
         /\ \A i \in 1..plan.steps :
              /\ qs[i] \in DraftProposals(rows[i], param.k, param.tp, server.truncated)
              /\ qs[i].drawn[xs[i]] > 0
         /\ tree' = VerifyInput(plan, 1, nodesOf(xs), pathsOf(xs), [param |-> param, qs |-> qs])
  BY <1>2
<1>4. PICK xs \in Seqs(TokenId, plan.steps) :
         /\ \A i \in 1..plan.steps :
              /\ qs[i] \in DraftProposals(rows[i], param.k, param.tp, server.truncated)
              /\ qs[i].drawn[xs[i]] > 0
         /\ tree' = VerifyInput(plan, 1, nodesOf(xs), pathsOf(xs), [param |-> param, qs |-> qs])
  BY <1>3
<1>5. \A i \in 1..plan.steps : rows[i] \in DraftRows
  BY DEF Seqs
<1>6. DOMAIN qs = 1..plan.steps /\ xs \in [1..plan.steps -> TokenId] /\ qs = [i \in 1..plan.steps |-> qs[i]]
  BY DEF Seqs
<1>7. Proposed(plan, param, qs, xs)
  <2>1. \A i \in 1..plan.steps :
           /\ \E row \in DraftRows : qs[i] \in DraftProposals(row, param.k, param.tp, server.truncated)
           /\ qs[i].drawn[xs[i]] > 0
    BY <1>4, <1>5
  <2>2. \A i \in 1..plan.steps :
           qs[i] \in UNION {DraftProposals(row, param.k, param.tp, server.truncated) : row \in DraftRows}
    BY <2>1
  <2>3. qs \in [1..plan.steps -> UNION {DraftProposals(row, param.k, param.tp, server.truncated) : row \in DraftRows}]
    BY <1>6, <2>2
  <2> QED
    BY <1>6, <2>1, <2>3 DEF Proposed
<1> DEFINE nodes == nodesOf(xs)
           paths == pathsOf(xs)
           rr == [param |-> param, qs |-> qs]
<1>8. Drafted(plan, nodes[1], paths[1])
  <2>1. nodes[1].up = up /\ nodes[1].token = xs /\ paths[1] = {SubSeq(xs, 1, i) : i \in 1..plan.steps}
    OBVIOUS
  <2>2. plan.nd - 1 = plan.steps
    BY <1>1
  <2>3. /\ Labelled(plan.steps, up, TokenId, xs) /\ IsTree(plan.steps, up)
        /\ \A i \in 1..plan.steps : PathOf(up, xs)[i] = SubSeq(xs, 1, i)
    <3> DEFINE M == plan.steps
               W == TokenId
               v == [i \in 1..M |-> i - 1]
    <3>1. M \in Nat /\ xs \in [1..M -> W]
      BY <1>1, <1>6
    <3> HIDE DEF M, W
    <3>2. /\ Labelled(M, v, W, xs) /\ IsTree(M, v)
          /\ \A i \in 1..M : PathOf(v, xs)[i] = SubSeq(xs, 1, i)
      <4> HIDE DEF v
      <4>1. v = [i \in 1..M |-> i - 1]
        BY DEF v
      <4> QED
        BY ONLY <3>1, <4>1, ChainPaths
    <3> QED
      BY <3>2 DEF M, W
  <2>4. \A i \in 1..plan.steps : up[i] = i - 1
    OBVIOUS
  <2> HIDE DEF up, nodes, paths
  <2>5. \A i \in 1..plan.steps : Depth(up)[i] <= plan.steps
    <3> TAKE i \in 1..plan.steps
    <3>1. i \in 0..plan.steps
      BY <1>1
    <3>2. Depth(up)[i] = i
      BY <2>3, <2>4, <3>1, ChainIs
    <3> QED
      BY <1>1, <3>2
  <2>6. paths[1] = {PathOf(up, xs)[i] : i \in 1..plan.steps}
    BY <2>1, <2>3
  <2>7. \A i, j \in 1..plan.steps : up[i] = up[j] => i = j
    BY <1>1, <2>4
  <2> QED
    BY <2>1, <2>2, <2>3, <2>4, <2>5, <2>6, <2>7 DEF Drafted
<1>9. nodes[1].token = xs
  OBVIOUS
<1>10. tree' = VerifyInput(plan, 1, nodes, paths, rr)
  BY <1>4
<1> HIDE DEF nodes, paths, rr
<1>11. Prepared(plan, 1, nodes, paths)
  BY <1>1, <1>8 DEF Prepared
<1>12. Handed(tree', nodes)
  <2>1. SameNodes(tree', VerifyInput(plan, 1, nodes, paths, rr))
    BY <1>10 DEF SameNodes
  <2>2. server.mask # "unread" => \A b \in Request(1), i \in Node(plan) : RowAt(tree', nodes[b + 1], b, i)
    BY <1>10, <1>11, InputMask
  <2> QED
    BY <1>11, <2>1, <2>2, InputIs
<1>13. tree'.n = 1 /\ tree'.plan = plan /\ tree'.rows = rr
  BY <1>10 DEF VerifyInput
<1> QED
  BY <1>7, <1>9, <1>12, <1>13 DEF ChainOf, rr

\* A tree of the root alone.
LEMMA TrivialTreeStep ==
  ASSUME Config, NEW plan, NEW n, TrivialTree(plan, n)
  PROVE  ~server.sampling /\ \E nodes : Handed(tree', nodes)
<1> DEFINE nodes == [b \in 1..n |-> [up |-> <<>>, token |-> <<>>]]
           paths == [b \in 1..n |-> {}]
<1>0. /\ Room(plan, n) /\ plan.steps = 0
      /\ tree' = [VerifyInput(plan, n, nodes, paths, Nothing) EXCEPT !.mask = AllCells(1)]
  BY DEF TrivialTree
<1>1. /\ plan \in server.plans /\ Fits(plan.nd, n) /\ n \in Nat /\ plan.nd = 1 /\ Request(n) = 0..(n - 1)
      /\ ~server.sampling
  <2>1. /\ plan \in server.plans /\ Fits(plan.nd, n) /\ n \in Nat /\ Request(n) = 0..(n - 1)
    BY <1>0, RoomIs
  <2> QED
    BY <1>0, <2>1, ConfigIs
<1>2. tree'.plan = plan /\ tree'.mask = AllCells(1) /\ SameNodes(tree', VerifyInput(plan, n, nodes, paths, Nothing))
  BY <1>0 DEF SameNodes, VerifyInput
<1>3. ASSUME NEW b \in 1..n PROVE Drafted(plan, nodes[b], paths[b])
  <2>1. nodes[b].up = <<>> /\ nodes[b].token = <<>> /\ paths[b] = {}
    OBVIOUS
  <2>2. plan.nd - 1 = 0 /\ 1..0 = {}
    BY <1>1
  <2>3. \A S : <<>> \in [1..0 -> S]
    OBVIOUS
  <2>4. Labelled(0, <<>>, TokenId, <<>>)
    BY <2>2, <2>3 DEF Labelled, IsTree
  <2> HIDE DEF nodes, paths
  <2> QED
    BY <2>1, <2>2, <2>4 DEF Drafted
<1> HIDE DEF nodes, paths
<1>4. Prepared(plan, n, nodes, paths)
  <2>1. \A b \in Request(n) : b + 1 \in 1..n
    BY <1>1
  <2> QED
    BY <1>1, <1>3, <2>1 DEF Prepared
<1>5. \A b \in Request(n), i \in Node(plan) : RowAt(tree', nodes[b + 1], b, i)
  BY <1>1, <1>2, <1>4, TrivialMask
<1>6. Handed(tree', nodes)
  BY <1>2, <1>4, <1>5, InputIs
<1> QED
  BY <1>1, <1>6

\* Lengths stay numbers.
LEMMA LensAre ==
  ASSUME NEW nodes, NEW paths, Accepting(nodes, paths), NEW predicted, NEW asked
  PROVE  Result(paths, predicted, asked).lens \in [Request(server.bs) -> Nat]
<1> DEFINE n == tree.n
           acc == [b \in Request(n) |-> Len(paths[b + 1])]
           new == [b \in Request(server.bs) |-> IF b < n THEN lens[b] + acc[b] ELSE lens[b]]
<1>0. Handed(tree, nodes) /\ Config /\ n \in 1..server.bs /\ server.bs \in Nat
  <2>1. Handed(tree, nodes)
    BY DEF Accepting
  <2>2. Config /\ n \in 1..server.bs
    BY <2>1 DEF Handed, Fits
  <2> QED
    BY <2>1, <2>2, ConfigIs
<1>1. Result(paths, predicted, asked).lens = new
  BY DEF Result
<1>2. \A b \in Request(n) : acc[b] \in Nat
  <2> TAKE b \in Request(n)
  <2>1. Len(paths[b + 1]) \in 1..(tree.plan.steps + 1)
    BY DEF Accepting, RootPath
  <2>2. tree.plan.steps \in Nat
    BY <1>0, ConfigIs DEF Handed
  <2> QED
    BY <2>1, <2>2
<1> HIDE DEF acc
<1>3. \A b \in Request(server.bs) : new[b] \in Nat
  <2> TAKE b \in Request(server.bs)
  <2>1. lens[b] \in Nat
    BY <1>0 DEF Config, Request
  <2>2. b < n => b \in Request(n)
    BY <1>0 DEF Request
  <2> QED
    BY <1>2, <2>1, <2>2
<1> QED
  BY <1>1, <1>3

\* Greedy verification.
LEMMA VerifyTreeStep ==
  ASSUME NEW nodes, Handed(tree, nodes), VerifyTree
  PROVE  /\ \A b \in Request(tree.n) : GreedyOf(result', b) /\ FrontOf(result', b)
         /\ result'.lens \in [Request(server.bs) -> Nat]
<1>1. PICK answer \in [Contexts -> Words] :
        result' = Result([b \in 1..tree.n |-> Walk(b - 1, Asked(answer))], Asked(answer), answer)
  BY DEF VerifyTree, Contexts, Asked
<1> DEFINE paths == [b \in 1..tree.n |-> Walk(b - 1, Asked(answer))]
<1>2. \A b \in Request(tree.n) : GreedyOf(result', b) /\ FrontOf(result', b)
  BY <1>1, GreedyIs
<1>3. Accepting(nodes, paths)
  <2>1. \A b \in Request(tree.n) : RootPath(tree.plan, nodes[b + 1], paths[b + 1])
    <3> TAKE b \in Request(tree.n)
    <3>1. tree.n \in Nat
      <4>1. tree.n \in 1..server.bs /\ Config
        BY DEF Handed, Fits
      <4> QED
        BY <4>1, ConfigIs
    <3>2. b + 1 \in 1..tree.n /\ (b + 1) - 1 = b
      BY <3>1 DEF Request
    <3>3. paths[b + 1] = Walk(b, Asked(answer))
      BY <3>2
    <3> HIDE DEF paths
    <3> QED
      BY <3>3, WalkIs
  <2> HIDE DEF paths
  <2> QED
    BY <2>1 DEF Accepting
<1>4. result'.lens \in [Request(server.bs) -> Nat]
  <2> HIDE DEF paths
  <2> QED
    BY <1>1, <1>3, LensAre DEF paths
<1> QED
  BY <1>2, <1>4

\* Sampling verification: for some rows and coins, what sampling emits on
\* candidates of the rows.
SparseRows(rows, other) ==
  [i \in 1..tree.plan.nd |->
     SparseTargets(rows[i], {tree.rows.param.k, other.k}, tree.rows.param.k, tree.rows.param.tp)]
EmittedBy(rows, hashes, ps, nodes, e) ==
  e = ChainSample(ps, [i \in 1..(tree.plan.nd - 1) |-> tree.rows.qs[i].q],
                  [i \in 1..(tree.plan.nd - 1) |-> nodes[1].token[i]],
                  [i \in 1..tree.plan.nd |-> Coin(hashes[i])])
SampledBy(nodes, r) ==
  \E rows \in Seqs(TargetRows, tree.plan.nd), hashes \in Seqs(Hashes, tree.plan.nd), other \in Params :
  \E ps \in Seqs(UNION Range(SparseRows(rows, other)), tree.plan.nd) :
    /\ \A i \in 1..tree.plan.nd : ps[i] \in SparseRows(rows, other)[i]
    /\ EmittedBy(rows, hashes, ps, nodes, EmissionOf(r, 0))
    /\ r.asked = [rows |-> rows, hashes |-> hashes]

LEMMA VerifySampledStep ==
  ASSUME NEW nodes, ChainOf(tree, nodes), VerifySampled
  PROVE  /\ \A b \in Request(tree.n) : FrontOf(result', b)
         /\ SampledBy(nodes, result')
         /\ result'.lens \in [Request(server.bs) -> Nat]
<1> DEFINE d == tree.plan.nd
           k == tree.rows.param.k
           tp == tree.rows.param.tp
           xs == [i \in 1..(d - 1) |-> tree.tokens[i][1]]
           qs == [i \in 1..(d - 1) |-> tree.rows.qs[i].q]
           sparse(rows, other) == [i \in 1..d |-> SparseTargets(rows[i], {k, other.k}, k, tp)]
           coins(hashes) == [i \in 1..d |-> Coin(hashes[i])]
           resultOf(em, rows, hashes) ==
             Result(<<[i \in 1..Len(em) |-> i - 1]>>,
                    [f \in 0..(d - 1) |-> IF f < Len(em) THEN em[f + 1] ELSE 0],
                    [rows |-> rows, hashes |-> hashes])
<1>1. PICK rows \in Seqs(TargetRows, d), hashes \in Seqs(Hashes, d), other \in Params :
        \E ps \in Seqs(UNION Range(sparse(rows, other)), d) :
          /\ \A i \in 1..d : ps[i] \in sparse(rows, other)[i]
          /\ result' = resultOf(ChainSample(ps, qs, xs, coins(hashes)), rows, hashes)
  BY DEF VerifySampled
<1>2. PICK ps \in Seqs(UNION Range(sparse(rows, other)), d) :
          /\ \A i \in 1..d : ps[i] \in sparse(rows, other)[i]
          /\ result' = resultOf(ChainSample(ps, qs, xs, coins(hashes)), rows, hashes)
  BY <1>1
<1> DEFINE token == nodes[1].token
           e == ChainSample(ps, qs, xs, coins(hashes))
<1>3. /\ Handed(tree, nodes) /\ tree.n = 1 /\ d \in Nat \ {0} /\ server.topk = 1
      /\ token \in [1..(d - 1) -> TokenId]
      /\ \A i \in 1..(d - 1) : tree.tokens[i] = <<token[i]>>
  <2>1. Handed(tree, nodes) /\ tree.n = 1 /\ 0 \in Request(1) /\ nodes[0 + 1] = nodes[1]
    BY DEF ChainOf, Request
  <2>2. Fits(d, 1) /\ d \in Nat \ {0} /\ Config /\ server.sampling
    BY <2>1 DEF Handed, Fits, VerifySampled
  <2>3. server.topk = 1
    BY <2>2, ConfigIs
  <2>4. Drafted(tree.plan, nodes[1], tree.paths[1])
    BY <2>1 DEF Handed
  <2>5. token \in [1..(d - 1) -> TokenId]
    BY <2>4 DEF Drafted, Labelled
  <2>6. \A i \in 1..(d - 1) : tree.tokens[i] = <<token[i]>>
    <3> TAKE i \in 1..(d - 1)
    <3>1. i \in Node(tree.plan) /\ i # 0
      BY <2>2 DEF Node
    <3>2. NodeAt(tree, nodes[0 + 1], 0, i, 0 * d + i)
      BY <2>1, <3>1 DEF Handed
    <3>3. 0 * d + i = i
      BY <2>2
    <3> QED
      BY <2>1, <3>1, <3>2, <3>3 DEF NodeAt
  <2> QED
    BY <2>1, <2>2, <2>3, <2>5, <2>6
<1>4. xs = [i \in 1..(d - 1) |-> token[i]] /\ xs \in [1..(d - 1) -> TokenId] /\ \A i \in 1..(d - 1) : xs[i] = token[i]
  <2> HIDE DEF token, d
  <2>1. \A i \in 1..(d - 1) : tree.tokens[i][1] = token[i]
    BY <1>3
  <2> QED
    BY <1>3, <2>1
<1>5. Len(ps) = d
  <2>1. ps \in [1..d -> UNION Range(sparse(rows, other))]
    BY DEF Seqs
  <2> DEFINE S == UNION Range(sparse(rows, other))
  <2> HIDE DEF S, d
  <2> QED
    BY <1>3, <2>1, ListOf DEF S
<1>6. e \in Seq(TokenId) /\ Len(e) \in 1..d /\ \A j \in 1..(Len(e) - 1) : e[j] = xs[j]
  <2> DEFINE cc == coins(hashes)
  <2>1. e = ChainSample(ps, qs, xs, cc)
    OBVIOUS
  <2> HIDE DEF xs, qs, cc, e, d
  <2>2. d \in Nat \ {0} /\ Len(ps) = d /\ xs \in [1..(d - 1) -> TokenId]
    BY <1>3, <1>4, <1>5
  <2> QED
    BY ONLY <2>1, <2>2, ChainEmits
<1>7. OneChain(nodes, e)
  <2>1. \A j \in 1..(Len(e) - 1) : e[j] = token[j]
    <3> TAKE j \in 1..(Len(e) - 1)
    <3> HIDE DEF e, xs, d
    <3>1. j \in 1..(d - 1)
      BY <1>3, <1>6
    <3> QED
      BY <1>4, <1>6, <3>1
  <2> HIDE DEF e
  <2> QED
    BY <1>3, <1>6, <2>1 DEF OneChain
<1>8. result' = resultOf(e, rows, hashes)
  BY <1>2
<1> DEFINE asked == [rows |-> rows, hashes |-> hashes]
           w == [i \in 1..Len(e) |-> i - 1]
<1>9. EmissionOf(result', 0) = e /\ FrontOf(result', 0) /\ result'.asked = asked
  <2> HIDE DEF e, asked
  <2>1. result' = Result(<<[i \in 1..Len(e) |-> i - 1]>>,
                    [f \in 0..(tree.plan.nd - 1) |-> IF f < Len(e) THEN e[f + 1] ELSE 0], asked)
    BY <1>8 DEF asked
  <2> QED
    BY <1>7, <2>1, SampledIs
<1>10. \A b \in Request(tree.n) : FrontOf(result', b)
  <2>1. \A b \in Request(1) : b = 0
    BY DEF Request
  <2> QED
    BY <1>3, <1>9, <2>1
<1>11. SampledBy(nodes, result')
  <2>1. sparse(rows, other) = SparseRows(rows, other)
    BY DEF SparseRows
  <2>2. EmittedBy(rows, hashes, ps, nodes, e)
    BY <1>4 DEF EmittedBy
  <2> HIDE DEF e, sparse, d
  <2>3. /\ \A i \in 1..tree.plan.nd : ps[i] \in SparseRows(rows, other)[i]
        /\ ps \in Seqs(UNION Range(SparseRows(rows, other)), tree.plan.nd)
        /\ EmittedBy(rows, hashes, ps, nodes, EmissionOf(result', 0))
        /\ result'.asked = [rows |-> rows, hashes |-> hashes]
        /\ rows \in Seqs(TargetRows, tree.plan.nd) /\ hashes \in Seqs(Hashes, tree.plan.nd) /\ other \in Params
    BY <1>2, <1>9, <2>1, <2>2 DEF d
  <2> QED
    BY <2>3 DEF SampledBy
<1>12. result'.lens \in [Request(server.bs) -> Nat]
  <2>1. Accepting(nodes, <<w>>)
    BY <1>7, ChainAccepted
  <2> HIDE DEF e, w
  <2> QED
    BY <1>8, <2>1, LensAre DEF w
<1> QED
  BY <1>10, <1>11, <1>12

LEMMA ChainStays ==
  ASSUME NEW t, NEW nodes, ChainOf(t, nodes), server' = server, lens' = lens, tree' = t
  PROVE  ChainOf(tree, nodes)'
<1>1. Handed(tree, nodes)'
  BY HandedStays DEF ChainOf
<1>2. \A plan, param, qs, xs : Proposed(plan, param, qs, xs)' = Proposed(plan, param, qs, xs)
  BY DEF Proposed
<1> QED
  BY <1>1, <1>2 DEF ChainOf

LEMMA SampledStays ==
  ASSUME NEW nodes, SampledBy(nodes, result'), tree' = tree
  PROVE  SampledBy(nodes, result)'
<1>1. \A rows, other : SparseRows(rows, other)' = SparseRows(rows, other)
  BY DEF SparseRows
<1>2. \A rows, hashes, ps, e : EmittedBy(rows, hashes, ps, nodes, e)' = EmittedBy(rows, hashes, ps, nodes, e)
  BY DEF EmittedBy
<1>3. EmissionOf(result, 0)' = EmissionOf(result', 0)
  BY DEF EmissionOf
<1> QED
  BY <1>1, <1>2, <1>3 DEF SampledBy

\* The inductive invariant: a batch in flight holds what was drafted for its
\* requests, and a sampled result came of some rows, coins and candidates.
TreeInv ==
  /\ Config
  /\ phase \in {"draft", "verify", "extend"}
  /\ phase = "verify" /\ ~server.sampling => \E nodes : Handed(tree, nodes)
  /\ phase = "verify" /\ server.sampling => \E nodes : ChainOf(tree, nodes)
  /\ phase = "extend" => result.lens \in [Request(server.bs) -> Nat]
  /\ phase = "extend" /\ server.sampling => \E nodes : ChainOf(tree, nodes) /\ SampledBy(nodes, result)
  /\ GreedyExact
  /\ FrontExact

\* A server starts with no batch in flight.
LEMMA TreeInvStarts == TreeInit => TreeInv
<1> SUFFICES ASSUME TreeInit PROVE TreeInv
  OBVIOUS
<1>1. server \in Servers /\ lens \in [Request(server.bs) -> server.starts] /\ phase = "draft"
  BY DEF TreeInit
<1>2. server.starts \subseteq Nat
  <2>1. server \in ServerType
    BY <1>1, TreeAssumption DEF TreeAssumption
  <2> QED
    BY <2>1 DEF ServerType
<1>3. Config
  BY <1>1, <1>2 DEF Config, Request
<1> QED
  BY <1>1, <1>3 DEF TreeInv, GreedyExact, FrontExact

\* Another step drafts a batch.
LEMMA DraftedInv ==
  ASSUME TreeInv, phase' = "verify", server' = server, lens' = lens,
         server.sampling => \E nodes : ChainOf(tree', nodes),
         ~server.sampling => \E nodes : Handed(tree', nodes)
  PROVE  TreeInv'
<1>1. Config'
  BY DEF TreeInv, Config
<1>2. CASE server.sampling
  <2>1. PICK nodes : ChainOf(tree', nodes)
    BY <1>2
  <2>2. ChainOf(tree, nodes)'
    BY <2>1, ChainStays
  <2> QED
    BY <1>1, <1>2, <2>2 DEF TreeInv, GreedyExact, FrontExact
<1>3. CASE ~server.sampling
  <2>1. PICK nodes : Handed(tree', nodes)
    BY <1>3
  <2>2. Handed(tree, nodes)'
    BY <2>1, HandedStays
  <2> QED
    BY <1>1, <1>3, <2>2 DEF TreeInv, GreedyExact, FrontExact
<1> QED
  BY <1>2, <1>3

\* What is said of a result is said of it in the next state.
LEMMA FrontStays ==
  ASSUME \A b \in Request(tree.n) : FrontOf(result', b), tree' = tree, lens' = lens
  PROVE  FrontExact'
<1>1. \A b, path : Context(b, path)' = Context(b, path)
  BY DEF Context
<1>2. \A b : Emission(b)' = EmissionOf(result', b)
  BY DEF Emission, EmissionOf
<1>3. \A b : TreeSelectIndex(b)' = b * tree.plan.nd + result'.acc[b] - 1
  BY DEF TreeSelectIndex
<1>4. \A b : Request(tree.n)' = Request(tree.n)
  BY DEF Request
<1> QED
  BY <1>1, <1>2, <1>3, <1>4 DEF FrontOf, FrontExact

LEMMA GreedyStays ==
  ASSUME \A b \in Request(tree.n) : GreedyOf(result', b), tree' = tree, lens' = lens
  PROVE  GreedyExact'
<1>1. \A b, path : Context(b, path)' = Context(b, path)
  BY DEF Context
<1>2. \A b : Emission(b)' = EmissionOf(result', b)
  BY DEF Emission, EmissionOf
<1>3. Request(tree.n)' = Request(tree.n)
  BY DEF Request
<1> QED
  BY <1>1, <1>2, <1>3 DEF GreedyOf, GreedyExact

\* Every step keeps the invariant.
LEMMA TreeInvStep == TreeInv /\ [TreeNext]_treeVars => TreeInv'
<1> SUFFICES ASSUME TreeInv, [TreeNext]_treeVars PROVE TreeInv'
  OBVIOUS
<1>0. Config
  BY DEF TreeInv
<1>1. ASSUME NEW plan \in server.plans, NEW n \in 1..server.bs, DraftTree(plan, n) PROVE TreeInv'
  <2>1. phase' = "verify" /\ server' = server /\ lens' = lens /\ ~server.sampling
    BY <1>1 DEF DraftTree
  <2>2. \E nodes : Handed(tree', nodes)
    BY <1>0, <1>1, DraftTreeStep
  <2> QED
    BY <2>1, <2>2, DraftedInv
<1>2. ASSUME NEW plan \in server.plans, NEW n \in 1..server.bs, TrivialTree(plan, n) PROVE TreeInv'
  <2>1. phase' = "verify" /\ server' = server /\ lens' = lens
    BY <1>2 DEF TrivialTree
  <2>2. ~server.sampling /\ \E nodes : Handed(tree', nodes)
    BY <1>0, <1>2, TrivialTreeStep
  <2> QED
    BY <2>1, <2>2, DraftedInv
<1>3. ASSUME NEW plan \in server.plans, NEW param \in Params, DraftSampled(plan, param) PROVE TreeInv'
  <2>1. phase' = "verify" /\ server' = server /\ lens' = lens /\ server.sampling
    BY <1>3 DEF DraftSampled
  <2>2. \E nodes : ChainOf(tree', nodes)
    BY <1>0, <1>3, DraftSampledStep
  <2> QED
    BY <2>1, <2>2, DraftedInv
<1>4. CASE VerifyTree
  <2>1. /\ phase = "verify" /\ phase' = "extend" /\ ~server.sampling
        /\ server' = server /\ lens' = lens /\ tree' = tree
    BY <1>4 DEF VerifyTree
  <2>2. PICK nodes : Handed(tree, nodes)
    BY <2>1 DEF TreeInv
  <2>3. /\ \A b \in Request(tree.n) : GreedyOf(result', b) /\ FrontOf(result', b)
        /\ result'.lens \in [Request(server.bs) -> Nat]
    BY <1>4, <2>2, VerifyTreeStep
  <2>4. GreedyExact' /\ FrontExact'
    BY <2>1, <2>3, GreedyStays, FrontStays
  <2> QED
    BY <1>0, <2>1, <2>3, <2>4 DEF TreeInv, Config, Request
<1>5. CASE VerifySampled
  <2>1. /\ phase = "verify" /\ phase' = "extend" /\ server.sampling
        /\ server' = server /\ lens' = lens /\ tree' = tree
    BY <1>5 DEF VerifySampled
  <2>2. PICK nodes : ChainOf(tree, nodes)
    BY <2>1 DEF TreeInv
  <2>3. /\ \A b \in Request(tree.n) : FrontOf(result', b)
        /\ SampledBy(nodes, result')
        /\ result'.lens \in [Request(server.bs) -> Nat]
    BY <1>5, <2>2, VerifySampledStep
  <2>4. FrontExact'
    BY <2>1, <2>3, FrontStays
  <2>5. GreedyExact'
    BY <2>1 DEF GreedyExact
  <2>6. ChainOf(tree, nodes)' /\ SampledBy(nodes, result)'
    BY <2>1, <2>2, <2>3, ChainStays, SampledStays
  <2>7. Config' /\ (result.lens \in [Request(server.bs) -> Nat])'
    BY <1>0, <2>1, <2>3 DEF Config, Request
  <2> QED
    BY <2>1, <2>4, <2>5, <2>6, <2>7 DEF TreeInv
<1>6. CASE ExtendTree
  <2>1. phase = "extend" /\ phase' = "draft" /\ server' = server /\ lens' = result.lens
    BY <1>6 DEF ExtendTree
  <2>2. Config'
    BY <1>0, <2>1 DEF TreeInv, Config, Request
  <2> QED
    BY <2>1, <2>2 DEF TreeInv, GreedyExact, FrontExact
<1>7. CASE UNCHANGED treeVars
  <2>1. /\ server' = server /\ lens' = lens /\ phase' = phase /\ tree' = tree /\ result' = result
    BY <1>7 DEF treeVars
  <2>2. Config'
    BY <1>0, <2>1 DEF Config
  <2>3. GreedyExact'
    <3>1. CASE phase = "extend" /\ ~server.sampling
      <4>1. \A b \in Request(tree.n) : GreedyOf(result, b)
        BY <3>1 DEF TreeInv, GreedyExact, GreedyOf, Emission, EmissionOf
      <4>2. \A b \in Request(tree.n) : GreedyOf(result', b)
        BY <2>1, <4>1
      <4> QED
        BY <2>1, <4>2, GreedyStays
    <3>2. CASE ~(phase = "extend" /\ ~server.sampling)
      BY <2>1, <3>2 DEF GreedyExact
    <3> QED
      BY <3>1, <3>2
  <2>4. FrontExact'
    <3>1. CASE phase = "extend"
      <4>1. \A b \in Request(tree.n) : FrontOf(result, b)
        BY <3>1 DEF TreeInv, FrontExact, FrontOf, Emission, EmissionOf, TreeSelectIndex
      <4>2. \A b \in Request(tree.n) : FrontOf(result', b)
        BY <2>1, <4>1
      <4> QED
        BY <2>1, <4>2, FrontStays
    <3>2. CASE phase # "extend"
      BY <2>1, <3>2 DEF FrontExact
    <3> QED
      BY <3>1, <3>2
  <2>5. (phase = "verify" /\ ~server.sampling => \E nodes : Handed(tree, nodes))'
    BY <2>1, HandedStays DEF TreeInv
  <2>6. (phase = "verify" /\ server.sampling => \E nodes : ChainOf(tree, nodes))'
    BY <2>1, ChainStays DEF TreeInv
  <2>7. (phase = "extend" /\ server.sampling => \E nodes : ChainOf(tree, nodes) /\ SampledBy(nodes, result))'
    <3> SUFFICES ASSUME phase = "extend" /\ server.sampling
                 PROVE  \E nodes : ChainOf(tree, nodes)' /\ SampledBy(nodes, result)'
      BY <2>1
    <3>1. PICK nodes : ChainOf(tree, nodes) /\ SampledBy(nodes, result)
      BY DEF TreeInv
    <3>2. ChainOf(tree, nodes)'
      BY <2>1, <3>1, ChainStays
    <3>3. SampledBy(nodes, result')
      BY <2>1, <3>1
    <3>4. SampledBy(nodes, result)'
      BY <2>1, <3>3, SampledStays
    <3> QED
      BY <3>2, <3>4
  <2>8. (phase = "extend" => result.lens \in [Request(server.bs) -> Nat])'
    BY <2>1 DEF TreeInv, Request
  <2> QED
    BY <2>1, <2>2, <2>3, <2>4, <2>5, <2>6, <2>7, <2>8 DEF TreeInv
<1> QED
  BY <1>1, <1>2, <1>3, <1>4, <1>5, <1>6, <1>7 DEF TreeNext

\* Whatever tree shapes, batches, cells and mask layouts are configured, what
\* a verify reads and what a round leaves behind are as TreeInv says.
THEOREM TreesHold == TreeSpec => []TreeInv
<1> QED
  BY TreeInvStarts, TreeInvStep, PTL DEF TreeSpec

\* A greedy verify of a tree emits what the target alone would: the answers
\* along the path it accepts, and accepts as far as the drafts agree.
THEOREM GreedyIsExact == TreeSpec => []GreedyExact
<1>1. TreeInv => GreedyExact
  BY DEF TreeInv
<1> QED
  BY <1>1, TreesHold, PTL

\* What the draft extend reads of a verified block, the front of it, are the
\* cells, tokens and hidden states of the accepted path in order.
THEOREM FrontIsExact == TreeSpec => []FrontExact
<1>1. TreeInv => FrontExact
  BY DEF TreeInv
<1> QED
  BY <1>1, TreesHold, PTL

-----------------------------------------------------------------------------
(* The candidates of a row                                                   *)

AtLeast(S, row, v) == {t \in S : row[t] >= v}
More(S, row, v) == {t \in S : row[t] > v}
Weighed(S, row) == IsFiniteSet(S) /\ \A t \in S : row[t] \in Nat
Cut(S, row, k, v) ==
  /\ v \in {row[t] : t \in S}
  /\ Cardinality(More(S, row, v)) < k
  /\ k <= Cardinality(AtLeast(S, row, v))

\* Part of a finite set.
LEMMA PartOf ==
  ASSUME NEW S, IsFiniteSet(S), NEW T, T \subseteq S
  PROVE  /\ IsFiniteSet(T) /\ Cardinality(T) \in Nat /\ Cardinality(S) \in Nat
         /\ Cardinality(T) <= Cardinality(S) /\ (Cardinality(T) = Cardinality(S) => T = S)
<1>1. T \in SUBSET S
  OBVIOUS
<1>2. IsFiniteSet(T) /\ Cardinality(T) <= Cardinality(S) /\ (Cardinality(S) = Cardinality(T) => S = T)
  BY <1>1, FS_Subset
<1>3. Cardinality(T) \in Nat /\ Cardinality(S) \in Nat
  BY <1>2, FS_CardinalityType
<1> QED
  BY <1>2, <1>3

\* Of the tokens of a set, one with the least weight.
LEMMA Lightest ==
  ASSUME NEW S, S # {}, NEW row, \A t \in S : row[t] \in Nat
  PROVE  \E t \in S : \A s \in S : row[t] <= row[s]
<1> DEFINE R == {row[t] : t \in S}
<1>1. R \in SUBSET Nat /\ R # {}
  OBVIOUS
<1>2. PICK m \in R : \A y \in R : m <= y
  <2> HIDE DEF R
  <2> QED
    BY <1>1, Smallest
<1> QED
  BY <1>2

\* There is a k-th largest weight.
LEMMA CutExists ==
  ASSUME NEW S, NEW row, Weighed(S, row), NEW k \in Nat \ {0}, k <= Cardinality(S)
  PROVE  \E v \in {row[t] : t \in S} : Cut(S, row, k, v)
<1> DEFINE count(t) == Cardinality(AtLeast(S, row, row[t]))
           Enough == {t \in S : k <= count(t)}
           Counts == {count(t) : t \in Enough}
<1>0. IsFiniteSet(S) /\ \A t \in S : row[t] \in Nat
  BY DEF Weighed
<1>1. S # {}
  BY <1>0, FS_EmptySet
<1>2. \A t \in S : /\ AtLeast(S, row, row[t]) \subseteq S
                   /\ count(t) \in Nat
  <2> TAKE t \in S
  <2>1. AtLeast(S, row, row[t]) \subseteq S
    BY DEF AtLeast
  <2> QED
    BY <1>0, <2>1, PartOf
<1>3. Enough # {}
  <2>1. PICK t \in S : \A s \in S : row[t] <= row[s]
    BY <1>0, <1>1, Lightest
  <2>2. AtLeast(S, row, row[t]) = S
    BY <1>0, <2>1 DEF AtLeast
  <2> QED
    BY <2>2
<1>4. Counts \in SUBSET Nat /\ Counts # {}
  BY <1>2, <1>3
<1>5. PICK c \in Counts : \A y \in Counts : c <= y
  <2> HIDE DEF Counts
  <2> QED
    BY <1>4, Smallest
<1>6. PICK t \in Enough : c = count(t)
  BY <1>5
<1> DEFINE v == row[t]
           M == More(S, row, v)
           A == AtLeast(S, row, v)
<1>7. t \in S /\ v \in Nat /\ t \in A /\ t \notin M /\ M \subseteq A /\ A \subseteq S /\ k <= Cardinality(A)
  BY <1>0, <1>6 DEF AtLeast, More
<1>8. IsFiniteSet(A) /\ Cardinality(A) \in Nat /\ Cardinality(M) \in Nat
      /\ Cardinality(M) < Cardinality(A) /\ IsFiniteSet(M)
  <2>1. IsFiniteSet(A) /\ Cardinality(A) \in Nat
    BY <1>0, <1>7, PartOf
  <2>2. IsFiniteSet(M) /\ Cardinality(M) \in Nat /\ Cardinality(M) <= Cardinality(A) /\ Cardinality(M) # Cardinality(A)
    BY <1>7, <2>1, PartOf
  <2> QED
    BY <2>1, <2>2
<1>9. ASSUME k <= Cardinality(M) PROVE FALSE
  <2>1. M # {}
    BY <1>9, FS_EmptySet
  <2>2. \A s \in M : s \in S /\ row[s] \in Nat /\ row[s] > v
    BY <1>0 DEF More
  <2>3. PICK s \in M : \A x \in M : row[s] <= row[x]
    <3> HIDE DEF M
    <3> QED
      BY <2>1, <2>2, Lightest
  <2>4. AtLeast(S, row, row[s]) = M
    <3>1. \A x \in S : row[x] >= row[s] <=> row[x] > v
      <4> TAKE x \in S
      <4>1. row[x] \in Nat /\ row[s] \in Nat /\ row[s] > v
        BY <1>0, <2>2
      <4>2. row[x] > v => x \in M
        BY DEF More
      <4> QED
        BY <1>7, <2>3, <4>1, <4>2
    <3> QED
      BY <3>1 DEF AtLeast, More
  <2>5. s \in Enough /\ count(s) = Cardinality(M)
    BY <1>9, <2>2, <2>4
  <2>6. c <= Cardinality(M) /\ c = Cardinality(A)
    BY <1>5, <1>6, <2>5
  <2> QED
    BY <1>8, <2>6
<1>10. Cut(S, row, k, v)
  <2>1. v \in {row[x] : x \in S}
    BY <1>7
  <2>2. Cardinality(M) < k
    BY <1>8, <1>9
  <2> QED
    BY <1>7, <2>1, <2>2 DEF Cut
<1> QED
  BY <1>10 DEF Cut

\* The threshold is that weight,
LEMMA ThresholdIs ==
  ASSUME NEW S, NEW row, Weighed(S, row), NEW k \in Nat \ {0}, k <= Cardinality(S)
  PROVE  Cut(S, row, k, Threshold(S, row, k)) /\ Threshold(S, row, k) \in Nat
<1> DEFINE V == {row[t] : t \in S}
<1>1. \E v \in V : Cut(S, row, k, v)
  BY CutExists
<1>2. Threshold(S, row, k) = CHOOSE v \in V : Cardinality(More(S, row, v)) < k /\ k <= Cardinality(AtLeast(S, row, v))
  BY DEF Threshold, More, AtLeast
<1>3. \E v \in V : Cardinality(More(S, row, v)) < k /\ k <= Cardinality(AtLeast(S, row, v))
  BY <1>1 DEF Cut
<1>4. Threshold(S, row, k) \in V /\ Cardinality(More(S, row, Threshold(S, row, k))) < k
      /\ k <= Cardinality(AtLeast(S, row, Threshold(S, row, k)))
  <2> HIDE DEF V
  <2> QED
    BY <1>2, <1>3
<1> QED
  BY <1>4 DEF Cut, Weighed

\* and no other is.
LEMMA CutUnique ==
  ASSUME NEW S, NEW row, Weighed(S, row), NEW k \in Nat, NEW u, NEW v, Cut(S, row, k, u), Cut(S, row, k, v)
  PROVE  u = v
<1>1. IsFiniteSet(S) /\ u \in Nat /\ v \in Nat
  BY DEF Weighed, Cut
<1>2. ASSUME NEW x \in Nat, NEW y \in Nat, x < y, Cut(S, row, k, x), Cut(S, row, k, y) PROVE FALSE
  <2>1. AtLeast(S, row, y) \subseteq More(S, row, x) /\ More(S, row, x) \subseteq S
    BY <1>2 DEF AtLeast, More, Weighed
  <2>2. IsFiniteSet(More(S, row, x))
    BY <1>1, <2>1, PartOf
  <2>3. Cardinality(AtLeast(S, row, y)) <= Cardinality(More(S, row, x))
        /\ Cardinality(AtLeast(S, row, y)) \in Nat /\ Cardinality(More(S, row, x)) \in Nat
    BY <2>1, <2>2, PartOf
  <2> QED
    BY <1>2, <2>3 DEF Cut
<1> QED
  BY <1>1, <1>2

\* What is kept of a set: as many tokens as asked for, with all that weigh u
\* or more if there are no more of them than that.
LEMMA TopKeeps ==
  ASSUME NEW S, NEW row, Weighed(S, row), NEW k \in Nat \ {0}, k <= Cardinality(S),
         NEW T \in Chosen(S, row, k), NEW u \in Nat, Cardinality(AtLeast(S, row, u)) <= k
  PROVE  T \subseteq S /\ Cardinality(T) = k /\ AtLeast(S, row, u) \subseteq T
<1> DEFINE v == Threshold(S, row, k)
           M == More(S, row, v)
           E == {t \in S : row[t] = v}
           A == AtLeast(S, row, v)
           U == AtLeast(S, row, u)
<1>0. IsFiniteSet(S) /\ (\A t \in S : row[t] \in Nat) /\ v \in Nat /\ Cut(S, row, k, v)
  BY ThresholdIs DEF Weighed
<1>1. Cardinality(M) < k /\ k <= Cardinality(A)
  BY <1>0 DEF Cut
<1>2. PICK equal \in kSubset(k - Cardinality(M), E) : T = M \cup equal
  BY DEF Chosen, More
<1>3. equal \subseteq E /\ Cardinality(equal) = k - Cardinality(M)
  BY <1>2 DEF kSubset
<1> HIDE DEF v
<1>4. /\ M \subseteq S /\ E \subseteq S /\ A \subseteq S /\ U \subseteq S
      /\ M \cap equal = {} /\ A = M \cup E /\ equal \subseteq S
  <2>1. M \subseteq S /\ E \subseteq S /\ A \subseteq S /\ U \subseteq S /\ equal \subseteq S
    BY <1>3 DEF More, AtLeast
  <2>2. M \cap equal = {}
    BY <1>0, <1>3 DEF More
  <2>3. A = M \cup E
    BY <1>0 DEF More, AtLeast
  <2> QED
    BY <2>1, <2>2, <2>3
<1>5. /\ IsFiniteSet(M) /\ IsFiniteSet(equal) /\ IsFiniteSet(A) /\ IsFiniteSet(U)
      /\ Cardinality(M) \in Nat /\ Cardinality(A) \in Nat /\ Cardinality(U) \in Nat
  <2> HIDE DEF M, E, A, U
  <2> QED
    BY <1>0, <1>4, PartOf
<1>6. Cardinality(T) = k
  <2> HIDE DEF M, E, A, U
  <2>1. Cardinality(M \cup equal) = Cardinality(M) + Cardinality(equal) - Cardinality(M \cap equal)
    BY <1>5, FS_Union
  <2>2. Cardinality(M \cap equal) = 0
    BY <1>4, FS_EmptySet
  <2> QED
    BY <1>2, <1>3, <1>5, <2>1, <2>2
<1>7. CASE u > v
  <2>1. U \subseteq M
    BY <1>0, <1>7 DEF AtLeast, More
  <2> QED
    BY <1>2, <1>4, <1>6, <2>1
<1>8. CASE u <= v
  <2>1. A \subseteq U
    BY <1>0, <1>8 DEF AtLeast
  <2>2. T \subseteq A
    BY <1>2, <1>3, <1>4
  <2> HIDE DEF M, E, A, U
  <2>3. Cardinality(A) <= Cardinality(U) /\ (Cardinality(A) = Cardinality(U) => A = U)
    BY <1>5, <2>1, PartOf
  <2>4. Cardinality(A) = k /\ A = U
    BY <1>1, <1>5, <2>3 DEF U
  <2>5. T = A
    BY <1>5, <1>6, <2>2, <2>4, PartOf
  <2> QED
    BY <1>4, <1>6, <2>4, <2>5 DEF U
<1> QED
  BY <1>0, <1>7, <1>8

SegmentWidth == Vocab \div Segments

\* The segments divide the vocabulary evenly.
LEMMA SegmentIs ==
  /\ Vocab \in Nat \ {0} /\ Segments \in Nat \ {0} /\ SegmentWidth \in Nat \ {0}
  /\ IsFiniteSet(TokenId) /\ Cardinality(TokenId) = Vocab /\ SegmentWidth <= Vocab
  /\ \A b \in 0..(Segments - 1) : Segment(b) \subseteq TokenId /\ Cardinality(Segment(b)) = SegmentWidth
  /\ \A t \in TokenId : t \div SegmentWidth \in 0..(Segments - 1) /\ t \in Segment(t \div SegmentWidth)
<1> DEFINE w == SegmentWidth
<1>1. Vocab \in Nat \ {0} /\ Segments \in Nat \ {0} /\ Vocab % Segments = 0
  BY SamplerAssumption DEF SamplerAssumption
<1>2. w \in Nat /\ Vocab = w * Segments
  <2>1. /\ Vocab \div Segments \in Nat /\ Vocab = (Vocab \div Segments) * Segments + (Vocab % Segments)
    BY <1>1, Divides
  <2>2. (Vocab \div Segments) * Segments \in Nat
    BY <1>1, <2>1
  <2> QED
    BY <1>1, <2>1, <2>2 DEF SegmentWidth
<1> HIDE DEF w
<1>3. w # 0
  BY <1>1, <1>2
<1>4. w <= Vocab
  <2>1. w * 1 <= w * Segments
    BY <1>1, <1>2
  <2> QED
    BY <1>2, <2>1
<1>5. IsFiniteSet(TokenId) /\ Cardinality(TokenId) = Vocab
  <2>1. IsFiniteSet(0..(Vocab - 1)) /\ Cardinality(0..(Vocab - 1)) = IF 0 > Vocab - 1 THEN 0 ELSE Vocab - 1 - 0 + 1
    BY <1>1, FS_Interval
  <2> QED
    BY <1>1, <2>1 DEF TokenId
<1>6. ASSUME NEW b \in 0..(Segments - 1) PROVE Segment(b) \subseteq TokenId /\ Cardinality(Segment(b)) = w
  <2> DEFINE low == b * w
             high == b * w + w - 1
  <2>1. low \in Nat /\ high \in Nat /\ low <= high /\ high < Vocab
    <3>1. b \in Nat /\ Segments \in Nat /\ b < Segments
      BY <1>1
    <3>2. b * w \in Nat /\ b * w + w <= Segments * w
      BY <1>2, <3>1, Products
    <3>3. Segments * w = Vocab
      BY <1>1, <1>2
    <3> QED
      BY <1>1, <1>2, <1>3, <3>2, <3>3
  <2>2. \A t \in TokenId : t \div w = b <=> t \in low..high
    <3> TAKE t \in TokenId
    <3>1. t \in Nat /\ b \in Nat /\ w \in Nat \ {0}
      BY <1>1, <1>2, <1>3 DEF TokenId
    <3>2. t \div w \in Nat /\ t % w \in 0..(w - 1) /\ t = (t \div w) * w + (t % w)
      BY <3>1, Divides
    <3>3. ASSUME t \div w = b PROVE t \in low..high
      BY <2>1, <3>1, <3>2, <3>3
    <3>4. ASSUME t \in low..high PROVE t \div w = b
      <4>1. t - low \in 0..(w - 1)
        BY <2>1, <3>1, <3>4
      <4>2. t = b * w + (t - low)
        BY <2>1, <3>1
      <4>3. (b * w + (t - low)) \div w = b
        BY <3>1, <4>1, Divided
      <4> QED
        BY <4>2, <4>3
    <3> QED
      BY <3>3, <3>4
  <2>3. low..high \subseteq TokenId
    BY <1>1, <2>1 DEF TokenId
  <2>4. Segment(b) = low..high
    BY <2>2, <2>3 DEF Segment, w, SegmentWidth
  <2>5. Cardinality(low..high) = high - low + 1
    BY <2>1, FS_Interval
  <2> QED
    BY <1>2, <2>1, <2>3, <2>4, <2>5
<1>7. ASSUME NEW t \in TokenId PROVE t \div w \in 0..(Segments - 1) /\ t \in Segment(t \div w)
  <2>1. t \in Nat /\ t < Vocab /\ w \in Nat \ {0}
    BY <1>1, <1>2, <1>3 DEF TokenId
  <2>2. t \div w \in Nat /\ t % w \in 0..(w - 1) /\ t = (t \div w) * w + (t % w)
    BY <2>1, Divides
  <2>3. ASSUME Segments <= t \div w PROVE FALSE
    <3>1. Segments * w <= (t \div w) * w /\ (t \div w) * w \in Nat
      BY <1>1, <2>1, <2>2, <2>3, Products
    <3>2. Segments * w = Vocab
      BY <1>1, <1>2
    <3>3. t % w \in Nat /\ Vocab \in Nat /\ (t \div w) * w <= t
      <4> DEFINE q == (t \div w) * w
                 r == t % w
      <4>1. q \in Nat /\ r \in Nat /\ t = q + r
        BY <2>1, <2>2, <3>1
      <4> HIDE DEF q, r
      <4>2. q <= t
        BY <4>1
      <4> QED
        BY <1>1, <4>1, <4>2 DEF q, r
    <3> DEFINE q == (t \div w) * w
    <3>4. Vocab <= q /\ q <= t /\ q \in Nat
      BY <3>1, <3>2, <3>3
    <3> HIDE DEF q
    <3> QED
      BY <1>1, <2>1, <3>4
  <2>4. t \in Segment(t \div w)
    BY DEF Segment, w, SegmentWidth
  <2> QED
    BY <1>1, <2>2, <2>3, <2>4
<1> QED
  BY <1>1, <1>2, <1>3, <1>4, <1>5, <1>6, <1>7 DEF w

\* A row weighs every token.
RowOf(row) == \A t \in TokenId : row[t] \in Nat

\* The two stages together keep all that weighs u or more, if there are no
\* more tokens of that weight than are asked for.
LEMMA CandidatesKeep ==
  ASSUME NEW row, RowOf(row), NEW k \in Nat \ {0}, k <= SegmentWidth, NEW T \in TopKRows(row, k),
         NEW u \in Nat, Cardinality(AtLeast(TokenId, row, u)) <= k
  PROVE  T \subseteq TokenId /\ AtLeast(TokenId, row, u) \subseteq T
<1> DEFINE segments == 0..(Segments - 1)
           U == AtLeast(TokenId, row, u)
<1>0. /\ IsFiniteSet(TokenId) /\ Segments \in Nat \ {0} /\ SegmentWidth \in Nat
      /\ \A b \in segments : Segment(b) \subseteq TokenId /\ Cardinality(Segment(b)) = SegmentWidth
      /\ \A t \in TokenId : t \div SegmentWidth \in segments /\ t \in Segment(t \div SegmentWidth)
  BY SegmentIs
<1>1. PICK found \in StageOne(row, k) : T \in Chosen(found, row, k)
  BY DEF TopKRows
<1>2. PICK f : (\A b \in segments : f[b] \in Chosen(Segment(b), row, k)) /\ found = UNION {f[b] : b \in segments}
  BY <1>1 DEF StageOne
<1> HIDE DEF segments
<1>u. IsFiniteSet(U) /\ Cardinality(U) \in Nat /\ U \subseteq TokenId
  <2>1. U \subseteq TokenId
    BY DEF AtLeast
  <2> QED
    BY <1>0, <2>1, PartOf
<1>3. ASSUME NEW b \in segments
      PROVE  f[b] \subseteq TokenId /\ Cardinality(f[b]) = k /\ AtLeast(Segment(b), row, u) \subseteq f[b]
  <2> DEFINE B == Segment(b)
  <2>1. B \subseteq TokenId /\ Cardinality(B) = SegmentWidth
    BY <1>0
  <2>2. f[b] \in Chosen(B, row, k)
    BY <1>2
  <2> HIDE DEF B
  <2>3. IsFiniteSet(B) /\ Weighed(B, row)
    BY <1>0, <2>1, PartOf DEF Weighed, RowOf
  <2>4. AtLeast(B, row, u) \subseteq U
    BY <2>1 DEF AtLeast
  <2>5. Cardinality(AtLeast(B, row, u)) <= k
    <3>1. Cardinality(AtLeast(B, row, u)) <= Cardinality(U) /\ Cardinality(AtLeast(B, row, u)) \in Nat
      <4> HIDE DEF U
      <4> QED
        BY <1>u, <2>4, PartOf
    <3> QED
      BY <1>u, <3>1
  <2>6. f[b] \subseteq B /\ Cardinality(f[b]) = k /\ AtLeast(B, row, u) \subseteq f[b]
    BY <2>1, <2>2, <2>3, <2>5, TopKeeps
  <2> QED
    BY <2>1, <2>6 DEF B
<1>4. found \subseteq TokenId /\ U \subseteq found
  <2>1. found \subseteq TokenId
    BY <1>2, <1>3
  <2>2. ASSUME NEW t \in U PROVE t \in found
    <3>1. t \in TokenId /\ row[t] >= u
      BY DEF AtLeast
    <3>2. t \div SegmentWidth \in segments /\ t \in Segment(t \div SegmentWidth)
      BY <1>0, <3>1
    <3>3. t \in AtLeast(Segment(t \div SegmentWidth), row, u)
      BY <3>1, <3>2 DEF AtLeast
    <3> QED
      BY <1>2, <1>3, <3>2, <3>3
  <2> QED
    BY <2>1, <2>2
<1>5. IsFiniteSet(found) /\ k <= Cardinality(found) /\ Weighed(found, row)
  <2>1. IsFiniteSet(found) /\ Weighed(found, row)
    BY <1>0, <1>4, PartOf DEF Weighed, RowOf
  <2>2. 0 \in segments
    BY <1>0 DEF segments
  <2>3. f[0] \subseteq found /\ Cardinality(f[0]) = k
    BY <1>2, <1>3, <2>2
  <2> QED
    BY <2>1, <2>3, PartOf
<1>6. AtLeast(found, row, u) = U
  BY <1>4 DEF AtLeast
<1>7. T \subseteq found /\ AtLeast(found, row, u) \subseteq T
  BY <1>1, <1>5, <1>6, TopKeeps
<1> QED
  BY <1>4, <1>6, <1>7

\* What a top-k keeps of the candidates is what it keeps of the vocabulary.
LEMMA KeptSame ==
  ASSUME NEW row, RowOf(row), NEW k \in Nat \ {0}, k <= Vocab, NEW T \in SUBSET TokenId,
         Kept(TokenId, row, k) \subseteq T
  PROVE  Kept(T, row, k) = Kept(TokenId, row, k)
<1> DEFINE u == Threshold(TokenId, row, k)
<1>0. IsFiniteSet(TokenId) /\ Cardinality(TokenId) = Vocab
  BY SegmentIs
<1>1. Weighed(TokenId, row) /\ IsFiniteSet(T) /\ Weighed(T, row)
  BY <1>0, PartOf DEF Weighed, RowOf
<1>2. Cut(TokenId, row, k, u) /\ u \in Nat
  BY <1>0, <1>1, ThresholdIs
<1>3. Kept(TokenId, row, k) = AtLeast(TokenId, row, u)
  BY DEF Kept, AtLeast
<1> HIDE DEF u
<1>4. AtLeast(T, row, u) = AtLeast(TokenId, row, u) /\ More(T, row, u) \subseteq More(TokenId, row, u)
      /\ AtLeast(T, row, u) \subseteq T /\ More(TokenId, row, u) \subseteq TokenId
  BY <1>3 DEF AtLeast, More
<1>5. k <= Cardinality(AtLeast(T, row, u)) /\ Cardinality(AtLeast(T, row, u)) \in Nat
      /\ Cardinality(T) \in Nat /\ Cardinality(AtLeast(T, row, u)) <= Cardinality(T)
  <2>1. k <= Cardinality(AtLeast(T, row, u))
    BY <1>2, <1>4 DEF Cut
  <2> QED
    BY <1>1, <1>4, <2>1, PartOf
<1>6. Cardinality(More(T, row, u)) < k
  <2>1. IsFiniteSet(More(TokenId, row, u)) /\ Cardinality(More(TokenId, row, u)) \in Nat
    BY <1>0, <1>4, PartOf
  <2>2. Cardinality(More(T, row, u)) <= Cardinality(More(TokenId, row, u)) /\ Cardinality(More(T, row, u)) \in Nat
    BY <1>4, <2>1, PartOf
  <2> QED
    BY <1>2, <2>1, <2>2 DEF Cut
<1>7. u \in {row[t] : t \in T}
  <2>1. PICK t \in TokenId : u = row[t]
    BY <1>2 DEF Cut
  <2>2. t \in AtLeast(TokenId, row, u)
    BY <1>2, <2>1 DEF AtLeast
  <2> QED
    BY <1>4, <2>1, <2>2
<1>8. Cut(T, row, k, u)
  BY <1>5, <1>6, <1>7 DEF Cut
<1>9. Threshold(T, row, k) = u
  <2>1. Cut(T, row, k, Threshold(T, row, k))
    BY <1>1, <1>5, ThresholdIs
  <2> QED
    BY <1>1, <1>8, <2>1, CutUnique
<1> QED
  BY <1>3, <1>4, <1>9 DEF Kept, AtLeast

\* The sparse target is the dense one.
LEMMA SparseIsDense ==
  ASSUME TiesFit, NEW row \in TargetRows, NEW param \in Params, NEW other \in Params,
         NEW p \in SparseTargets(row, {param.k, other.k}, param.k, param.tp)
  PROVE  p = Target(row, TokenId, param.k, param.tp)
<1> DEFINE k == param.k
           K == Candidates({param.k, other.k})
<1>1. PICK T \in TopKRows(row, K) : p = Target(row, T, k, param.tp)
  BY DEF SparseTargets
<1>2. RowOf(row)
  BY RowAssumption DEF RowAssumption, RowOf
<1>3. k \in Nat \ {0} /\ other.k \in Nat \ {0} /\ Extra \in Nat \ {0}
  BY RowAssumption, SamplerAssumption DEF RowAssumption, SamplerAssumption
<1>4. Candidates({k}) = k + Extra /\ Candidates({other.k}) = other.k + Extra
  <2>1. \A x \in Nat : Max({x}) = x
    <3> TAKE x \in Nat
    <3>1. Max({x}) \in {x}
      <4>1. {x} \in SUBSET (0..x) /\ {x} # {}
        OBVIOUS
      <4> QED
        BY ONLY <4>1, Largest, x \in Nat
    <3> QED
      BY <3>1
  <2> QED
    BY <1>3, <2>1 DEF Candidates
<1>5. K \in {k + Extra, other.k + Extra} /\ k + Extra <= K
  <2> DEFINE S == {k, other.k}
             m == k + other.k
  <2>1. S \in SUBSET (0..m) /\ S # {} /\ m \in Nat
    BY <1>3
  <2>2. Max(S) \in S /\ \A y \in S : y <= Max(S)
    <3> HIDE DEF S, m
    <3> QED
      BY <2>1, Largest
  <2> QED
    BY <1>3, <2>2 DEF Candidates
<1>6. K \in Nat \ {0} /\ K <= SegmentWidth
  <2>1. k + Extra <= SegmentWidth /\ other.k + Extra <= SegmentWidth
    BY <1>4, RowAssumption DEF RowAssumption, SegmentWidth
  <2> QED
    BY <1>3, <1>5, <2>1
<1>7. Cardinality(Kept(TokenId, row, k)) <= k + Extra
  BY <1>4 DEF TiesFit
<1> DEFINE u == Threshold(TokenId, row, k)
<1> HIDE DEF k, K
<1>8. k <= Vocab /\ IsFiniteSet(TokenId) /\ Cardinality(TokenId) = Vocab
  BY <1>3, <1>5, <1>6, SegmentIs
<1>9. u \in Nat
  <2>1. Weighed(TokenId, row)
    BY <1>2, <1>8 DEF Weighed, RowOf
  <2> QED
    BY <1>3, <1>8, <2>1, ThresholdIs
<1>10. Kept(TokenId, row, k) = AtLeast(TokenId, row, u)
  BY DEF Kept, AtLeast
<1>11. Cardinality(AtLeast(TokenId, row, u)) <= K
  <2>1. AtLeast(TokenId, row, u) \subseteq TokenId
    BY DEF AtLeast
  <2>2. Cardinality(AtLeast(TokenId, row, u)) \in Nat
    BY <1>8, <2>1, PartOf
  <2> QED
    BY <1>3, <1>5, <1>6, <1>7, <1>10, <2>2
<1> HIDE DEF u
<1>12. T \subseteq TokenId /\ AtLeast(TokenId, row, u) \subseteq T
  BY <1>1, <1>2, <1>6, <1>9, <1>11, CandidatesKeep
<1>13. Kept(T, row, k) = Kept(TokenId, row, k)
  BY <1>2, <1>3, <1>8, <1>10, <1>12, KeptSame
<1> QED
  BY <1>1, <1>13 DEF Target, k

-----------------------------------------------------------------------------
(* Sums over the vocabulary                                                  *)

\* From zero, one by one, up to a bound.
LEMMA Upward ==
  ASSUME NEW N \in Nat, NEW T \in SUBSET (0..N), 0 \in T, \A n \in 0..(N - 1) : n \in T => n + 1 \in T
  PROVE  \A n \in 0..N : n \in T
<1> DEFINE B == (0..N) \ T
<1> SUFFICES ASSUME B # {} PROVE FALSE
  OBVIOUS
<1>1. B \in SUBSET Nat
  OBVIOUS
<1>2. PICK x \in B : \A y \in B : x <= y
  <2> HIDE DEF B
  <2> QED
    BY <1>1, Smallest
<1>3. x \in 0..N /\ x \notin T /\ x # 0
  BY <1>2
<1>4. x - 1 \in 0..(N - 1) /\ (x - 1) + 1 = x
  BY <1>3
<1>5. x - 1 \notin T
  BY <1>3, <1>4
<1>6. x - 1 \in B
  BY <1>4, <1>5
<1> HIDE DEF B
<1>7. x <= x - 1
  BY <1>2, <1>6
<1> QED
  BY <1>3, <1>7

Portion(w, S, t) == IF t \in S THEN w[t] ELSE 0
SumOf(w, S, f) ==
  /\ f \in [0..Vocab -> Nat] /\ f[0] = 0
  /\ \A n \in 0..(Vocab - 1) : f[n + 1] = f[n] + Portion(w, S, n)

\* A mass is what a running sum ends with.
LEMMA MassIs ==
  ASSUME NEW w, RowOf(w), NEW S
  PROVE  \E f : SumOf(w, S, f) /\ Mass(w, S) = f[Vocab]
<1> DEFINE N == Vocab
           add(n) == IF n - 1 \in S THEN w[n - 1] ELSE 0
           G == [n \in 1..N |-> [s \in Nat |-> s + add(n)]]
           Sat(f) == f = [n \in 0..N |-> IF n = 0 THEN 0 ELSE f[n - 1] + add(n)]
           NN == Nat
           z == 0
<1>0. N \in Nat \ {0} /\ TokenId = 0..(N - 1)
  BY SamplerAssumption DEF SamplerAssumption, TokenId
<1>1. \A n \in 1..N : add(n) \in Nat
  BY <1>0 DEF RowOf
<1> HIDE DEF N
<1>2. PICK g \in [0..N -> NN] : g[0] = z /\ \A n \in 1..N : g[n] = G[n][g[n - 1]]
  <2>1. G \in [1..N -> [NN -> NN]] /\ z \in NN
    <3> HIDE DEF add
    <3>1. \A n \in 1..N : [s \in Nat |-> s + add(n)] \in [Nat -> Nat]
      BY <1>1
    <3> QED
      BY <3>1
  <2>2. N \in Nat
    BY <1>0
  <2> HIDE DEF G, NN, z
  <2> QED
    BY ONLY <2>1, <2>2, StepByStep
<1>3. Sat(g)
  <2>1. \A n \in 0..N : g[n] = IF n = 0 THEN 0 ELSE g[n - 1] + add(n)
    <3> HIDE DEF add
    <3> TAKE n \in 0..N
    <3>1. CASE n = 0
      BY <1>2, <3>1
    <3>2. CASE n # 0
      <4>1. n \in 1..N /\ n - 1 \in 0..N
        BY <1>0, <3>2
      <4>2. g[n - 1] \in Nat /\ g[n] = G[n][g[n - 1]]
        BY <1>2, <4>1
      <4> QED
        BY <3>2, <4>1, <4>2
    <3> QED
      BY <3>1, <3>2
  <2>2. g = [n \in 0..N |-> g[n]]
    BY <1>2
  <2> HIDE DEF add
  <2> QED
    BY <2>1, <2>2
<1> DEFINE h == CHOOSE f : Sat(f)
<1>4. Mass(w, S) = h[N]
  BY DEF Mass, N
<1>5. Sat(h)
  <2> HIDE DEF Sat
  <2> QED
    BY <1>3
<1> HIDE DEF h
<1>6. h[0] = 0 /\ \A n \in 1..N : h[n] = h[n - 1] + add(n)
  <2> HIDE DEF add
  <2>1. h = [n \in 0..N |-> IF n = 0 THEN 0 ELSE h[n - 1] + add(n)]
    BY <1>5
  <2> QED
    BY <1>0, <2>1
<1>7. \A n \in 0..(N - 1) : h[n + 1] = h[n] + Portion(w, S, n) /\ Portion(w, S, n) \in Nat
  <2> TAKE n \in 0..(N - 1)
  <2>1. n + 1 \in 1..N /\ (n + 1) - 1 = n
    BY <1>0
  <2>2. add(n + 1) = Portion(w, S, n)
    BY <2>1 DEF Portion
  <2> HIDE DEF add
  <2> QED
    BY <1>1, <1>6, <2>1, <2>2
<1>8. \A n \in 0..N : h[n] \in Nat
  <2> DEFINE T == {n \in 0..N : h[n] \in Nat}
  <2>1. T \in SUBSET (0..N) /\ 0 \in T
    BY <1>0, <1>6
  <2>2. \A n \in 0..(N - 1) : n \in T => n + 1 \in T
    BY <1>0, <1>7
  <2>3. N \in Nat
    BY <1>0
  <2>4. \A n \in 0..N : n \in T
    <3> HIDE DEF T
    <3> QED
      BY <2>1, <2>2, <2>3, Upward
  <2> QED
    BY <2>4
<1>9. h \in [0..N -> Nat]
  <2>1. h = [n \in 0..N |-> IF n = 0 THEN 0 ELSE h[n - 1] + add(n)]
    BY <1>5
  <2> HIDE DEF add
  <2>2. h = [n \in 0..N |-> h[n]]
    BY <2>1
  <2> QED
    BY <1>8, <2>2
<1> QED
  BY <1>4, <1>6, <1>7, <1>9 DEF SumOf, N

\* A mass whose portions are no larger is no larger, and it is smaller if one
\* portion is.
LEMMA MassOrder ==
  ASSUME NEW a, RowOf(a), NEW S, NEW b, RowOf(b), NEW R,
         \A t \in TokenId : Portion(a, S, t) <= Portion(b, R, t)
  PROVE  /\ Mass(a, S) \in Nat /\ Mass(b, R) \in Nat /\ Mass(a, S) <= Mass(b, R)
         /\ (\E t \in TokenId : Portion(a, S, t) < Portion(b, R, t)) => Mass(a, S) < Mass(b, R)
<1>0. Vocab \in Nat \ {0} /\ TokenId = 0..(Vocab - 1)
  BY SamplerAssumption DEF SamplerAssumption, TokenId
<1>1. PICK f : SumOf(a, S, f) /\ Mass(a, S) = f[Vocab]
  BY MassIs
<1>2. PICK g : SumOf(b, R, g) /\ Mass(b, R) = g[Vocab]
  BY MassIs
<1>3. \A n \in 0..Vocab : f[n] \in Nat /\ g[n] \in Nat
  BY <1>1, <1>2 DEF SumOf
<1>4. \A t \in TokenId : Portion(a, S, t) \in Nat /\ Portion(b, R, t) \in Nat
  BY DEF Portion, RowOf
<1> DEFINE T == {n \in 0..Vocab :
                   /\ f[n] <= g[n]
                   /\ \A t \in 0..(n - 1) : Portion(a, S, t) < Portion(b, R, t) => f[n] < g[n]}
<1>5. T \in SUBSET (0..Vocab) /\ 0 \in T
  BY <1>0, <1>1, <1>2 DEF SumOf
<1>6. ASSUME NEW n \in 0..(Vocab - 1), n \in T PROVE n + 1 \in T
  <2>1. n \in TokenId /\ n + 1 \in 0..Vocab /\ n \in 0..Vocab
    BY <1>0
  <2>2. f[n + 1] = f[n] + Portion(a, S, n) /\ g[n + 1] = g[n] + Portion(b, R, n)
    BY <1>1, <1>2 DEF SumOf
  <2>3. /\ f[n] \in Nat /\ g[n] \in Nat /\ Portion(a, S, n) \in Nat /\ Portion(b, R, n) \in Nat
        /\ f[n] <= g[n] /\ Portion(a, S, n) <= Portion(b, R, n)
    BY <1>3, <1>4, <1>6, <2>1
  <2>4. f[n + 1] <= g[n + 1]
    BY <2>2, <2>3
  <2>5. ASSUME NEW t \in 0..n, Portion(a, S, t) < Portion(b, R, t) PROVE f[n + 1] < g[n + 1]
    <3>1. CASE t = n
      BY <2>2, <2>3, <2>5, <3>1
    <3>2. CASE t # n
      <4>1. t \in 0..(n - 1)
        BY <2>1, <3>2
      <4>2. f[n] < g[n]
        BY <1>6, <2>5, <4>1
      <4> QED
        BY <2>2, <2>3, <4>2
    <3> QED
      BY <3>1, <3>2
  <2>6. (n + 1) - 1 = n
    BY <2>1
  <2> QED
    BY <2>1, <2>4, <2>5, <2>6
<1>7. Vocab \in T
  <2>1. Vocab \in Nat /\ Vocab \in 0..Vocab
    BY <1>0
  <2>2. \A n \in 0..(Vocab - 1) : n \in T => n + 1 \in T
    BY <1>6
  <2> HIDE DEF T
  <2>3. \A n \in 0..Vocab : n \in T
    BY ONLY <2>1, <2>2, <1>5, Upward
  <2> QED
    BY <2>1, <2>3
<1>8. Vocab \in 0..Vocab
  BY <1>0
<1> QED
  BY <1>0, <1>1, <1>2, <1>3, <1>7, <1>8

\* A mass is a number, at least that of any part, and zero without weight.
LEMMA MassType ==
  ASSUME NEW w, RowOf(w), NEW S
  PROVE  Mass(w, S) \in Nat /\ Mass(w, S) <= Total(w) /\ Total(w) \in Nat
<1>1. \A t \in TokenId : Portion(w, S, t) <= Portion(w, TokenId, t)
  BY DEF Portion, RowOf
<1> QED
  BY <1>1, MassOrder DEF Total

\* A sum of multiples is the multiple of the sum.
LEMMA MassScaled ==
  ASSUME NEW w, RowOf(w), NEW c \in Nat, NEW v, v = [t \in TokenId |-> w[t] * c]
  PROVE  RowOf(v) /\ Total(v) = Total(w) * c
<1>0. Vocab \in Nat \ {0} /\ TokenId = 0..(Vocab - 1)
  BY SamplerAssumption DEF SamplerAssumption, TokenId
<1>1. \A x \in Nat : \A y \in Nat : x * c \in Nat /\ (x + y) * c = x * c + y * c
  OBVIOUS
<1>2. RowOf(v)
  BY <1>1 DEF RowOf
<1>3. PICK f : SumOf(w, TokenId, f) /\ Total(w) = f[Vocab]
  BY MassIs DEF Total
<1>4. PICK g : SumOf(v, TokenId, g) /\ Total(v) = g[Vocab]
  BY <1>2, MassIs DEF Total
<1> DEFINE T == {n \in 0..Vocab : g[n] = f[n] * c}
<1>5. T \in SUBSET (0..Vocab) /\ 0 \in T
  BY <1>0, <1>3, <1>4 DEF SumOf
<1>6. ASSUME NEW n \in 0..(Vocab - 1), n \in T PROVE n + 1 \in T
  <2>1. n \in TokenId /\ n + 1 \in 0..Vocab /\ n \in 0..Vocab
    BY <1>0
  <2>2. f[n + 1] = f[n] + w[n] /\ g[n + 1] = g[n] + v[n]
    BY <1>3, <1>4, <2>1 DEF SumOf, Portion
  <2>3. f[n] \in Nat /\ w[n] \in Nat /\ v[n] = w[n] * c
    BY <1>3, <2>1 DEF SumOf, RowOf
  <2>4. g[n] = f[n] * c
    BY <1>6
  <2>5. (f[n] + w[n]) * c = f[n] * c + w[n] * c
    BY <1>1, <2>3
  <2> QED
    BY <2>1, <2>2, <2>3, <2>4, <2>5
<1>7. Vocab \in T
  <2>1. Vocab \in Nat /\ Vocab \in 0..Vocab
    BY <1>0
  <2>2. \A n \in 0..(Vocab - 1) : n \in T => n + 1 \in T
    BY <1>6
  <2> HIDE DEF T
  <2>3. \A n \in 0..Vocab : n \in T
    BY ONLY <2>1, <2>2, <1>5, Upward
  <2> QED
    BY <2>1, <2>3
<1> QED
  BY <1>2, <1>3, <1>4, <1>7

\* A sum is positive if and only if one of its terms is.
LEMMA PositiveMass ==
  ASSUME NEW w, RowOf(w), NEW S, NEW t \in TokenId, t \in S, w[t] > 0
  PROVE  Mass(w, S) > 0
<1> DEFINE v == [x \in TokenId |-> w[x] * 0]
<1>1. RowOf(v) /\ Total(v) = Total(w) * 0
  BY MassScaled
<1>2. \A x \in TokenId : v[x] = 0
  BY DEF RowOf
<1>3. Total(v) = 0
  BY <1>1, MassType
<1> HIDE DEF v
<1>4. /\ \A x \in TokenId : Portion(v, TokenId, x) <= Portion(w, S, x)
      /\ Portion(v, TokenId, t) < Portion(w, S, t)
  BY <1>2 DEF Portion, RowOf
<1>5. Mass(v, TokenId) < Mass(w, S)
  BY <1>1, <1>4, MassOrder
<1> QED
  BY <1>3, <1>5 DEF Total

LEMMA PositiveTerm ==
  ASSUME NEW w, RowOf(w), Total(w) > 0
  PROVE  \E t \in TokenId : w[t] > 0
<1> DEFINE v == [x \in TokenId |-> w[x] * 0]
<1>1. RowOf(v) /\ Total(v) = Total(w) * 0
  BY MassScaled
<1>2. \A x \in TokenId : v[x] = 0
  BY DEF RowOf
<1>3. Total(v) = 0 /\ Total(w) \in Nat
  BY <1>1, MassType
<1> HIDE DEF v
<1> SUFFICES ASSUME \A t \in TokenId : ~(w[t] > 0) PROVE FALSE
  OBVIOUS
<1>4. \A x \in TokenId : Portion(w, TokenId, x) <= Portion(v, TokenId, x)
  BY <1>2 DEF Portion, RowOf
<1>5. Mass(w, TokenId) <= Mass(v, TokenId)
  BY <1>1, <1>4, MassOrder
<1> QED
  BY <1>3, <1>5 DEF Total

\* The token a coin draws has weight.
LEMMA FinalPasses ==
  ASSUME NEW w, RowOf(w), Total(w) > 0, NEW coin \in 0..(Grid - 1)
  PROVE  w[Final(w, coin)] > 0
<1> DEFINE passed == {t \in TokenId : w[t] > 0 /\ Mass(w, 0..t) * Grid > coin * Total(w)}
           W == {t \in TokenId : w[t] > 0}
<1>0. Vocab \in Nat \ {0} /\ TokenId = 0..(Vocab - 1) /\ Grid \in Nat \ {0}
  BY SamplerAssumption DEF SamplerAssumption, TokenId
<1>1. Final(w, coin) = IF passed = {} THEN Vocab - 1 ELSE Min(passed)
  BY DEF Final
<1>2. Max(W) \in W /\ \A y \in W : y <= Max(W)
  <2>1. W # {}
    BY PositiveTerm
  <2>2. W \in SUBSET (0..(Vocab - 1)) /\ Vocab - 1 \in Nat
    BY <1>0
  <2> HIDE DEF W
  <2> QED
    BY <2>1, <2>2, Largest
<1> DEFINE t == Max(W)
           m == Mass(w, 0..t)
           total == Total(w)
<1>3. t \in TokenId /\ w[t] > 0
  BY <1>2
<1>4. \A s \in TokenId : Portion(w, TokenId, s) <= Portion(w, 0..t, s)
  <2> TAKE s \in TokenId
  <2>1. w[s] \in Nat /\ s \in Nat /\ t \in Nat
    BY <1>0, <1>3 DEF RowOf
  <2> HIDE DEF t
  <2>2. CASE s \in 0..t
    BY <2>1, <2>2 DEF Portion
  <2>3. CASE s \notin 0..t
    <3>1. ~(s <= t)
      BY <2>1, <2>3
    <3>2. s \notin W
      BY <1>2, <3>1 DEF t
    <3>3. w[s] = 0
      BY <2>1, <3>2
    <3> QED
      BY <2>3, <3>3 DEF Portion
  <2> QED
    BY <2>2, <2>3
<1> HIDE DEF t
<1>5. m \in Nat /\ total \in Nat /\ total <= m /\ total > 0
  BY <1>4, MassOrder DEF Total
<1> HIDE DEF m
<1>6. m * Grid > coin * total
  <2> HIDE DEF total
  <2>1. coin \in Nat /\ Grid \in Nat /\ coin < Grid
    BY <1>0
  <2>2. coin * total + total <= Grid * total /\ coin * total \in Nat /\ Grid * total \in Nat
    BY <1>5, <2>1, Products
  <2>3. total * Grid <= m * Grid /\ m * Grid \in Nat /\ total * Grid \in Nat
    BY <1>5, <2>1, Products
  <2>4. total * Grid = Grid * total
    BY <1>5, <2>1
  <2> DEFINE c == coin * total
             g == Grid * total
             mg == m * Grid
  <2>5. c \in Nat /\ g \in Nat /\ mg \in Nat /\ c + total <= g /\ g <= mg
    BY <2>2, <2>3, <2>4
  <2> HIDE DEF c, g, mg
  <2>6. mg > c
    BY <1>5, <2>5
  <2> QED
    BY <2>6 DEF mg, c
<1>7. t \in passed
  BY <1>3, <1>6 DEF m
<1>8. passed \in SUBSET Nat
  BY <1>0
<1> HIDE DEF passed
<1>9. Min(passed) \in passed
  BY <1>7, <1>8, LeastIs DEF LeastOr
<1> QED
  BY <1>1, <1>7, <1>9 DEF passed

\* Of the tokens of a set, one with the most weight.
LEMMA Heaviest ==
  ASSUME NEW S, NEW row, Weighed(S, row), S # {}
  PROVE  \E t \in S : \A s \in S : row[s] <= row[t]
<1>1. IsFiniteSet(S) /\ \A t \in S : row[t] \in Nat
  BY DEF Weighed
<1>2. Cardinality(S) \in Nat /\ Cardinality(S) # 0
  BY <1>1, FS_CardinalityType, FS_EmptySet
<1>3. 1 \in Nat \ {0} /\ 1 <= Cardinality(S)
  BY <1>2
<1>4. PICK v \in {row[t] : t \in S} : Cut(S, row, 1, v)
  BY <1>3, CutExists
<1>5. More(S, row, v) \subseteq S
  BY DEF More
<1>6. IsFiniteSet(More(S, row, v)) /\ Cardinality(More(S, row, v)) \in Nat
  BY <1>1, <1>5, PartOf
<1>7. More(S, row, v) = {}
  <2>1. Cardinality(More(S, row, v)) = 0
    BY <1>4, <1>6 DEF Cut
  <2> QED
    BY <1>6, <2>1, FS_EmptySet
<1>8. PICK t \in S : v = row[t]
  BY <1>4
<1>9. \A s \in S : row[s] <= row[t]
  BY <1>1, <1>7, <1>8 DEF More
<1> QED
  BY <1>9

Distribution(w) == w \in [TokenId -> Nat] /\ RowOf(w) /\ Total(w) > 0

\* A nucleus of a distribution is a distribution,
LEMMA NucleusIs ==
  ASSUME NEW w, Distribution(w), NEW tp
  PROVE  Distribution(Nucleus(w, tp))
<1> DEFINE reach == {v \in {w[t] : t \in TokenId} :
                       v > 0 /\ Mass(w, {t \in TokenId : w[t] >= v}) * Tenths >= tp * Total(w)}
           top == {t \in TokenId : w[t] >= Max(reach)}
<1>1. Nucleus(w, tp) = IF reach = {} THEN w ELSE Only(w, top)
  BY DEF Nucleus
<1>2. CASE reach = {}
  BY <1>1, <1>2
<1>3. CASE reach # {}
  <2>0. IsFiniteSet(TokenId) /\ TokenId # {} /\ RowOf(w)
    <3>1. 0 \in TokenId
      BY SegmentIs DEF TokenId
    <3> QED
      BY <3>1, SegmentIs DEF Distribution
  <2>1. PICK h \in TokenId : \A s \in TokenId : w[s] <= w[h]
    BY <2>0, Heaviest DEF Weighed, RowOf
  <2>2. reach \in SUBSET (0..w[h]) /\ w[h] \in Nat
    <3>1. \A t \in TokenId : w[t] \in 0..w[h]
      BY <2>0, <2>1 DEF RowOf
    <3> QED
      BY <3>1
  <2>3. Max(reach) \in reach
    <3> HIDE DEF reach
    <3> QED
      BY <1>3, <2>2, Largest
  <2>4. PICK t \in TokenId : Max(reach) = w[t] /\ w[t] > 0
    BY <2>3
  <2>5. t \in top
    <3> HIDE DEF reach
    <3> QED
      BY <2>0, <2>4 DEF RowOf
  <2> DEFINE p == Only(w, top)
  <2>6. p = [x \in TokenId |-> IF x \in top THEN w[x] ELSE 0]
    BY DEF Only
  <2> HIDE DEF p, top, reach
  <2>7. p \in [TokenId -> Nat] /\ RowOf(p) /\ p[t] > 0
    BY <2>0, <2>4, <2>5, <2>6 DEF RowOf
  <2>8. Total(p) > 0
    BY <2>7, PositiveMass DEF Total
  <2> QED
    BY <1>1, <1>3, <2>7, <2>8 DEF Distribution, p
<1> QED
  BY <1>2, <1>3

\* and so is the target that a row gives.
LEMMA TargetIs ==
  ASSUME NEW row \in TargetRows, NEW param \in Params
  PROVE  Distribution(Target(row, TokenId, param.k, param.tp))
<1> DEFINE k == param.k
           kept == Kept(TokenId, row, k)
           w == Only(row, kept)
<1>0. RowOf(row) /\ k \in Nat \ {0} /\ \E t \in TokenId : row[t] > 0
  BY RowAssumption DEF RowAssumption, RowOf
<1>1. IsFiniteSet(TokenId) /\ TokenId # {} /\ Weighed(TokenId, row) /\ Cardinality(TokenId) = Vocab
  BY <1>0, SegmentIs DEF Weighed, RowOf
<1>2. k <= Vocab
  <2>1. Candidates({k}) = k + Extra /\ Extra \in Nat \ {0}
    <3>1. {k} \in SUBSET (0..k) /\ {k} # {} /\ k \in Nat
      BY <1>0
    <3>2. Max({k}) = k
      BY <3>1, Largest
    <3> QED
      BY <3>2, SamplerAssumption DEF Candidates, SamplerAssumption
  <2>2. Candidates({k}) <= SegmentWidth
    BY RowAssumption DEF RowAssumption, SegmentWidth
  <2> QED
    BY <1>0, <2>1, <2>2, SegmentIs
<1> DEFINE u == Threshold(TokenId, row, k)
<1> HIDE DEF k
<1>3. u \in Nat /\ u \in {row[t] : t \in TokenId}
  BY <1>0, <1>1, <1>2, ThresholdIs DEF Cut
<1>4. PICK h \in TokenId : \A s \in TokenId : row[s] <= row[h]
  BY <1>1, Heaviest
<1>5. row[h] \in Nat /\ row[h] > 0 /\ row[h] >= u
  BY <1>0, <1>3, <1>4 DEF RowOf
<1>6. h \in kept
  BY <1>5 DEF Kept
<1>7. w = [x \in TokenId |-> IF x \in kept THEN row[x] ELSE 0]
  BY DEF Only
<1> HIDE DEF w, kept, u
<1>8. w \in [TokenId -> Nat] /\ RowOf(w) /\ w[h] > 0
  BY <1>0, <1>5, <1>6, <1>7 DEF RowOf
<1>9. Distribution(w)
  BY <1>8, PositiveMass DEF Total, Distribution
<1> QED
  BY <1>9, NucleusIs DEF Target, w, kept, k

\* The larger of an integer and zero.
LEMMA OrZero ==
  ASSUME NEW d \in Int
  PROVE  Max({d, 0}) = IF d > 0 THEN d ELSE 0
<1> DEFINE S == {d, 0}
           m == IF d > 0 THEN d ELSE 0
<1>1. m \in S /\ (\A y \in S : m >= y) /\ S \subseteq Int
  OBVIOUS
<1>2. Max(S) = CHOOSE x \in S : \A y \in S : x >= y
  BY DEF Max
<1> HIDE DEF S, m
<1>3. Max(S) \in S /\ \A y \in S : Max(S) >= y
  BY <1>1, <1>2
<1>4. Max(S) \in Int /\ m \in Int /\ Max(S) >= m /\ m >= Max(S)
  BY <1>1, <1>3
<1>5. \A i, j \in Int : i >= j /\ j >= i => i = j
  OBVIOUS
<1>6. Max(S) = m
  BY <1>4, <1>5
<1> QED
  BY <1>6 DEF S, m

\* After a rejection the residual has weight, and only where the target has.
LEMMA ResidualIs ==
  ASSUME NEW p, Distribution(p), NEW q, RowOf(q), NEW coin \in 0..(Grid - 1),
         NEW x \in TokenId, q[x] > 0, ~Accepts(coin, p, q, x)
  PROVE  /\ RowOf(Residual(p, q)) /\ Total(Residual(p, q)) > 0
         /\ \A t \in TokenId : Residual(p, q)[t] > 0 => p[t] > 0
<1> DEFINE P == Total(p)
           Q == Total(q)
           vp == [t \in TokenId |-> p[t] * Q]
           vq == [t \in TokenId |-> q[t] * P]
           r == Residual(p, q)
<1>0. RowOf(p) /\ P \in Nat /\ P > 0 /\ Q \in Nat /\ Grid \in Nat
  BY MassType, SamplerAssumption DEF Distribution, SamplerAssumption
<1>1. RowOf(vp) /\ Total(vp) = P * Q /\ RowOf(vq) /\ Total(vq) = Q * P
  <2> HIDE DEF P, Q
  <2> QED
    BY <1>0, MassScaled DEF P, Q
<1>2. Total(vp) = Total(vq)
  <2> HIDE DEF P, Q, vp, vq
  <2> QED
    BY <1>0, <1>1
<1>3. r = [t \in TokenId |-> Max({vp[t] - vq[t], 0})]
  BY DEF Residual
<1>4. vp[x] < vq[x]
  <2> DEFINE a == vq[x]
             b == vp[x]
  <2>1. ~(coin * q[x] * P < p[x] * Q * Grid)
    BY DEF Accepts
  <2>2. p[x] \in Nat /\ q[x] \in Nat /\ coin \in Nat /\ coin < Grid
    BY <1>0 DEF RowOf
  <2>3. a = q[x] * P /\ b = p[x] * Q
    OBVIOUS
  <2> HIDE DEF P, Q, vp, vq
  <2>4. a \in Nat /\ b \in Nat
    BY <1>1 DEF RowOf
  <2> HIDE DEF a, b
  <2>5. a > 0
    BY <1>0, <2>2, <2>3
  <2>6. coin * q[x] * P = coin * a
    BY <1>0, <2>2, <2>3
  <2>7. coin * a \in Nat /\ coin * a + a <= Grid * a /\ Grid * a \in Nat
    BY <1>0, <2>2, <2>4, Products
  <2>8. b * Grid <= coin * a
    <3>1. b * Grid \in Nat
      BY <1>0, <2>4
    <3> QED
      BY <2>1, <2>3, <2>6, <2>7, <3>1
  <2>9. ASSUME a <= b PROVE FALSE
    <3>1. a * Grid <= b * Grid /\ a * Grid \in Nat /\ b * Grid \in Nat
      BY <1>0, <2>4, <2>9, Products
    <3>2. a * Grid = Grid * a
      BY <1>0, <2>4
    <3> DEFINE u == b * Grid
               v == coin * a
               w == Grid * a
    <3>3. u \in Nat /\ v \in Nat /\ w \in Nat /\ w <= u /\ u <= v /\ v + a <= w
      BY <2>7, <2>8, <3>1, <3>2
    <3> HIDE DEF u, v, w
    <3> QED
      BY <2>4, <2>5, <3>3
  <2> QED
    BY <2>4, <2>9 DEF a, b
<1> HIDE DEF vp, vq, P, Q
<1>5. PICK t \in TokenId : vp[t] > vq[t]
  <2> SUFFICES ASSUME \A t \in TokenId : ~(vp[t] > vq[t]) PROVE FALSE
    OBVIOUS
  <2>1. \A t \in TokenId : vp[t] \in Nat /\ vq[t] \in Nat
    BY <1>1 DEF RowOf
  <2>2. \A t \in TokenId : Portion(vp, TokenId, t) <= Portion(vq, TokenId, t)
    BY <2>1 DEF Portion
  <2>3. Portion(vp, TokenId, x) < Portion(vq, TokenId, x)
    BY <1>4 DEF Portion
  <2>4. Mass(vp, TokenId) < Mass(vq, TokenId) /\ Mass(vp, TokenId) \in Nat /\ Mass(vq, TokenId) \in Nat
    BY <1>1, <2>2, <2>3, MassOrder
  <2> QED
    BY <1>2, <2>4 DEF Total
<1>6. \A s \in TokenId : r[s] = IF vp[s] > vq[s] THEN vp[s] - vq[s] ELSE 0
  <2> TAKE s \in TokenId
  <2>1. vp[s] \in Nat /\ vq[s] \in Nat
    BY <1>1 DEF RowOf
  <2> DEFINE d == vp[s] - vq[s]
  <2>2. d \in Int /\ (d > 0 <=> vp[s] > vq[s])
    BY <2>1
  <2>3. r[s] = Max({d, 0})
    BY <1>3
  <2> HIDE DEF r
  <2>4. Max({d, 0}) = IF d > 0 THEN d ELSE 0
    <3> HIDE DEF d
    <3> QED
      BY <2>2, OrZero
  <2> QED
    BY <2>2, <2>3, <2>4
<1> HIDE DEF r
<1>7. RowOf(r)
  BY <1>1, <1>6 DEF RowOf
<1>8. r[t] > 0
  BY <1>1, <1>5, <1>6 DEF RowOf
<1>9. Total(r) > 0
  BY <1>7, <1>8, PositiveMass DEF Total
<1>10. ASSUME NEW s \in TokenId, r[s] > 0 PROVE p[s] > 0
  <2>1. vp[s] > vq[s] /\ vp[s] \in Nat /\ vq[s] \in Nat /\ p[s] \in Nat
    BY <1>0, <1>1, <1>6, <1>10 DEF RowOf
  <2>2. vp[s] = p[s] * Q
    BY DEF vp
  <2>3. ASSUME p[s] = 0 PROVE FALSE
    <3>1. p[s] * Q = 0
      BY <1>0, <2>3
    <3> QED
      BY <2>1, <2>2, <3>1
  <2> QED
    BY <2>1, <2>3
<1> QED
  BY <1>7, <1>9, <1>10 DEF r

\* What is accepted has weight in the target.
LEMMA AcceptedIs ==
  ASSUME NEW p, Distribution(p), NEW q, RowOf(q), NEW coin \in Nat, NEW x \in TokenId, Accepts(coin, p, q, x)
  PROVE  p[x] > 0
<1>1. /\ p[x] \in Nat /\ q[x] \in Nat /\ Total(p) \in Nat /\ Total(q) \in Nat /\ Grid \in Nat
  BY MassType, SamplerAssumption DEF Distribution, RowOf, SamplerAssumption
<1>2. coin * q[x] * Total(p) < p[x] * Total(q) * Grid
  BY DEF Accepts
<1>3. coin * q[x] * Total(p) \in Nat
  <2>1. coin * q[x] \in Nat
    BY <1>1
  <2> QED
    BY <1>1, <2>1
<1>4. ASSUME p[x] = 0 PROVE FALSE
  <2>1. p[x] * Total(q) = 0
    BY <1>1, <1>4
  <2>2. p[x] * Total(q) * Grid = 0
    BY <1>1, <2>1
  <2> QED
    BY <1>2, <1>3, <2>2
<1> QED
  BY <1>1, <1>4

\* A token drawn from a proposal has weight in the q that is handed over.
LEMMA ProposalIs ==
  ASSUME NEW row \in DraftRows, NEW k, NEW tp, NEW truncated \in BOOLEAN,
         NEW d \in DraftProposals(row, k, tp, truncated), NEW x \in TokenId, d.drawn[x] > 0
  PROVE  RowOf(d.q) /\ d.q[x] > 0
<1>0. RowOf(row)
  BY RowAssumption DEF RowAssumption, RowOf
<1>1. \A S : RowOf(Only(row, S)) /\ \A t \in TokenId : Only(row, S)[t] > 0 => row[t] > 0
  BY <1>0 DEF RowOf, Only
<1>2. CASE truncated
  <2>1. PICK S \in TopKRows(row, DraftK) :
          d = [drawn |-> TruncSample(row, S, k, tp), q |-> TruncSample(row, S, k, tp)]
    BY <1>2 DEF DraftProposals
  <2>2. RowOf(TruncSample(row, S, k, tp))
    BY <1>1 DEF TruncSample
  <2> QED
    BY <2>1, <2>2
<1>3. CASE ~truncated
  <2>1. d = [drawn |-> IF k <= 1 THEN Only(row, Greedy(row)) ELSE row, q |-> row]
    BY <1>3 DEF DraftProposals
  <2>2. CASE k <= 1
    BY <1>0, <1>1, <2>1, <2>2
  <2>3. CASE ~(k <= 1)
    BY <1>0, <2>1, <2>3
  <2> QED
    BY <2>2, <2>3
<1> QED
  BY <1>2, <1>3

\* Targets, proposals and coins of the nodes of a chain.
Fair(d, ps, qs, xs, coins) ==
  /\ d \in Nat \ {0} /\ Len(ps) = d /\ \A i \in 1..d : Distribution(ps[i])
  /\ xs \in [1..(d - 1) -> TokenId]
  /\ \A i \in 1..(d - 1) : RowOf(qs[i]) /\ qs[i][xs[i]] > 0
  /\ \A i \in 1..d : coins[i] \in 0..(Grid - 1)

\* Every token a chain emits has weight in the target of its position.
LEMMA ChainPositive ==
  ASSUME NEW d, NEW ps, NEW qs, NEW xs, NEW coins, Fair(d, ps, qs, xs, coins),
         NEW e, e = ChainSample(ps, qs, xs, coins)
  PROVE  \A i \in DOMAIN e : ps[i][e[i]] > 0
<1>0. /\ d \in Nat \ {0} /\ Len(ps) = d /\ (\A i \in 1..d : Distribution(ps[i]))
      /\ xs \in [1..(d - 1) -> TokenId]
      /\ \A i \in 1..(d - 1) : RowOf(qs[i]) /\ qs[i][xs[i]] > 0
      /\ \A i \in 1..d : coins[i] \in 0..(Grid - 1)
  BY DEF Fair
<1> DEFINE l == Len(e)
<1>1. /\ e \in Seq(TokenId) /\ l \in 1..d
      /\ \A j \in 1..(l - 1) : e[j] = xs[j] /\ Accepts(coins[j], ps[j], qs[j], xs[j])
      /\ l < d => ~Accepts(coins[l], ps[l], qs[l], xs[l])
      /\ e[l] = Final(IF l < d THEN Residual(ps[l], qs[l]) ELSE ps[d], coins[d])
  <2>1. /\ d \in Nat \ {0} /\ Len(ps) = d /\ xs \in [1..(d - 1) -> TokenId]
        /\ e = ChainSample(ps, qs, xs, coins)
    BY <1>0
  <2> QED
    BY ONLY <2>1, ChainEmits
<1> HIDE DEF l
<1>2. ASSUME NEW i \in 1..(l - 1) PROVE ps[i][e[i]] > 0
  <2>1. i \in 1..(d - 1) /\ i \in 1..d
    BY <1>0, <1>1
  <2>2. Distribution(ps[i]) /\ RowOf(qs[i]) /\ coins[i] \in Nat /\ xs[i] \in TokenId
    BY <1>0, <2>1
  <2>3. e[i] = xs[i] /\ Accepts(coins[i], ps[i], qs[i], xs[i])
    BY <1>1
  <2> QED
    BY <2>2, <2>3, AcceptedIs
<1>3. ps[l][e[l]] > 0
  <2>0. d \in 1..d /\ coins[d] \in 0..(Grid - 1) /\ l \in 1..d
    BY <1>0, <1>1
  <2>1. CASE l < d
    <3>1. l \in 1..(d - 1)
      BY <1>0, <1>1, <2>1
    <3>2. /\ Distribution(ps[l]) /\ RowOf(qs[l]) /\ coins[l] \in 0..(Grid - 1) /\ xs[l] \in TokenId
          /\ qs[l][xs[l]] > 0 /\ ~Accepts(coins[l], ps[l], qs[l], xs[l])
      BY <1>0, <1>1, <2>0, <2>1, <3>1
    <3> DEFINE r == Residual(ps[l], qs[l])
    <3>3. RowOf(r) /\ Total(r) > 0 /\ \A t \in TokenId : r[t] > 0 => ps[l][t] > 0
      BY <3>2, ResidualIs
    <3> HIDE DEF r
    <3>4. r[Final(r, coins[d])] > 0 /\ Final(r, coins[d]) \in TokenId
      BY <2>0, <3>3, FinalPasses, FinalIs
    <3>5. e[l] = Final(r, coins[d])
      BY <1>1, <2>1 DEF r
    <3> QED
      BY <3>3, <3>4, <3>5
  <2>2. CASE ~(l < d)
    <3>1. l = d
      BY <1>0, <1>1, <2>2
    <3>2. RowOf(ps[d]) /\ Total(ps[d]) > 0
      BY <1>0, <2>0 DEF Distribution
    <3>3. ps[d][Final(ps[d], coins[d])] > 0
      BY <2>0, <3>2, FinalPasses
    <3> QED
      BY <1>1, <3>1, <3>3
  <2> QED
    BY <2>1, <2>2
<1>4. DOMAIN e = 1..l
  BY <1>1 DEF l
<1>5. \A i \in DOMAIN e : i \in 1..(l - 1) \/ i = l
  BY <1>0, <1>1, <1>4
<1> QED
  BY <1>2, <1>3, <1>5

\* A hash of 1 is clamped to the last coin.
LEMMA CoinIs ==
  ASSUME NEW h \in 0..Grid
  PROVE  Coin(h) = (IF h = Grid THEN Grid - 1 ELSE h) /\ Coin(h) \in 0..(Grid - 1)
<1> DEFINE S == {h, Grid - 1}
           m == IF h = Grid THEN Grid - 1 ELSE h
<1>0. Grid \in Nat \ {0}
  BY SamplerAssumption DEF SamplerAssumption
<1>1. m \in S /\ (\A y \in S : m <= y) /\ S \in SUBSET Nat /\ m \in 0..(Grid - 1) /\ S # {}
  BY <1>0
<1>2. Coin(h) = Min(S)
  BY DEF Coin
<1> HIDE DEF S, m
<1>3. Min(S) \in S /\ \A y \in S : Min(S) <= y
  BY <1>1, LeastIs DEF LeastOr
<1>4. Min(S) \in Nat /\ m \in Nat /\ Min(S) <= m /\ m <= Min(S)
  BY <1>1, <1>3
<1>5. \A i, j \in Nat : i <= j /\ j <= i => i = j
  OBVIOUS
<1>6. Min(S) = m
  BY <1>4, <1>5
<1> QED
  BY <1>1, <1>2, <1>6 DEF m

\* What sampling says of a round in which a chain was verified.
LEMMA SampledExact ==
  ASSUME TiesFit, Config, server.sampling, NEW nodes, ChainOf(tree, nodes), SampledBy(nodes, result)
  PROVE  SampleExact
<1> DEFINE d == tree.plan.nd
           param == tree.rows.param
           qs == [i \in 1..(d - 1) |-> tree.rows.qs[i].q]
           xs == nodes[1].token
           e == Emission(0)
<1>0. PICK ask \in Params :
        \E qq, xx : Proposed(tree.plan, ask, qq, xx) /\ tree.rows = [param |-> ask, qs |-> qq] /\ xs = xx
  BY DEF ChainOf
<1>1. PICK qq, xx :
        Proposed(tree.plan, ask, qq, xx) /\ tree.rows = [param |-> ask, qs |-> qq] /\ xs = xx
  BY <1>0
<1>2. /\ tree.plan \in server.plans /\ d \in Nat \ {0} /\ d - 1 = tree.plan.steps
      /\ server.truncated \in BOOLEAN /\ tree.n = 1
  <2>1. tree.plan \in server.plans /\ tree.n = 1
    BY DEF ChainOf, Handed
  <2>2. server \in ServerType
    BY TreeAssumption DEF TreeAssumption, Config
  <2>3. server.truncated \in BOOLEAN
    BY <2>2 DEF ServerType
  <2> QED
    BY <2>1, <2>3, ConfigIs
<1>3. /\ param \in Params /\ xs \in [1..(d - 1) -> TokenId]
      /\ \A i \in 1..(d - 1) :
           /\ \E row \in DraftRows :
                tree.rows.qs[i] \in DraftProposals(row, param.k, param.tp, server.truncated)
           /\ tree.rows.qs[i].drawn[xs[i]] > 0
  BY <1>1, <1>2 DEF Proposed
<1>4. PICK rows \in Seqs(TargetRows, d), hashes \in Seqs(Hashes, d), other \in Params :
        \E ps \in Seqs(UNION Range(SparseRows(rows, other)), d) :
          /\ \A i \in 1..d : ps[i] \in SparseRows(rows, other)[i]
          /\ EmittedBy(rows, hashes, ps, nodes, EmissionOf(result, 0))
          /\ result.asked = [rows |-> rows, hashes |-> hashes]
  BY DEF SampledBy
<1>5. PICK ps \in Seqs(UNION Range(SparseRows(rows, other)), d) :
          /\ \A i \in 1..d : ps[i] \in SparseRows(rows, other)[i]
          /\ EmittedBy(rows, hashes, ps, nodes, EmissionOf(result, 0))
          /\ result.asked = [rows |-> rows, hashes |-> hashes]
  BY <1>4
<1> DEFINE coins == [i \in 1..d |-> Coin(hashes[i])]
           dense == [i \in 1..d |-> Target(rows[i], TokenId, param.k, param.tp)]
           clamped == [i \in 1..d |-> IF hashes[i] = Grid THEN Grid - 1 ELSE hashes[i]]
           words == [i \in 1..(d - 1) |-> tree.tokens[i][1]]
<1>6. e = ChainSample(ps, qs, [i \in 1..(d - 1) |-> xs[i]], coins)
  BY <1>5 DEF EmittedBy, Emission, EmissionOf
<1>7. \A i \in 1..d : rows[i] \in TargetRows /\ hashes[i] \in 0..Grid
  BY <1>4, TreeAssumption DEF Seqs, TreeAssumption
<1>8. ps = dense
  <2>1. ps = [i \in 1..d |-> ps[i]]
    BY DEF Seqs
  <2>2. ASSUME NEW i \in 1..d PROVE ps[i] = Target(rows[i], TokenId, param.k, param.tp)
    <3>1. ps[i] \in SparseTargets(rows[i], {param.k, other.k}, param.k, param.tp)
      BY <1>5 DEF SparseRows
    <3> HIDE DEF param
    <3> QED
      BY <1>3, <1>7, <3>1, SparseIsDense
  <2> QED
    BY <2>1, <2>2
<1>9. coins = clamped /\ \A i \in 1..d : coins[i] \in 0..(Grid - 1)
  BY <1>7, CoinIs
<1>10. words = xs /\ [i \in 1..(d - 1) |-> xs[i]] = xs
  <2>1. ASSUME NEW i \in 1..(d - 1) PROVE tree.tokens[i] = <<xs[i]>>
    <3>1. 0 \in Request(tree.n) /\ i \in Node(tree.plan) /\ i # 0 /\ 0 * d + i = i /\ 0 + 1 = 1
      BY <1>2 DEF Request, Node
    <3>2. NodeAt(tree, nodes[0 + 1], 0, i, 0 * d + i)
      BY <3>1 DEF ChainOf, Handed
    <3> QED
      BY <3>1, <3>2 DEF NodeAt
  <2>2. xs = [i \in 1..(d - 1) |-> xs[i]]
    BY <1>3
  <2>3. \A i \in 1..(d - 1) : words[i] = xs[i]
    BY <2>1
  <2> QED
    BY <2>2, <2>3
<1>11. Fair(d, ps, qs, xs, coins)
  <2>1. \A i \in 1..d : Distribution(ps[i])
    <3> HIDE DEF param
    <3> QED
      BY <1>3, <1>7, <1>8, TargetIs
  <2>2. Len(ps) = d
    BY <1>2, <1>8
  <2>3. ASSUME NEW i \in 1..(d - 1) PROVE RowOf(qs[i]) /\ qs[i][xs[i]] > 0
    <3>1. PICK row \in DraftRows :
            tree.rows.qs[i] \in DraftProposals(row, param.k, param.tp, server.truncated)
      BY <1>3
    <3>2. tree.rows.qs[i].drawn[xs[i]] > 0 /\ xs[i] \in TokenId
      BY <1>3
    <3>3. RowOf(tree.rows.qs[i].q) /\ tree.rows.qs[i].q[xs[i]] > 0
      BY <1>2, <3>1, <3>2, ProposalIs
    <3> QED
      BY <3>3
  <2> HIDE DEF qs, xs, coins
  <2> QED
    BY <1>2, <1>3, <1>9, <2>1, <2>2, <2>3 DEF Fair
<1>12. e = ChainSample(dense, qs, words, clamped) /\ \A i \in DOMAIN e : dense[i][e[i]] > 0
  <2>1. e = ChainSample(ps, qs, xs, coins)
    BY <1>6, <1>10
  <2>2. \A i \in DOMAIN e : ps[i][e[i]] > 0
    <3> HIDE DEF qs, xs, coins, e, d
    <3> QED
      BY <1>11, <2>1, ChainPositive
  <2> QED
    BY <1>8, <1>9, <1>10, <2>1, <2>2
<1>13. result.asked.rows = rows /\ result.asked.hashes = hashes
  BY <1>5
<1> QED
  BY <1>12, <1>13 DEF SampleExact

\* Sampling on the top candidates alone emits, coin for coin, what the dense
\* form emits, and no token that the request's top-k and top-p exclude.  That
\* the candidates have room for the ties is needed: see TiesFit.
THEOREM SampleIsExact == ASSUME TiesFit PROVE TreeSpec => []SampleExact
<1>1. ASSUME TiesFit, TreeInv PROVE SampleExact
  <2>1. CASE phase = "extend" /\ server.sampling
    <3>1. PICK nodes : ChainOf(tree, nodes) /\ SampledBy(nodes, result)
      BY <1>1, <2>1 DEF TreeInv
    <3> QED
      BY <1>1, <2>1, <3>1, SampledExact DEF TreeInv
  <2>2. CASE ~(phase = "extend" /\ server.sampling)
    BY <2>2 DEF SampleExact
  <2> QED
    BY <2>1, <2>2
<1>2. TreeInv => SampleExact
  BY <1>1
<1> QED
  BY <1>2, TreesHold, PTL

-----------------------------------------------------------------------------
(* The law of what is emitted                                                *)

CoinSet == 0..(Grid - 1)

\* If a divides g, the quotient is the number of multiples below it.
LEMMA Quotient ==
  ASSUME NEW g \in Nat, NEW a \in Nat \ {0}, g % a = 0
  PROVE  g \div a \in Nat /\ (g \div a) * a = g
<1>1. g \div a \in Nat /\ g % a \in Nat /\ g = (g \div a) * a + (g % a)
  BY Divides
<1> DEFINE m == g \div a
<1>2. m \in Nat /\ g = m * a + 0
  BY <1>1
<1> HIDE DEF m
<1>3. m * a \in Nat
  BY <1>2
<1> QED
  BY <1>2, <1>3 DEF m

LEMMA Below ==
  ASSUME NEW a \in Nat \ {0}, NEW c \in Nat, NEW m \in Nat
  PROVE  c * a < m * a <=> c < m
<1>1. ASSUME c < m PROVE c * a < m * a
  <2>1. c * a + a <= m * a /\ c * a \in Nat /\ m * a \in Nat
    BY <1>1, Products
  <2> DEFINE u == c * a
             v == m * a
  <2>2. u \in Nat /\ v \in Nat /\ u + a <= v
    BY <2>1
  <2> HIDE DEF u, v
  <2>3. u < v
    BY <2>2
  <2> QED
    BY <2>3 DEF u, v
<1>2. ASSUME m <= c PROVE m * a <= c * a /\ c * a \in Nat /\ m * a \in Nat
  BY <1>2, Products
<1>3. c * a \in Nat /\ m * a \in Nat
  OBVIOUS
<1> QED
  BY <1>1, <1>2, <1>3

\* Coins that accept: as many as the odds say.
LEMMA AcceptedCount ==
  ASSUME NEW p, Distribution(p), NEW q, RowOf(q), EvenOdds(p, q), NEW x \in TokenId,
         NEW n, n = Cardinality({c \in CoinSet : Accepts(c, p, q, x)}),
         NEW a, a = q[x] * Total(p), NEW b, b = p[x] * Total(q)
  PROVE  /\ n \in Nat /\ n <= Grid /\ a \in Nat /\ b \in Nat
         /\ n * a = (IF a <= b THEN a ELSE b) * Grid
<1> DEFINE C == {c \in CoinSet : Accepts(c, p, q, x)}
<1>0. /\ Grid \in Nat \ {0} /\ Total(p) \in Nat /\ Total(p) > 0 /\ Total(q) \in Nat
      /\ q[x] \in Nat /\ p[x] \in Nat
  BY MassType, SamplerAssumption DEF Distribution, RowOf, SamplerAssumption
<1>1. a \in Nat /\ b \in Nat
  BY <1>0
<1>2. IsFiniteSet(CoinSet) /\ Cardinality(CoinSet) = Grid
  <2>1. IsFiniteSet(0..(Grid - 1)) /\ Cardinality(0..(Grid - 1)) = IF 0 > Grid - 1 THEN 0 ELSE Grid - 1 - 0 + 1
    <3>1. 0 \in Int /\ Grid - 1 \in Int
      BY <1>0
    <3> QED
      BY ONLY <3>1, FS_Interval
  <2> QED
    BY <1>0, <2>1 DEF CoinSet
<1>3. n \in Nat /\ n <= Grid
  <2>1. C \subseteq CoinSet
    OBVIOUS
  <2> HIDE DEF C
  <2>2. Cardinality(C) \in Nat /\ Cardinality(C) <= Grid
    BY <1>2, <2>1, PartOf
  <2> QED
    BY <2>2 DEF C
<1>4. \A c \in CoinSet : c \in C <=> c * a < b * Grid
  <2> TAKE c \in CoinSet
  <2>1. c \in Nat
    BY <1>0 DEF CoinSet
  <2>2. c * q[x] * Total(p) = c * a
    BY <1>0, <2>1
  <2> QED
    BY <2>2 DEF Accepts
<1>5. CASE a = 0
  <2>1. n * a = 0 /\ 0 * Grid = 0
    BY <1>0, <1>3, <1>5
  <2> QED
    BY <1>1, <1>3, <1>5, <2>1
<1>6. CASE a # 0 /\ a <= b
  <2>1. ASSUME NEW c \in CoinSet PROVE c \in C
    <3>1. c \in Nat /\ c < Grid
      BY <1>0 DEF CoinSet
    <3>2. c * a < Grid * a
      BY <1>0, <1>1, <1>6, <3>1, Below
    <3>3. a * Grid <= b * Grid /\ a * Grid \in Nat /\ b * Grid \in Nat
      BY <1>0, <1>1, <1>6, Products
    <3>4. Grid * a = a * Grid /\ c * a \in Nat
      BY <1>0, <1>1, <3>1
    <3> DEFINE u == c * a
               v == a * Grid
               w == b * Grid
    <3>5. u \in Nat /\ v \in Nat /\ w \in Nat /\ u < v /\ v <= w
      BY <3>2, <3>3, <3>4
    <3> HIDE DEF u, v, w
    <3>6. u < w
      BY <3>5
    <3> QED
      BY <1>4, <3>6 DEF u, w
  <2>2. C = CoinSet
    BY <2>1
  <2>3. n = Grid
    BY <1>2, <2>2
  <2>4. Grid * a = a * Grid
    BY <1>0, <1>1
  <2> QED
    BY <1>1, <1>3, <1>6, <2>3, <2>4
<1>7. CASE a # 0 /\ ~(a <= b)
  <2> DEFINE g == b * Grid
             m == g \div a
  <2>1. g \in Nat /\ b < a /\ a \in Nat \ {0}
    BY <1>0, <1>1, <1>7
  <2>2. g % a = 0
    BY <2>1 DEF EvenOdds
  <2>3. m \in Nat /\ m * a = g
    <3> HIDE DEF g
    <3> QED
      BY <2>1, <2>2, Quotient
  <2> HIDE DEF m
  <2>4. ASSUME m > Grid PROVE FALSE
    <3>1. Grid * a < m * a
      BY <1>0, <2>1, <2>3, <2>4, Below
    <3>2. b * Grid < a * Grid
      BY <1>0, <1>1, <2>1, Below
    <3>3. Grid * a = a * Grid /\ a * Grid \in Nat
      BY <1>0, <2>1
    <3> DEFINE u == a * Grid
    <3>4. u \in Nat /\ u < g /\ g < u
      BY <2>3, <3>1, <3>2, <3>3
    <3> HIDE DEF u, g
    <3> QED
      BY <2>1, <3>4
  <2>5. C = 0..(m - 1)
    <3>1. ASSUME NEW c \in CoinSet PROVE c \in C <=> c < m
      <4>1. c \in Nat
        BY <1>0 DEF CoinSet
      <4>2. c * a < m * a <=> c < m
        BY <2>1, <2>3, <4>1, Below
      <4> QED
        BY <1>4, <2>3, <4>2
    <3>2. 0..(m - 1) \subseteq CoinSet
      BY <1>0, <2>3, <2>4 DEF CoinSet
    <3>3. C \subseteq CoinSet /\ CoinSet \subseteq Nat
      BY <1>0 DEF CoinSet
    <3> HIDE DEF C, g
    <3>4. \A c \in Nat : c < m <=> c \in 0..(m - 1)
      BY ONLY <2>3
    <3> QED
      BY ONLY <3>1, <3>2, <3>3, <3>4
  <2>6. n = m
    <3>1. Cardinality(0..(m - 1)) = IF 0 > m - 1 THEN 0 ELSE m - 1 - 0 + 1
      BY <2>3, FS_Interval
    <3>2. n = Cardinality(C)
      OBVIOUS
    <3> HIDE DEF C
    <3> QED
      BY <2>3, <2>5, <3>1, <3>2
  <2> QED
    BY <1>1, <1>3, <1>7, <2>3, <2>6
<1> QED
  BY <1>5, <1>6, <1>7

\* The mass of the first tokens is what the running sum says.
LEMMA PrefixMass ==
  ASSUME NEW w, RowOf(w), NEW f, SumOf(w, TokenId, f), NEW t \in TokenId
  PROVE  Mass(w, 0..t) = f[t + 1]
<1>0. Vocab \in Nat \ {0} /\ TokenId = 0..(Vocab - 1) /\ t \in Nat
  BY SamplerAssumption DEF SamplerAssumption, TokenId
<1>1. PICK g : SumOf(w, 0..t, g) /\ Mass(w, 0..t) = g[Vocab]
  BY MassIs
<1> DEFINE T == {n \in 0..Vocab : g[n] = f[IF n <= t + 1 THEN n ELSE t + 1]}
<1>2. T \in SUBSET (0..Vocab) /\ 0 \in T
  BY <1>0, <1>1 DEF SumOf
<1>3. ASSUME NEW n \in 0..(Vocab - 1), n \in T PROVE n + 1 \in T
  <2>1. n \in TokenId /\ n \in Nat /\ n + 1 \in 0..Vocab
    BY <1>0
  <2>2. g[n + 1] = g[n] + Portion(w, 0..t, n) /\ f[n + 1] = f[n] + w[n] /\ f[n] \in Nat
    <3>1. g[n + 1] = g[n] + Portion(w, 0..t, n)
      BY <1>1 DEF SumOf
    <3>2. f[n + 1] = f[n] + Portion(w, TokenId, n) /\ f[n] \in Nat
      <4>1. n \in 0..Vocab
        BY <1>0
      <4> QED
        BY <4>1 DEF SumOf
    <3>3. Portion(w, TokenId, n) = w[n]
      BY <2>1 DEF Portion
    <3> QED
      BY <3>1, <3>2, <3>3
  <2>3. CASE n <= t
    <3>1. Portion(w, 0..t, n) = w[n] /\ n <= t + 1 /\ n + 1 <= t + 1
      BY <1>0, <2>1, <2>3 DEF Portion
    <3>2. g[n] = f[n]
      BY <1>3, <3>1
    <3>3. g[n + 1] = f[n + 1]
      BY <2>2, <3>1, <3>2
    <3> QED
      BY <2>1, <3>1, <3>3
  <2>4. CASE ~(n <= t)
    <3>1. Portion(w, 0..t, n) = 0 /\ ~(n + 1 <= t + 1) /\ (IF n <= t + 1 THEN n ELSE t + 1) = t + 1
      BY <1>0, <2>1, <2>4 DEF Portion
    <3>2. g[n] = f[t + 1]
      BY <1>3, <3>1
    <3>3. t + 1 \in 0..Vocab
      BY <1>0
    <3>4. f[t + 1] \in Nat
      BY <3>3 DEF SumOf
    <3>5. g[n + 1] = f[t + 1]
      BY <2>2, <3>1, <3>2, <3>4
    <3> QED
      BY <2>1, <3>1, <3>5
  <2> QED
    BY <2>3, <2>4
<1>4. Vocab \in T
  <2>1. Vocab \in Nat /\ Vocab \in 0..Vocab
    BY <1>0
  <2>2. \A n \in 0..(Vocab - 1) : n \in T => n + 1 \in T
    BY <1>3
  <2> HIDE DEF T
  <2>3. \A n \in 0..Vocab : n \in T
    BY ONLY <2>1, <2>2, <1>2, Upward
  <2> QED
    BY <2>1, <2>3
<1>5. t + 1 <= Vocab
  BY <1>0
<1>6. g[Vocab] = f[t + 1]
  <2>1. CASE Vocab = t + 1
    BY <1>4, <2>1
  <2>2. CASE Vocab # t + 1
    <3>1. ~(Vocab <= t + 1)
      BY <1>0, <1>5, <2>2
    <3> QED
      BY <1>4, <3>1
  <2> QED
    BY <2>1, <2>2
<1> QED
  BY <1>1, <1>6

\* The coins a running sum of weights reaches, when they come out whole.
Reach(w, f, e) ==
  /\ RowOf(w) /\ SumOf(w, TokenId, f) /\ Total(w) = f[Vocab] /\ Total(w) > 0
  /\ e \in [0..Vocab -> Nat] /\ e[0] = 0 /\ e[Vocab] = Grid
  /\ \A n \in 0..Vocab : e[n] * Total(w) = f[n] * Grid
  /\ \A n \in TokenId : e[n] <= e[n + 1] /\ (e[n] < e[n + 1] => w[n] > 0)

LEMMA ReachExists ==
  ASSUME NEW w, RowOf(w), Total(w) > 0, \A y \in TokenId : (w[y] * Grid) % Total(w) = 0
  PROVE  \E f, e : Reach(w, f, e)
<1>0. Vocab \in Nat \ {0} /\ TokenId = 0..(Vocab - 1) /\ Grid \in Nat \ {0} /\ Total(w) \in Nat \ {0}
  BY MassType, SamplerAssumption DEF SamplerAssumption, TokenId
<1>1. PICK f : SumOf(w, TokenId, f) /\ Total(w) = f[Vocab]
  BY MassIs DEF Total
<1> DEFINE total == Total(w)
           e == [n \in 0..Vocab |-> (f[n] * Grid) \div total]
<1>2. \A n \in 0..Vocab : f[n] \in Nat
  BY <1>1 DEF SumOf
<1>3. \A n \in TokenId : f[n + 1] = f[n] + w[n] /\ w[n] \in Nat /\ n \in 0..Vocab /\ n + 1 \in 0..Vocab
  BY <1>0, <1>1 DEF SumOf, Portion, RowOf
<1> HIDE DEF total
<1>10. total \in Nat \ {0} /\ total = Total(w)
  BY <1>0 DEF total
<1>4. \A n \in 0..Vocab : e[n] \in Nat /\ e[n] * total = f[n] * Grid
  <2> DEFINE T == {n \in 0..Vocab : e[n] \in Nat /\ e[n] * total = f[n] * Grid}
  <2>1. T \in SUBSET (0..Vocab) /\ 0 \in T
    <3>1. f[0] = 0 /\ 0 \in 0..Vocab /\ 0 * Grid = 0
      BY <1>0, <1>1 DEF SumOf
    <3>2. e[0] = 0 \div total
      BY <3>1
    <3>3. 0 % total = 0
      <4>1. (0 * total + 0) % total = 0 /\ 0 * total + 0 = 0
        BY <1>10, Divided
      <4> QED
        BY <4>1
    <3>4. e[0] \in Nat /\ e[0] * total = 0
      <4>1. 0 \in Nat
        OBVIOUS
      <4>2. 0 \div total \in Nat /\ (0 \div total) * total = 0
        BY <1>10, <3>3, <4>1, Quotient
      <4> HIDE DEF e
      <4> QED
        BY <3>2, <4>2
    <3> QED
      BY <3>1, <3>4
  <2>2. ASSUME NEW n \in 0..(Vocab - 1), n \in T PROVE n + 1 \in T
    <3>1. n \in TokenId
      BY <1>0
    <3> DEFINE g == w[n] * Grid
               m == g \div total
               h == f[n + 1] * Grid
    <3>2. g \in Nat /\ g % total = 0
      <4>1. w[n] \in Nat /\ (w[n] * Grid) % Total(w) = 0
        BY <1>3, <3>1
      <4> QED
        BY <1>0, <1>10, <4>1
    <3>3. m \in Nat /\ m * total = g
      <4> HIDE DEF g
      <4> QED
        BY <1>10, <3>2, Quotient
    <3> HIDE DEF m
    <3>4. e[n] \in Nat /\ e[n] * total = f[n] * Grid
      BY <2>2
    <3>5. h = f[n] * Grid + w[n] * Grid
      <4>1. f[n] \in Nat /\ w[n] \in Nat /\ f[n + 1] = f[n] + w[n]
        BY <1>2, <1>3, <3>1
      <4>2. \A a, b, c \in Nat : (a + b) * c = a * c + b * c
        OBVIOUS
      <4>3. (f[n] + w[n]) * Grid = f[n] * Grid + w[n] * Grid
        BY <1>0, <4>1, <4>2
      <4> QED
        BY <4>1, <4>3
    <3> DEFINE k == e[n] + m
    <3>6. k \in Nat /\ k * total = h
      <4>1. \A a, b, c \in Nat : (a + b) * c = a * c + b * c /\ a + b \in Nat
        OBVIOUS
      <4>2. e[n] \in Nat
        BY <3>4
      <4> HIDE DEF e, h
      <4>3. (e[n] + m) * total = e[n] * total + m * total /\ e[n] + m \in Nat
        BY <1>10, <3>3, <4>1, <4>2
      <4> QED
        BY <3>3, <3>4, <3>5, <4>3
    <3> HIDE DEF k
    <3>7. h \div total = k
      <4>1. 0 \in 0..(total - 1)
        BY <1>10
      <4>2. (k * total + 0) \div total = k
        BY <1>10, <3>6, <4>1, Divided
      <4>3. k * total + 0 = k * total
        <5>1. k * total \in Nat
          BY <1>10, <3>6
        <5> QED
          BY <5>1
      <4> QED
        BY <3>6, <4>2, <4>3
    <3>8. n + 1 \in 0..Vocab
      BY <1>0
    <3>9. e[n + 1] = h \div total
      BY <3>8
    <3> HIDE DEF h, e
    <3>10. e[n + 1] \in Nat /\ e[n + 1] * total = h
      BY <3>6, <3>7, <3>9
    <3> QED
      BY <3>8, <3>10 DEF h
  <2>3. \A n \in 0..(Vocab - 1) : n \in T => n + 1 \in T
    BY <2>2
  <2>4. Vocab \in Nat
    BY <1>0
  <2>5. \A n \in 0..Vocab : n \in T
    <3> HIDE DEF T
    <3> QED
      BY ONLY <2>1, <2>3, <2>4, Upward
  <2> QED
    BY <2>5
<1>5. e \in [0..Vocab -> Nat]
  <2>1. e = [n \in 0..Vocab |-> e[n]]
    OBVIOUS
  <2> HIDE DEF e
  <2> QED
    BY <1>4, <2>1
<1> HIDE DEF e
<1>6. \A a, b \in Nat : a * total = b * total => a = b
  <2> TAKE a, b \in Nat
  <2>1. ASSUME a * total = b * total, a < b PROVE FALSE
    <3>1. a * total < b * total /\ a * total \in Nat /\ b * total \in Nat
      BY <1>10, <2>1, Below
    <3> QED
      BY <2>1, <3>1
  <2>2. ASSUME a * total = b * total, b < a PROVE FALSE
    <3>1. b * total < a * total /\ a * total \in Nat /\ b * total \in Nat
      BY <1>10, <2>2, Below
    <3> QED
      BY <2>2, <3>1
  <2> QED
    BY <2>1, <2>2
<1>7. e[0] = 0
  <2>1. e[0] \in Nat /\ e[0] * total = f[0] * Grid
    BY <1>0, <1>4
  <2>2. f[0] * Grid = 0 /\ 0 * total = 0
    BY <1>0, <1>1, <1>10 DEF SumOf
  <2>3. e[0] * total = 0 * total
    BY <2>1, <2>2
  <2> QED
    BY <1>6, <2>1, <2>3
<1>8. e[Vocab] = Grid
  <2>1. e[Vocab] \in Nat /\ e[Vocab] * total = f[Vocab] * Grid
    BY <1>0, <1>4
  <2>2. f[Vocab] * Grid = Grid * total
    BY <1>0, <1>1, <1>10
  <2> QED
    BY <1>0, <1>6, <2>1, <2>2
<1>9. ASSUME NEW n \in TokenId PROVE e[n] <= e[n + 1] /\ (e[n] < e[n + 1] => w[n] > 0)
  <2>1. e[n] \in Nat /\ e[n + 1] \in Nat /\ e[n] * total = f[n] * Grid /\ e[n + 1] * total = f[n + 1] * Grid
    BY <1>3, <1>4
  <2>2. f[n] \in Nat /\ f[n + 1] \in Nat /\ f[n] <= f[n + 1] /\ f[n + 1] = f[n] + w[n] /\ w[n] \in Nat
    BY <1>2, <1>3
  <2>3. f[n] * Grid <= f[n + 1] * Grid
    BY <1>0, <2>2, Products
  <2>4. ASSUME e[n + 1] < e[n] PROVE FALSE
    <3>1. e[n + 1] * total < e[n] * total /\ e[n + 1] * total \in Nat /\ e[n] * total \in Nat
      BY <1>10, <2>1, <2>4, Below
    <3> QED
      BY <2>1, <2>3, <3>1
  <2>5. ASSUME w[n] = 0 PROVE e[n] = e[n + 1]
    <3>1. f[n + 1] = f[n]
      BY <2>2, <2>5
    <3> QED
      BY <1>6, <2>1, <3>1
  <2> QED
    BY <2>1, <2>2, <2>4, <2>5
<1> QED
  BY <1>0, <1>1, <1>4, <1>5, <1>7, <1>8, <1>9, <1>10 DEF Reach

\* The token at which the running sum passes a coin is the one it draws.
LEMMA FinalAt ==
  ASSUME NEW w, NEW f, NEW e, Reach(w, f, e), NEW t \in TokenId, NEW c \in CoinSet, e[t] <= c, c < e[t + 1]
  PROVE  Final(w, c) = t
<1> DEFINE total == Total(w)
           passed == {s \in TokenId : w[s] > 0 /\ Mass(w, 0..s) * Grid > c * Total(w)}
<1>0. Vocab \in Nat \ {0} /\ TokenId = 0..(Vocab - 1) /\ Grid \in Nat \ {0} /\ c \in Nat
  BY SamplerAssumption DEF SamplerAssumption, TokenId, CoinSet
<1>1. total \in Nat \ {0}
  BY MassType DEF Reach
<1>2. ASSUME NEW s \in TokenId PROVE s \in passed <=> w[s] > 0 /\ c < e[s + 1]
  <2>1. s \in Nat /\ s + 1 \in 0..Vocab
    BY <1>0
  <2>2. Mass(w, 0..s) = f[s + 1]
    BY PrefixMass DEF Reach
  <2>3. e[s + 1] \in Nat /\ e[s + 1] * total = f[s + 1] * Grid
    BY <2>1 DEF Reach
  <2>4. Mass(w, 0..s) * Grid = e[s + 1] * total
    BY <2>2, <2>3
  <2>5. c * total < e[s + 1] * total <=> c < e[s + 1]
    BY <1>0, <1>1, <2>3, Below
  <2>6. c * total \in Nat /\ e[s + 1] * total \in Nat
    BY <1>0, <1>1, <2>3
  <2> DEFINE u == c * total
             v == e[s + 1] * total
             m == Mass(w, 0..s) * Grid
  <2>7. m = v /\ u \in Nat /\ v \in Nat /\ (u < v <=> c < e[s + 1])
    BY <2>4, <2>5, <2>6
  <2>8. s \in passed <=> w[s] > 0 /\ m > u
    OBVIOUS
  <2> HIDE DEF passed, u, v, m
  <2> QED
    BY <2>7, <2>8
<1>3. \A n \in 0..Vocab : e[n] \in Nat
  BY DEF Reach
<1>4. t \in Nat /\ t \in 0..Vocab /\ t + 1 \in 0..Vocab
  BY <1>0
<1>5. t \in passed
  <2>1. e[t] < e[t + 1]
    BY <1>0, <1>3, <1>4
  <2>2. w[t] > 0
    BY <2>1 DEF Reach
  <2> HIDE DEF passed
  <2> QED
    BY <1>2, <2>2
\* The coins reached rise with the token.
<1>6. \A n \in 0..t : e[n] <= e[t]
  <2> DEFINE T == {n \in 0..t : e[t - n] <= e[t]}
  <2>1. T \in SUBSET (0..t) /\ 0 \in T
    BY <1>3, <1>4
  <2>2. ASSUME NEW n \in 0..(t - 1), n \in T PROVE n + 1 \in T
    <3> DEFINE k == t - (n + 1)
    <3>1. k \in TokenId /\ k + 1 = t - n /\ k \in 0..Vocab /\ k + 1 \in 0..Vocab /\ n + 1 \in 0..t
      BY <1>0, <1>4
    <3> HIDE DEF k
    <3>2. e[k] <= e[k + 1] /\ e[k] \in Nat /\ e[k + 1] \in Nat /\ e[t] \in Nat
      BY <1>3, <1>4, <3>1 DEF Reach
    <3>3. e[k + 1] <= e[t]
      BY <2>2, <3>1
    <3>4. e[k] <= e[t]
      BY <3>2, <3>3
    <3> QED
      BY <3>1, <3>4 DEF k
  <2>3. \A n \in 0..t : n \in T
    <3>1. \A n \in 0..(t - 1) : n \in T => n + 1 \in T
      BY <2>2
    <3> HIDE DEF T
    <3> QED
      BY ONLY <1>4, <2>1, <3>1, Upward
  <2> TAKE n \in 0..t
  <2>4. t - n \in 0..t /\ t - (t - n) = n
    BY <1>4
  <2> QED
    BY <2>3, <2>4
<1>7. ASSUME NEW s \in passed PROVE t <= s
  <2>1. s \in TokenId /\ s \in Nat
    BY <1>0
  <2>2. c < e[s + 1]
    <3> HIDE DEF passed
    <3> QED
      BY <1>2, <1>7, <2>1
  <2>3. ASSUME s < t PROVE FALSE
    <3>1. s + 1 \in 0..t /\ s + 1 \in 0..Vocab
      BY <1>0, <1>4, <2>1, <2>3
    <3>2. e[s + 1] <= e[t] /\ e[s + 1] \in Nat /\ e[t] \in Nat
      BY <1>3, <1>4, <1>6, <3>1
    <3> QED
      BY <1>0, <2>2, <3>2
  <2> QED
    BY <1>4, <2>1, <2>3
<1>8. Final(w, c) = IF passed = {} THEN Vocab - 1 ELSE Min(passed)
  BY DEF Final
<1>9. passed \in SUBSET Nat
  BY <1>0
<1> HIDE DEF passed
<1>10. Min(passed) \in passed /\ \A s \in passed : Min(passed) <= s
  BY <1>5, <1>9, LeastIs DEF LeastOr
<1>11. Min(passed) \in Nat /\ Min(passed) <= t /\ t <= Min(passed)
  BY <1>5, <1>7, <1>9, <1>10
<1>12. \A i, j \in Nat : i <= j /\ j <= i => i = j
  OBVIOUS
<1>13. Min(passed) = t
  BY <1>4, <1>11, <1>12
<1> QED
  BY <1>5, <1>8, <1>13

\* Coins that draw a token: as many as the odds say.
LEMMA FinalCount ==
  ASSUME NEW w, RowOf(w), Total(w) > 0, \A y \in TokenId : (w[y] * Grid) % Total(w) = 0,
         NEW y \in TokenId, NEW n, n = Cardinality({c \in CoinSet : Final(w, c) = y})
  PROVE  n \in Nat /\ n * Total(w) = w[y] * Grid
<1>0. Vocab \in Nat \ {0} /\ TokenId = 0..(Vocab - 1) /\ Grid \in Nat \ {0} /\ Total(w) \in Nat
  BY MassType, SamplerAssumption DEF SamplerAssumption, TokenId
<1>1. PICK f, e : Reach(w, f, e)
  BY ReachExists
<1>2. /\ \A k \in 0..Vocab : e[k] \in Nat /\ f[k] \in Nat /\ e[k] * Total(w) = f[k] * Grid
      /\ e[0] = 0 /\ e[Vocab] = Grid
      /\ \A k \in TokenId : e[k] <= e[k + 1] /\ f[k + 1] = f[k] + w[k] /\ w[k] \in Nat
  <2>1. /\ \A k \in 0..Vocab : e[k] \in Nat /\ e[k] * Total(w) = f[k] * Grid
        /\ e[0] = 0 /\ e[Vocab] = Grid
        /\ \A k \in TokenId : e[k] <= e[k + 1]
    BY <1>1 DEF Reach
  <2>2. SumOf(w, TokenId, f)
    BY <1>1 DEF Reach
  <2>3. \A k \in 0..Vocab : f[k] \in Nat
    BY <2>2 DEF SumOf
  <2>4. \A k \in TokenId : f[k + 1] = f[k] + w[k] /\ w[k] \in Nat
    BY <1>0, <2>2 DEF SumOf, Portion, RowOf
  <2> QED
    BY <2>1, <2>3, <2>4
<1>3. y \in Nat /\ y \in 0..Vocab /\ y + 1 \in 0..Vocab
  BY <1>0
<1>4. \A i, j \in 0..Vocab : i <= j => e[i] <= e[j]
  <2> TAKE i, j \in 0..Vocab
  <2> HAVE i <= j
  <2> DEFINE T == {k \in 0..(j - i) : e[i] <= e[i + k]}
  <2>0. i \in Nat /\ j \in Nat /\ j - i \in Nat
    BY <1>0
  <2>1. T \in SUBSET (0..(j - i)) /\ 0 \in T
    BY <1>2, <2>0
  <2>2. ASSUME NEW k \in 0..(j - i - 1), k \in T PROVE k + 1 \in T
    <3>1. i + k \in TokenId /\ i + k \in 0..Vocab /\ (i + k) + 1 = i + (k + 1) /\ k + 1 \in 0..(j - i)
          /\ (i + k) + 1 \in 0..Vocab
      BY <1>0, <2>0
    <3>2. e[i + k] <= e[(i + k) + 1] /\ e[i] \in Nat /\ e[i + k] \in Nat /\ e[(i + k) + 1] \in Nat
      BY <1>2, <3>1
    <3>3. e[i] <= e[i + k]
      BY <2>2
    <3>4. e[i] <= e[(i + k) + 1]
      BY <3>2, <3>3
    <3> QED
      BY <3>1, <3>4
  <2>3. \A k \in 0..(j - i) : k \in T
    <3>1. \A k \in 0..(j - i - 1) : k \in T => k + 1 \in T
      BY <2>2
    <3> HIDE DEF T
    <3> DEFINE m == j - i
    <3>2. m \in Nat /\ T \in SUBSET (0..m) /\ \A k \in 0..(m - 1) : k \in T => k + 1 \in T
      BY <2>0, <2>1, <3>1
    <3> HIDE DEF m
    <3>3. \A k \in 0..m : k \in T
      BY <2>1, <3>2, Upward
    <3> QED
      BY <3>3 DEF m
  <2>4. j - i \in 0..(j - i) /\ i + (j - i) = j
    BY <2>0
  <2> QED
    BY <2>3, <2>4
<1> DEFINE low == e[y]
           high == e[y + 1]
           C == {c \in CoinSet : Final(w, c) = y}
<1>5. low \in Nat /\ high \in Nat /\ low <= high /\ high <= Grid
  <2>1. y + 1 <= Vocab /\ Vocab \in 0..Vocab
    BY <1>0, <1>3
  <2>2. high <= e[Vocab]
    BY <1>3, <1>4, <2>1
  <2> QED
    BY <1>2, <1>3, <2>2
<1>6. ASSUME NEW c \in CoinSet PROVE \E t \in TokenId : e[t] <= c /\ c < e[t + 1]
  <2> DEFINE S == {k \in 0..Vocab : c < e[k]}
  <2>0. c \in Nat /\ c < Grid
    BY <1>0 DEF CoinSet
  <2>1. S \in SUBSET Nat /\ Vocab \in S
    BY <1>0, <1>2, <2>0
  <2>2. PICK k \in S : \A x \in S : k <= x
    <3> HIDE DEF S
    <3> QED
      BY <2>1, Smallest
  <2>3. k \in 0..Vocab /\ c < e[k] /\ k # 0
    BY <1>2, <2>0, <2>2
  <2>4. k - 1 \in TokenId /\ k - 1 \in 0..Vocab /\ (k - 1) + 1 = k
    BY <1>0, <2>3
  <2>5. ASSUME c < e[k - 1] PROVE FALSE
    <3>1. k - 1 \in S
      BY <2>4, <2>5
    <3> HIDE DEF S
    <3>2. k <= k - 1
      BY <2>2, <3>1
    <3> QED
      BY <2>3, <3>2
  <2>6. e[k - 1] <= c
    BY <1>2, <2>0, <2>4, <2>5
  <2> QED
    BY <2>3, <2>4, <2>6
<1>7. ASSUME NEW c \in CoinSet PROVE c \in C <=> low <= c /\ c < high
  <2>1. ASSUME low <= c /\ c < high PROVE c \in C
    BY <1>1, <2>1, FinalAt
  <2>2. ASSUME c \in C PROVE low <= c /\ c < high
    <3>1. PICK t \in TokenId : e[t] <= c /\ c < e[t + 1]
      BY <1>6
    <3>2. Final(w, c) = t
      BY <1>1, <3>1, FinalAt
    <3> QED
      BY <2>2, <3>1, <3>2
  <2> QED
    BY <2>1, <2>2
<1>8. C = low..(high - 1)
  <2>1. low..(high - 1) \subseteq CoinSet /\ CoinSet \subseteq Nat /\ C \subseteq CoinSet
    BY <1>0, <1>5 DEF CoinSet
  <2>2. \A c \in CoinSet : c \in C <=> low <= c /\ c < high
    BY <1>7
  <2> HIDE DEF C, low, high
  <2>3. \A c : c \in low..(high - 1) <=> c \in CoinSet /\ low <= c /\ c < high
    <3>1. ASSUME NEW c \in low..(high - 1) PROVE c \in CoinSet /\ low <= c /\ c < high
      <4>1. c \in CoinSet
        BY <2>1
      <4> QED
        BY <1>5, <4>1
    <3>2. ASSUME NEW c \in CoinSet, low <= c, c < high PROVE c \in low..(high - 1)
      <4>1. c \in Nat
        BY <2>1
      <4> QED
        BY <1>5, <3>2, <4>1
    <3> QED
      BY <3>1, <3>2
  <2>4. \A c : c \in C <=> c \in low..(high - 1)
    BY <2>1, <2>2, <2>3
  <2> QED
    BY <2>4
<1>9. n = high - low
  <2> HIDE DEF low, high
  <2>1. Cardinality(low..(high - 1)) = IF low > high - 1 THEN 0 ELSE high - 1 - low + 1
    <3>1. low \in Int /\ high - 1 \in Int
      BY <1>5
    <3> QED
      BY <3>1, FS_Interval
  <2>2. n = Cardinality(C)
    OBVIOUS
  <2> HIDE DEF C
  <2> QED
    BY <1>5, <1>8, <2>1, <2>2
<1>10. n * Total(w) = w[y] * Grid
  <2>1. low * Total(w) = f[y] * Grid /\ high * Total(w) = f[y + 1] * Grid
        /\ f[y] \in Nat /\ w[y] \in Nat /\ f[y + 1] = f[y] + w[y]
    BY <1>2, <1>3
  <2> HIDE DEF low, high
  <2>2. \A a, b, c \in Nat : (a + b) * c = a * c + b * c /\ a * c \in Nat /\ b * c \in Nat
    OBVIOUS
  <2>3. n \in Nat /\ high = low + n
    BY <1>5, <1>9
  <2>4. (low + n) * Total(w) = low * Total(w) + n * Total(w) /\ low * Total(w) \in Nat /\ n * Total(w) \in Nat
    <3> DEFINE total == Total(w)
    <3>1. low \in Nat /\ n \in Nat /\ total \in Nat
      BY <1>0, <1>5, <2>3
    <3> HIDE DEF total
    <3>2. (low + n) * total = low * total + n * total /\ low * total \in Nat /\ n * total \in Nat
      BY ONLY <2>2, <3>1
    <3> QED
      BY <3>2 DEF total
  <2>5. (f[y] + w[y]) * Grid = f[y] * Grid + w[y] * Grid /\ f[y] * Grid \in Nat /\ w[y] * Grid \in Nat
    <3> DEFINE u == f[y]
               v == w[y]
    <3>1. u \in Nat /\ v \in Nat /\ Grid \in Nat
      BY <1>0, <2>1
    <3> HIDE DEF u, v
    <3>2. (u + v) * Grid = u * Grid + v * Grid /\ u * Grid \in Nat /\ v * Grid \in Nat
      BY ONLY <2>2, <3>1
    <3> QED
      BY <3>2 DEF u, v
  <2> DEFINE a == low * Total(w)
             b == n * Total(w)
             c == f[y] * Grid
             d == w[y] * Grid
             h == high * Total(w)
             k == f[y + 1] * Grid
  <2>6. a \in Nat /\ b \in Nat /\ c \in Nat /\ d \in Nat /\ h = a + b /\ k = c + d /\ a = c /\ h = k
    BY <2>1, <2>3, <2>4, <2>5
  <2> HIDE DEF a, b, c, d, h, k
  <2>7. b = d
    BY <2>6
  <2> QED
    BY <2>7 DEF b, d
<1> QED
  BY <1>5, <1>9, <1>10

\* Sums of sums, and of a row with one token.
LEMMA MassPlus ==
  ASSUME NEW u, RowOf(u), NEW v, RowOf(v), NEW w, w = [t \in TokenId |-> u[t] + v[t]]
  PROVE  RowOf(w) /\ Total(w) = Total(u) + Total(v)
<1>0. Vocab \in Nat \ {0} /\ TokenId = 0..(Vocab - 1)
  BY SamplerAssumption DEF SamplerAssumption, TokenId
<1>1. RowOf(w)
  BY DEF RowOf
<1>2. PICK f : SumOf(u, TokenId, f) /\ Total(u) = f[Vocab]
  BY MassIs DEF Total
<1>3. PICK g : SumOf(v, TokenId, g) /\ Total(v) = g[Vocab]
  BY MassIs DEF Total
<1>4. PICK h : SumOf(w, TokenId, h) /\ Total(w) = h[Vocab]
  BY <1>1, MassIs DEF Total
<1> DEFINE T == {n \in 0..Vocab : h[n] = f[n] + g[n]}
<1>5. T \in SUBSET (0..Vocab) /\ 0 \in T
  BY <1>0, <1>2, <1>3, <1>4 DEF SumOf
<1>6. ASSUME NEW n \in 0..(Vocab - 1), n \in T PROVE n + 1 \in T
  <2>1. n \in TokenId /\ n + 1 \in 0..Vocab /\ n \in 0..Vocab
    BY <1>0
  <2>2. f[n + 1] = f[n] + u[n] /\ g[n + 1] = g[n] + v[n] /\ h[n + 1] = h[n] + w[n]
    BY <1>2, <1>3, <1>4, <2>1 DEF SumOf, Portion
  <2>3. f[n] \in Nat /\ g[n] \in Nat /\ u[n] \in Nat /\ v[n] \in Nat /\ w[n] = u[n] + v[n] /\ h[n] = f[n] + g[n]
    BY <1>2, <1>3, <1>6, <2>1 DEF SumOf, RowOf
  <2> QED
    BY <2>1, <2>2, <2>3
<1>7. Vocab \in T
  <2>1. Vocab \in Nat /\ Vocab \in 0..Vocab
    BY <1>0
  <2>2. \A n \in 0..(Vocab - 1) : n \in T => n + 1 \in T
    BY <1>6
  <2> HIDE DEF T
  <2>3. \A n \in 0..Vocab : n \in T
    BY ONLY <2>1, <2>2, <1>5, Upward
  <2> QED
    BY <2>1, <2>3
<1> QED
  BY <1>1, <1>2, <1>3, <1>4, <1>7

LEMMA MassPoint ==
  ASSUME NEW y \in TokenId, NEW c \in Nat, NEW w, w = [t \in TokenId |-> IF t = y THEN c ELSE 0]
  PROVE  RowOf(w) /\ Total(w) = c
<1>0. Vocab \in Nat \ {0} /\ TokenId = 0..(Vocab - 1) /\ y \in Nat /\ y < Vocab
  BY SamplerAssumption DEF SamplerAssumption, TokenId
<1>1. RowOf(w)
  BY DEF RowOf
<1>2. PICK f : SumOf(w, TokenId, f) /\ Total(w) = f[Vocab]
  BY <1>1, MassIs DEF Total
<1> DEFINE T == {n \in 0..Vocab : f[n] = IF n <= y THEN 0 ELSE c}
<1>3. T \in SUBSET (0..Vocab) /\ 0 \in T
  BY <1>0, <1>2 DEF SumOf
<1>4. ASSUME NEW n \in 0..(Vocab - 1), n \in T PROVE n + 1 \in T
  <2>1. n \in TokenId /\ n + 1 \in 0..Vocab /\ n \in Nat
    BY <1>0
  <2>2. f[n + 1] = f[n] + w[n]
    BY <1>2, <2>1 DEF SumOf, Portion
  <2>3. w[n] = (IF n = y THEN c ELSE 0) /\ f[n] = IF n <= y THEN 0 ELSE c
    BY <1>4, <2>1
  <2>4. f[n + 1] = IF n + 1 <= y THEN 0 ELSE c
    BY <1>0, <2>1, <2>2, <2>3
  <2> QED
    BY <2>1, <2>4
<1>5. Vocab \in T
  <2>1. Vocab \in Nat /\ Vocab \in 0..Vocab
    BY <1>0
  <2>2. \A n \in 0..(Vocab - 1) : n \in T => n + 1 \in T
    BY <1>4
  <2> HIDE DEF T
  <2>3. \A n \in 0..Vocab : n \in T
    BY ONLY <2>1, <2>2, <1>3, Upward
  <2> QED
    BY <2>1, <2>3
<1> QED
  BY <1>0, <1>1, <1>2, <1>5

\* What one token adds, whether it is accepted or drawn after a rejection.
LEMMA TermIs ==
  ASSUME NEW q \in Nat, NEW P \in Nat, NEW n \in Nat, NEW G \in Nat, NEW k \in Nat, NEW m \in Nat, NEW u \in Nat,
         q * P = u + m, n * (u + m) = m * G, n <= G
  PROVE  /\ (q * (0 + (G - n) * k)) * P = u * (G * k)
         /\ (q * (n * G + (G - n) * k)) * P = (m * G) * G + u * (G * k)
         /\ u * (G * k) \in Nat /\ (m * G) * G \in Nat
<1> DEFINE d == G - n
           a == u + m
<1>1. d \in Nat /\ G = n + d /\ a \in Nat /\ q * P = a /\ n * a = m * G /\ a = u + m
  OBVIOUS
<1> HIDE DEF d, a
<1>2. \A x, y, z \in Nat : /\ (x * y) * z = x * (y * z) /\ x * y = y * x /\ x * y \in Nat
                           /\ x * (y + z) = x * y + x * z
  OBVIOUS
<1>3. d * a = u * G
  <2>1. a * G = a * n + a * d /\ a * n \in Nat /\ a * d \in Nat
    BY <1>1, <1>2
  <2>2. G * a = G * u + G * m /\ G * u \in Nat /\ G * m \in Nat
    BY <1>1, <1>2
  <2>3. a * G = G * a /\ a * n = n * a /\ m * G = G * m /\ d * a = a * d /\ u * G = G * u
    BY <1>1, <1>2
  <2> DEFINE ag == a * G
             an == a * n
             ad == a * d
             gu == G * u
             gm == G * m
  <2>4. ag = an + ad /\ ag = gu + gm /\ an = gm /\ an \in Nat /\ ad \in Nat /\ gu \in Nat /\ gm \in Nat
    BY <1>1, <2>1, <2>2, <2>3
  <2>5. d * a = ad /\ u * G = gu
    BY <2>3
  <2> HIDE DEF ag, an, ad, gu, gm
  <2>6. ad = gu
    BY ONLY <2>4
  <2> QED
    BY <2>5, <2>6
<1>4. \A x \in Nat : (q * x) * P = x * a
  <2> TAKE x \in Nat
  <2>1. (q * x) * P = q * (x * P) /\ x * P = P * x /\ q * (P * x) = (q * P) * x
    BY <1>2
  <2>2. a * x = x * a
    BY <1>1, <1>2
  <2> QED
    BY <1>1, <2>1, <2>2
<1>5. d * k \in Nat /\ (d * k) * a = u * (G * k) /\ u * (G * k) \in Nat
  <2>1. (d * k) * a = d * (k * a) /\ k * a = a * k /\ d * (a * k) = (d * a) * k
    BY <1>1, <1>2
  <2>2. (u * G) * k = u * (G * k)
    BY <1>2
  <2>3. d * k \in Nat /\ G * k \in Nat
    BY <1>1, <1>2
  <2>4. u * (G * k) \in Nat
    BY <1>2, <2>3
  <2> QED
    BY <1>3, <2>1, <2>2, <2>3, <2>4
<1>6. n * G \in Nat /\ (n * G) * a = (m * G) * G /\ (m * G) * G \in Nat
  <2>1. (n * G) * a = n * (G * a) /\ G * a = a * G /\ n * (a * G) = (n * a) * G
    BY <1>1, <1>2
  <2>2. n * G \in Nat /\ m * G \in Nat
    BY <1>2
  <2>3. (m * G) * G \in Nat
    BY <1>2, <2>2
  <2> QED
    BY <1>1, <2>1, <2>2, <2>3
<1>7. (q * (0 + d * k)) * P = u * (G * k)
  <2>1. 0 + d * k = d * k
    BY <1>5
  <2> QED
    BY <1>4, <1>5, <2>1
<1>8. (q * (n * G + d * k)) * P = (m * G) * G + u * (G * k)
  <2> DEFINE x == n * G
             y == d * k
  <2>1. x \in Nat /\ y \in Nat /\ x + y \in Nat
    BY <1>5, <1>6
  <2>2. x * a = (m * G) * G /\ y * a = u * (G * k)
    BY <1>5, <1>6
  <2> HIDE DEF x, y
  <2>3. (x + y) * a = a * (x + y) /\ a * (x + y) = a * x + a * y /\ a * x = x * a /\ a * y = y * a
    BY <1>1, <1>2, <2>1
  <2>4. (q * (x + y)) * P = (x + y) * a
    BY <1>4, <2>1
  <2>5. (q * (x + y)) * P = x * a + y * a
    BY <2>3, <2>4
  <2> QED
    BY <2>2, <2>5 DEF x, y
<1> QED
  BY <1>5, <1>6, <1>7, <1>8 DEF d

\* What a position emits has the target's distribution, if the token it
\* judges is drawn from the q it is judged by.
LEMMA EmittedIs ==
  ASSUME NEW p, Distribution(p), NEW q, RowOf(q), EvenOdds(p, q), NEW y \in TokenId
  PROVE  Emitted(q, q, p, y) * Total(p) = p[y] * Total(q) * Grid * Grid
<1> DEFINE P == Total(p)
           Q == Total(q)
           r == Residual(p, q)
           G == Grid
           n == [x \in TokenId |-> Cardinality({c \in CoinSet : Accepts(c, p, q, x)})]
           k == Cardinality({c \in CoinSet : Final(r, c) = y})
           a == [x \in TokenId |-> q[x] * P]
           b == [x \in TokenId |-> p[x] * Q]
           m == [x \in TokenId |-> IF a[x] <= b[x] THEN a[x] ELSE b[x]]
           u == [x \in TokenId |-> a[x] - m[x]]
           term == [x \in TokenId |-> q[x] * ((IF x = y THEN n[x] * G ELSE 0) + (G - n[x]) * k)]
           scaled == [x \in TokenId |-> term[x] * P]
           point == [x \in TokenId |-> IF x = y THEN (m[y] * G) * G ELSE 0]
           rest == [x \in TokenId |-> u[x] * (G * k)]
<1>0. /\ G \in Nat \ {0} /\ P \in Nat /\ P > 0 /\ Q \in Nat /\ RowOf(p)
      /\ \A x \in TokenId : p[x] \in Nat /\ q[x] \in Nat
  BY MassType, SamplerAssumption DEF Distribution, RowOf, SamplerAssumption
<1>1. Emitted(q, q, p, y) = Total(term)
  BY DEF Emitted, CoinSet
<1>2. \A x \in TokenId : /\ n[x] \in Nat /\ n[x] <= G /\ a[x] \in Nat /\ b[x] \in Nat
                         /\ n[x] * a[x] = m[x] * G
  <2> TAKE x \in TokenId
  <2>1. n[x] = Cardinality({c \in CoinSet : Accepts(c, p, q, x)}) /\ a[x] = q[x] * P /\ b[x] = p[x] * Q
        /\ m[x] = IF a[x] <= b[x] THEN a[x] ELSE b[x]
    OBVIOUS
  <2> HIDE DEF n, a, b, m
  <2>2. /\ n[x] \in Nat /\ n[x] <= Grid /\ a[x] \in Nat /\ b[x] \in Nat
        /\ n[x] * a[x] = (IF a[x] <= b[x] THEN a[x] ELSE b[x]) * Grid
    BY <2>1, AcceptedCount
  <2> QED
    BY <2>1, <2>2
<1>3. \A x \in TokenId : /\ r[x] = b[x] - m[x] /\ r[x] \in Nat /\ m[x] \in Nat /\ u[x] \in Nat
                         /\ a[x] = u[x] + m[x] /\ b[x] = r[x] + m[x]
  <2> TAKE x \in TokenId
  <2> DEFINE e == b[x] - a[x]
  <2>1. r[x] = Max({e, 0})
    BY DEF Residual
  <2>2. m[x] = (IF a[x] <= b[x] THEN a[x] ELSE b[x]) /\ u[x] = a[x] - m[x] /\ a[x] \in Nat /\ b[x] \in Nat
    BY <1>2
  <2> HIDE DEF a, b, m, u, r
  <2>3. e \in Int
    BY <2>2
  <2>4. Max({e, 0}) = IF e > 0 THEN e ELSE 0
    <3> HIDE DEF e
    <3> QED
      BY <2>3, OrZero
  <2> QED
    BY <2>1, <2>2, <2>4
<1>4. /\ a = [x \in TokenId |-> u[x] + m[x]] /\ b = [x \in TokenId |-> r[x] + m[x]]
      /\ RowOf(u) /\ RowOf(m) /\ RowOf(r) /\ RowOf(a) /\ RowOf(b)
  <2>1. a = [x \in TokenId |-> a[x]] /\ b = [x \in TokenId |-> b[x]]
    OBVIOUS
  <2> HIDE DEF a, b, m, u, r
  <2> QED
    BY <1>2, <1>3, <2>1 DEF RowOf
<1>5. Total(a) = Q * P /\ Total(b) = P * Q
  <2> HIDE DEF P, Q
  <2> QED
    BY <1>0, MassScaled DEF P, Q
<1> HIDE DEF P, Q, G, n, a, b, m, u, r, k
\* The residual has the weight that is rejected.
<1>6. Total(u) = Total(r) /\ Total(u) \in Nat /\ Total(r) \in Nat
  <2>1. Total(a) = Total(u) + Total(m) /\ Total(b) = Total(r) + Total(m)
    BY <1>4, MassPlus
  <2>2. Total(u) \in Nat /\ Total(m) \in Nat /\ Total(r) \in Nat
    BY <1>4, MassType
  <2>3. Total(a) = Total(b)
    BY <1>0, <1>5
  <2> QED
    BY <2>1, <2>2, <2>3
<1>7. k \in Nat /\ Total(r) * k = r[y] * G
  <2>1. CASE Total(r) > 0
    <3>1. \A x \in TokenId : (r[x] * Grid) % Total(r) = 0
      BY <2>1 DEF EvenOdds, r
    <3>2. k = Cardinality({c \in CoinSet : Final(r, c) = y})
      BY DEF k
    <3>3. k \in Nat /\ k * Total(r) = r[y] * Grid
      BY <1>4, <2>1, <3>1, <3>2, FinalCount
    <3>4. k * Total(r) = Total(r) * k
      BY <1>6, <3>3
    <3> QED
      BY <3>3, <3>4 DEF G
  <2>2. CASE Total(r) = 0
    <3>1. r[y] = 0
      <4>1. r[y] \in Nat
        BY <1>3
      <4>2. r[y] > 0 => Total(r) > 0
        BY <1>4, PositiveMass DEF Total
      <4> QED
        BY <2>2, <4>1, <4>2
    <3>2. k \in Nat
      <4> DEFINE C == {c \in CoinSet : Final(r, c) = y}
      <4>1. C \subseteq CoinSet /\ IsFiniteSet(CoinSet)
        <5>1. 0 \in Int /\ Grid - 1 \in Int
          BY <1>0 DEF G
        <5> QED
          BY <5>1, FS_Interval DEF CoinSet
      <4> HIDE DEF C
      <4>2. Cardinality(C) \in Nat
        BY <4>1, PartOf
      <4> QED
        BY <4>2 DEF k, C
    <3> QED
      BY <1>0, <2>2, <3>1, <3>2
  <2> QED
    BY <1>6, <2>1, <2>2
<1>8. \A x \in TokenId : scaled[x] = point[x] + rest[x] /\ point[x] \in Nat /\ rest[x] \in Nat /\ term[x] \in Nat
  <2> TAKE x \in TokenId
  <2>1. /\ q[x] \in Nat /\ n[x] \in Nat /\ n[x] <= G /\ m[x] \in Nat /\ u[x] \in Nat
        /\ q[x] * P = u[x] + m[x] /\ n[x] * (u[x] + m[x]) = m[x] * G /\ G \in Nat /\ P \in Nat
    <3>1. a[x] = q[x] * P
      BY DEF a
    <3> QED
      BY <1>0, <1>2, <1>3, <3>1
  <2>2. /\ (q[x] * (0 + (G - n[x]) * k)) * P = u[x] * (G * k)
        /\ (q[x] * (n[x] * G + (G - n[x]) * k)) * P = (m[x] * G) * G + u[x] * (G * k)
        /\ u[x] * (G * k) \in Nat /\ (m[x] * G) * G \in Nat
    <3> DEFINE qx == q[x]
               nx == n[x]
               mx == m[x]
               ux == u[x]
    <3>1. /\ qx \in Nat /\ nx \in Nat /\ mx \in Nat /\ ux \in Nat
          /\ P \in Nat /\ G \in Nat /\ k \in Nat
          /\ qx * P = ux + mx /\ nx * (ux + mx) = mx * G /\ nx <= G
      BY <1>7, <2>1
    <3> HIDE DEF qx, nx, mx, ux
    <3>2. /\ (qx * (0 + (G - nx) * k)) * P = ux * (G * k)
          /\ (qx * (nx * G + (G - nx) * k)) * P = (mx * G) * G + ux * (G * k)
          /\ ux * (G * k) \in Nat /\ (mx * G) * G \in Nat
      BY ONLY <3>1, TermIs
    <3> QED
      BY ONLY <3>2 DEF qx, nx, mx, ux
  <2>3. term[x] \in Nat
    <3>1. G - n[x] \in Nat
      BY <2>1
    <3>2. \A i, j \in Nat : i * j \in Nat /\ i + j \in Nat
      OBVIOUS
    <3>3. (G - n[x]) * k \in Nat /\ n[x] * G \in Nat
      BY <1>7, <2>1, <3>1, <3>2
    <3>4. (IF x = y THEN n[x] * G ELSE 0) + (G - n[x]) * k \in Nat
      BY <3>2, <3>3
    <3> DEFINE w == (IF x = y THEN n[x] * G ELSE 0) + (G - n[x]) * k
    <3>5. term[x] = q[x] * w /\ w \in Nat
      BY <3>4
    <3> HIDE DEF w, term
    <3> QED
      BY <2>1, <3>2, <3>5
  <2>4. CASE x = y
    BY <2>2, <2>3, <2>4
  <2>5. CASE x # y
    BY <2>2, <2>3, <2>5
  <2> QED
    BY <2>4, <2>5
<1>9. Emitted(q, q, p, y) * P = Total(scaled)
  <2>1. RowOf(term)
    <3> HIDE DEF term
    <3> QED
      BY <1>8 DEF RowOf
  <2> HIDE DEF term
  <2>2. Total(scaled) = Total(term) * P
    BY <1>0, <2>1, MassScaled
  <2> QED
    BY <1>1, <2>2
<1>10. Total(scaled) = Total(point) + Total(rest)
  <2>1. scaled = [x \in TokenId |-> scaled[x]]
    OBVIOUS
  <2> HIDE DEF scaled, point, rest, term
  <2>2. RowOf(point) /\ RowOf(rest) /\ scaled = [x \in TokenId |-> point[x] + rest[x]]
    BY <1>8, <2>1 DEF RowOf
  <2> QED
    BY <2>2, MassPlus
<1>11. Total(point) = (m[y] * G) * G
  <2> DEFINE c == (m[y] * G) * G
  <2>1. c \in Nat /\ point = [x \in TokenId |-> IF x = y THEN c ELSE 0]
    BY <1>8
  <2> HIDE DEF c, point
  <2>2. Total(point) = c
    BY <2>1, MassPoint
  <2> QED
    BY <2>2 DEF c
<1>12. Total(rest) = Total(u) * (G * k)
  <2> DEFINE c == G * k
  <2>1. c \in Nat
    BY <1>0, <1>7
  <2>2. rest = [x \in TokenId |-> u[x] * c]
    OBVIOUS
  <2> HIDE DEF c, rest
  <2>3. Total(rest) = Total(u) * c
    BY <1>4, <2>1, <2>2, MassScaled
  <2> QED
    BY <2>3 DEF c
<1> HIDE DEF scaled, point, rest, term
<1>13. \A i, j, l \in Nat : /\ (i * j) * l = i * (j * l) /\ i * j = j * i /\ i * j \in Nat
                            /\ (i + j) * l = i * l + j * l
  OBVIOUS
<1>14. Total(u) * (G * k) = (r[y] * G) * G
  <2> DEFINE T == Total(u)
  <2>1. T \in Nat /\ k \in Nat /\ G \in Nat /\ T * k = r[y] * G
    BY <1>0, <1>6, <1>7
  <2> HIDE DEF T
  <2>2. T * (G * k) = (T * k) * G
    <3>1. G * k = k * G /\ T * (k * G) = (T * k) * G
      BY <1>13, <2>1
    <3> QED
      BY <3>1
  <2>3. T * (G * k) = (r[y] * G) * G
    BY <2>1, <2>2
  <2> QED
    BY <2>3 DEF T
<1>15. (m[y] * G) * G + (r[y] * G) * G = (b[y] * G) * G
  <2>1. m[y] \in Nat /\ r[y] \in Nat /\ b[y] = r[y] + m[y] /\ G \in Nat
    BY <1>0, <1>3
  <2> DEFINE i == m[y]
             j == r[y]
             l == b[y]
  <2>2. i \in Nat /\ j \in Nat /\ l = i + j /\ G \in Nat
    BY <2>1
  <2> HIDE DEF i, j, l
  <2>3. i * G \in Nat /\ j * G \in Nat
    BY <1>13, <2>2
  <2>4. (i + j) * G = i * G + j * G /\ (i * G + j * G) * G = (i * G) * G + (j * G) * G
    BY <1>13, <2>2, <2>3
  <2>5. (i * G) * G + (j * G) * G = (l * G) * G
    BY <2>2, <2>4
  <2> QED
    BY <2>5 DEF i, j, l
<1>16. b[y] = p[y] * Q
  BY DEF b
<1> QED
  BY <1>9, <1>10, <1>11, <1>12, <1>14, <1>15, <1>16 DEF P, Q, G

\* In the cases the law is about, a token is drawn from the q it is judged by.
LEMMA DrawnIs ==
  ASSUME NEW row \in DraftRows, NEW k \in Nat, NEW tp, NEW truncated \in BOOLEAN, truncated \/ k > 1,
         NEW d \in DraftProposals(row, k, tp, truncated)
  PROVE  d.drawn = d.q /\ RowOf(d.q)
<1>0. RowOf(row)
  BY RowAssumption DEF RowAssumption, RowOf
<1>1. CASE truncated
  <2>1. PICK S \in TopKRows(row, DraftK) :
          d = [drawn |-> TruncSample(row, S, k, tp), q |-> TruncSample(row, S, k, tp)]
    BY <1>1 DEF DraftProposals
  <2>2. \A X : RowOf(Only(row, X))
    BY <1>0 DEF RowOf, Only
  <2>3. RowOf(TruncSample(row, S, k, tp))
    BY <2>2 DEF TruncSample
  <2> QED
    BY <2>1, <2>3
<1>2. CASE ~truncated
  <2>1. d = [drawn |-> IF k <= 1 THEN Only(row, Greedy(row)) ELSE row, q |-> row]
    BY <1>2 DEF DraftProposals
  <2> QED
    BY <1>0, <1>2, <2>1
<1> QED
  BY <1>1, <1>2

\* Speculation does not change what is sampled: over the draws of the draft
\* and the coins, the token a position emits has the target's distribution.
\* The coins stand for real numbers, so their grid must be fine enough: see
\* CoinsFit.
THEOREM LawHolds == ASSUME CoinsFit PROVE TreeSpec => []LawExact
<1>1. ASSUME CoinsFit, TreeInv PROVE LawExact
  <2> SUFFICES ASSUME phase = "verify", server.sampling,
                      NEW i \in DOMAIN tree.rows.qs, NEW row \in TargetRows,
                      server.truncated \/ tree.rows.param.k > 1, NEW y \in TokenId
               PROVE  LET p == Target(row, TokenId, tree.rows.param.k, tree.rows.param.tp)
                          q == tree.rows.qs[i]
                      IN Emitted(q.drawn, q.q, p, y) * Total(p) = p[y] * Total(q.drawn) * Grid * Grid
    BY DEF LawExact
  <2>1. PICK nodes : ChainOf(tree, nodes)
    BY <1>1 DEF TreeInv
  <2>0. PICK param \in Params :
          \E qs, xs : Proposed(tree.plan, param, qs, xs) /\ tree.rows = [param |-> param, qs |-> qs]
    BY <2>1 DEF ChainOf
  <2>2. PICK qs, xs :
          Proposed(tree.plan, param, qs, xs) /\ tree.rows = [param |-> param, qs |-> qs]
    BY <2>0
  <2>3. server \in Servers /\ server.truncated \in BOOLEAN /\ param.k \in Nat
    <3>1. server \in Servers /\ server \in ServerType
      BY <1>1, TreeAssumption DEF TreeInv, Config, TreeAssumption
    <3> QED
      BY <3>1, RowAssumption DEF ServerType, RowAssumption
  <2>4. i \in 1..tree.plan.steps
    BY <2>2 DEF Proposed
  <2>5. PICK drawn \in DraftRows : qs[i] \in DraftProposals(drawn, param.k, param.tp, server.truncated)
    BY <2>2, <2>4 DEF Proposed
  <2>6. tree.rows.param = param /\ tree.rows.qs[i] = qs[i] /\ (server.truncated \/ param.k > 1)
    BY <2>2
  <2> DEFINE p == Target(row, TokenId, param.k, param.tp)
             d == qs[i]
  <2>7. Distribution(p)
    BY TargetIs
  <2>8. d.drawn = d.q /\ RowOf(d.q)
    BY <2>3, <2>5, <2>6, DrawnIs
  <2>9. EvenOdds(p, d.q)
    BY <1>1, <2>3, <2>5, <2>6 DEF CoinsFit
  <2> HIDE DEF p, d
  <2>10. Emitted(d.q, d.q, p, y) * Total(p) = p[y] * Total(d.q) * Grid * Grid
    BY <2>7, <2>8, <2>9, EmittedIs
  <2> QED
    BY <2>6, <2>8, <2>10 DEF p, d
<1>2. TreeInv => LawExact
  BY <1>1
<1> QED
  BY <1>2, TreesHold, PTL
=============================================================================
