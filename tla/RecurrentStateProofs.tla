------------------------ MODULE RecurrentStateProofs ------------------------
(***************************************************************************)
(* Proofs about RecurrentState: in every state, for any set of requests,   *)
(* slots, windows, intervals and trees, a request's slots hold the state   *)
(* of exactly its tokens, its snapshot and the prefix cache that of a      *)
(* prefix of them, and the n-grams are those of its whole text.            *)
(*                                                                         *)
(* None of it is inductive.  What a commit moves was computed by the       *)
(* verify before it, and a snapshot taken inside a chunk is right only if  *)
(* the chunk began on the interval; the invariant says both.               *)
(***************************************************************************)
EXTENDS RecurrentState, FiniteSetTheorems, SequenceTheorems, WellFoundedInduction, TLAPS

-----------------------------------------------------------------------------
(* Numbers                                                                   *)

\* A set of naturals with a member has a smallest one.
LEMMA Smallest ==
  ASSUME NEW S \in SUBSET Nat, S # {}
  PROVE  \E x \in S : \A y \in S : x <= y
<1>1. PICK x \in S : \A y \in S : ~ (<<y, x>> \in OpToRel(<, Nat))
  BY WFMin, NatLessThanWellFounded
<1>2. \A y \in S : x <= y
  <2> SUFFICES ASSUME NEW y \in S, y < x
               PROVE  FALSE
    OBVIOUS
  <2>1. <<y, x>> \in {ss \in Nat \X Nat : ss[1] < ss[2]}
    OBVIOUS
  <2> QED
    BY <1>1, <2>1 DEF OpToRel
<1> QED
  BY <1>2

\* The slots allocated are free.
LEMMA LeastIs ==
  ASSUME NEW S \in SUBSET Nat, S # {}
  PROVE  Least(S) \in S
<1>1. \E x \in S : \A y \in S : x <= y
  BY Smallest
<1> QED
  BY <1>1 DEF Least

\* A set of numbers below a bound has a largest one.
LEMMA Largest ==
  ASSUME NEW n \in Nat, NEW S \in SUBSET (0..n), S # {}
  PROVE  Max(S) \in S /\ \A x \in S : x <= Max(S)
<1> DEFINE T == {n - x : x \in S}
<1>1. T \in SUBSET Nat /\ T # {}
  <2>1. \A x \in S : n - x \in Nat
    OBVIOUS
  <2> QED
    BY <2>1
<1>2. PICK t \in T : \A u \in T : t <= u
  BY <1>1, Smallest
<1>3. PICK x \in S : t = n - x
  BY <1>2
<1>4. \A y \in S : x >= y
  <2> TAKE y \in S
  <2>1. n - y \in T
    OBVIOUS
  <2>2. n - x <= n - y
    BY <1>2, <1>3, <2>1
  <2> QED
    BY <2>2
<1>5. \E z \in S : \A y \in S : z >= y
  BY <1>4
<1> QED
  BY <1>5 DEF Max

\* A multiple of w, and what is less than w besides it.
LEMMA Divided ==
  ASSUME NEW q \in Nat, NEW w \in Nat \ {0}, NEW x \in 0..(w - 1)
  PROVE  (q * w + x) \div w = q /\ (q * w + x) % w = x
<1> DEFINE n == q * w + x
           d == n \div w
<1>0. n \in Nat
  OBVIOUS
<1>1. d \in Nat /\ n % w \in 0..(w - 1) /\ n = w * d + (n % w)
  BY <1>0
<1>2. CASE d <= q - 1
  <2>1. w * d <= w * (q - 1) /\ w * (q - 1) = w * q - w
    BY <1>1, <1>2
  <2> QED
    BY <1>1, <2>1
<1>3. CASE q + 1 <= d
  <2>1. w * (q + 1) <= w * d /\ w * (q + 1) = w * q + w
    BY <1>1, <1>3
  <2> QED
    BY <1>1, <2>1
<1>4. CASE d = q
  BY <1>1, <1>4
<1> QED
  BY <1>1, <1>2, <1>3, <1>4

\* A number's place in a table of rows of w.
LEMMA SamePlace ==
  ASSUME NEW w \in Nat \ {0}, NEW i \in Nat, NEW k \in Nat, NEW x \in 0..(w - 1), NEW y \in 0..(w - 1),
         i * w + x = k * w + y
  PROVE  i = k /\ x = y
BY Divided

Multiple(n) == \E k \in Nat : n = k * Interval

LEMMA Constants ==
  /\ Interval \in Nat /\ Win \in Nat \ {0} /\ Win < Interval /\ NumRows \in Nat \ {0}
  /\ MaxDraft \in Nat \ {0} /\ NumSlots \in Nat /\ Prompt \in Nat \ {0}
  /\ Reqs \subseteq Nat \ {0} /\ IsFiniteSet(Reqs)
BY RecurrentAssumption, ChunkAssumption

\* The last multiple of the interval up to n.
LEMMA BoundaryIs ==
  ASSUME NEW n \in Nat
  PROVE  /\ n \div Interval \in Nat /\ Boundary(n) \in Nat /\ Multiple(Boundary(n))
         /\ Boundary(n) <= n /\ n < Boundary(n) + Interval
<1> DEFINE d == n \div Interval
<1>1. Interval \in Nat /\ Interval > 0
  BY Constants
<1>2. d \in Nat /\ n % Interval \in 0..(Interval - 1) /\ n = Interval * d + (n % Interval)
  BY <1>1
<1>3. Boundary(n) = d * Interval
  BY DEF Boundary
<1> HIDE DEF d
<1>4. Boundary(n) \in Nat /\ Multiple(Boundary(n))
  BY <1>1, <1>2, <1>3 DEF Multiple
<1>5. d * Interval = Interval * d
  BY <1>1, <1>2
<1>6. Boundary(n) <= n /\ n < Boundary(n) + Interval
  BY <1>1, <1>2, <1>3, <1>5
<1> QED
  BY <1>2, <1>4, <1>6 DEF d

\* The interval is crossed exactly when its last multiple is passed.
LEMMA CrossesIs ==
  ASSUME NEW pre \in Nat, NEW post \in Nat, pre <= post
  PROVE  /\ Crosses(pre, post) => Boundary(post) > pre
         /\ ~Crosses(pre, post) => Boundary(post) <= pre
<1> DEFINE a == pre \div Interval
           b == post \div Interval
<1>1. Interval \in Nat /\ Interval > 0
  BY Constants
<1>2. /\ a \in Nat /\ Boundary(pre) \in Nat /\ Boundary(pre) = a * Interval
      /\ Boundary(pre) <= pre /\ pre < Boundary(pre) + Interval
  BY BoundaryIs DEF Boundary
<1>3. /\ b \in Nat /\ Boundary(post) \in Nat /\ Boundary(post) = b * Interval
      /\ Boundary(post) <= post /\ post < Boundary(post) + Interval
  BY BoundaryIs DEF Boundary
<1>4. Crosses(pre, post) <=> a # b
  BY DEF Crosses
<1> HIDE DEF a, b
<1>5. CASE a = b
  BY <1>2, <1>3, <1>4, <1>5
<1>6. CASE a < b
  <2>1. (a + 1) * Interval <= b * Interval /\ (a + 1) * Interval = a * Interval + Interval
    BY <1>1, <1>2, <1>3, <1>6
  <2> QED
    BY <1>1, <1>2, <1>3, <1>4, <1>6, <2>1
<1>7. CASE b < a
  <2>1. (b + 1) * Interval <= a * Interval /\ (b + 1) * Interval = b * Interval + Interval
    BY <1>1, <1>2, <1>3, <1>7
  <2> QED
    BY <1>1, <1>2, <1>3, <1>7, <2>1
<1> QED
  BY <1>2, <1>3, <1>5, <1>6, <1>7

\* Of a chunk that begins on the interval and crosses it, what a side state's
\* snapshot covers ends on the interval too.
LEMMA AlignedIs ==
  ASSUME NEW pre \in Nat, NEW post \in Nat, pre <= post, Multiple(pre), Crosses(pre, post)
  PROVE  Aligned(pre, post) = Boundary(post) - pre /\ Boundary(post) - pre >= Interval
<1>1. Interval \in Nat /\ Interval > 1
  BY Constants
<1>2. /\ Boundary(post) \in Nat /\ Boundary(post) > pre /\ Multiple(Boundary(post))
  BY BoundaryIs, CrossesIs
<1>3. PICK a \in Nat, b \in Nat : pre = a * Interval /\ Boundary(post) = b * Interval
  BY <1>2 DEF Multiple
<1>4. a < b
  <2> SUFFICES ASSUME b <= a PROVE FALSE
    BY <1>3
  <2>1. b * Interval <= a * Interval
    BY <1>1, <1>3
  <2> QED
    BY <1>2, <1>3, <2>1
<1>5. PICK k \in Nat : b = a + k /\ k >= 1
  <2>1. b - a \in Nat /\ b = a + (b - a) /\ b - a >= 1
    BY <1>3, <1>4
  <2> QED
    BY <2>1
<1>6. b * Interval = a * Interval + k * Interval
  BY <1>1, <1>3, <1>5
<1>7. Boundary(post) - pre = k * Interval
  BY <1>1, <1>2, <1>3, <1>5, <1>6
<1>8. k * Interval >= Interval /\ k * Interval \in Nat
  BY <1>1, <1>5
<1>9. TrackSeqlen(post) - pre = k * Interval + 1
  BY <1>1, <1>2, <1>7, <1>8 DEF TrackSeqlen
<1>10. (k * Interval + 1) \div Interval = k
  BY <1>1, <1>5, Divided
<1>11. Aligned(pre, post) = k * Interval
  BY <1>9, <1>10 DEF Aligned, Boundary
<1> QED
  BY <1>7, <1>8, <1>11

\* When the prompt goes on, the next chunk begins on the interval.
LEMMA OnInterval ==
  ASSUME NEW n \in Nat, n % Interval = 0
  PROVE  Multiple(n)
<1>1. Interval \in Nat /\ Interval > 0
  BY Constants
<1>2. n \div Interval \in Nat /\ n = Interval * (n \div Interval) + (n % Interval)
  BY <1>1
<1>3. PICK d \in Nat : d = n \div Interval
  BY <1>2
<1>4. n = d * Interval
  BY <1>1, <1>2, <1>3
<1> QED
  BY <1>4 DEF Multiple

\* A single token crosses onto a multiple.
LEMMA CrossedOne ==
  ASSUME NEW n \in Nat, Crosses(n, n + 1)
  PROVE  Multiple(n + 1) /\ Boundary(n + 1) = n + 1
<1>1. Boundary(n + 1) > n /\ Boundary(n + 1) <= n + 1 /\ Boundary(n + 1) \in Nat /\ Multiple(Boundary(n + 1))
  BY BoundaryIs, CrossesIs
<1> QED
  BY <1>1

-----------------------------------------------------------------------------
(* Windows                                                                   *)

Toks == Nat \X Nat \X Nat

LEMMA TokenTypes ==
  /\ Pad \in Toks /\ Junk \in Toks
  /\ \A r \in Reqs, at \in Nat, node \in Nat : Token(r, at, node) \in Toks
BY Constants DEF Pad, Junk, Token, Toks

LEMMA ZerosIs ==
  /\ Zeros \in Seq(Toks) /\ Len(Zeros) = Win
  /\ \A w \in 1..Win : Zeros[w] = Pad
BY Constants, TokenTypes DEF Zeros

\* The text s behind the zeros it starts from.
Text(s) == Zeros \o s

LEMMA TextIs ==
  ASSUME NEW s \in Seq(Toks)
  PROVE  /\ Text(s) \in Seq(Toks) /\ Len(Text(s)) = Win + Len(s) /\ Len(s) \in Nat
         /\ \A i \in 1..Win : Text(s)[i] = Pad
         /\ \A i \in 1..Len(s) : Text(s)[Win + i] = s[i]
<1>1. /\ Text(s) \in Seq(Toks) /\ Len(Text(s)) = Len(Zeros) + Len(s)
      /\ \A i \in 1..Len(Zeros) + Len(s) : Text(s)[i] = IF i <= Len(Zeros) THEN Zeros[i] ELSE s[i - Len(Zeros)]
  BY ZerosIs, ConcatProperties DEF Text
<1>2. Len(s) \in Nat /\ Win \in Nat
  BY Constants
<1> QED
  BY <1>1, <1>2, ZerosIs

LEMMA LastOfIs ==
  ASSUME NEW s \in Seq(Toks), Len(s) >= Win
  PROVE  /\ LastOf(s) \in Seq(Toks) /\ Len(LastOf(s)) = Win
         /\ \A w \in 1..Win : LastOf(s)[w] = s[Len(s) - Win + w]
<1>1. Len(s) \in Nat /\ Win \in Nat \ {0} /\ \A i \in 1..Len(s) : s[i] \in Toks
  BY Constants
<1> DEFINE m == Len(s) - Win + 1
<1>2. m \in Int /\ \A i \in m..Len(s) : s[i] \in Toks
  BY <1>1
<1>3. /\ SubSeq(s, m, Len(s)) \in Seq(Toks)
      /\ Len(SubSeq(s, m, Len(s))) = IF m <= Len(s) THEN Len(s) - m + 1 ELSE 0
      /\ \A i \in 1..Len(s) - m + 1 : SubSeq(s, m, Len(s))[i] = s[m + i - 1]
  BY <1>1, <1>2, SubSeqProperties
<1>4. Len(s) - m + 1 = Win /\ m <= Len(s)
  BY <1>1
<1>5. \A w \in 1..Win : m + w - 1 = Len(s) - Win + w
  BY <1>1
<1> QED
  BY <1>3, <1>4, <1>5 DEF LastOf

\* The window after the tokens s.
Window(s) == LastOf(Zeros \o s)

LEMMA AfterIs ==
  /\ \A s : After("gdn", s) = s /\ After("conv", s) = Window(s) /\ After("side", s) = Window(s)
  /\ \A b \in Buffers : b \in {"gdn", "conv", "side"}
BY DEF After, Window, Buffers, Sides

LEMMA WindowIs ==
  ASSUME NEW s \in Seq(Toks)
  PROVE  /\ Window(s) \in Seq(Toks) /\ Len(Window(s)) = Win /\ Len(s) \in Nat
         /\ \A w \in 1..Win : Window(s)[w] = Text(s)[Len(s) + w]
<1>1. Text(s) \in Seq(Toks) /\ Len(Text(s)) = Win + Len(s) /\ Len(s) \in Nat
  BY TextIs
<1>2. /\ LastOf(Text(s)) \in Seq(Toks) /\ Len(LastOf(Text(s))) = Win
      /\ \A w \in 1..Win : LastOf(Text(s))[w] = Text(s)[Len(Text(s)) - Win + w]
  BY <1>1, LastOfIs, Constants
<1>3. \A w \in 1..Win : Len(Text(s)) - Win + w = Len(s) + w
  BY <1>1, Constants
<1> QED
  BY <1>1, <1>2, <1>3 DEF Window, Text

\* The text of s followed by t, past what it shares with that of s.
LEMMA TextJoins ==
  ASSUME NEW s \in Seq(Toks), NEW t \in Seq(Toks)
  PROVE  /\ s \o t \in Seq(Toks) /\ Len(s \o t) = Len(s) + Len(t)
         /\ \A i \in 1..Win + Len(s) : Text(s \o t)[i] = Text(s)[i]
         /\ \A i \in 1..Len(t) : Text(s \o t)[Win + Len(s) + i] = t[i]
<1>1. /\ s \o t \in Seq(Toks) /\ Len(s \o t) = Len(s) + Len(t)
      /\ \A i \in 1..Len(s) + Len(t) : (s \o t)[i] = IF i <= Len(s) THEN s[i] ELSE t[i - Len(s)]
  BY ConcatProperties
<1>2. Len(s) \in Nat /\ Len(t) \in Nat /\ Win \in Nat \ {0}
  BY Constants
<1>3. /\ \A i \in 1..Win : Text(s \o t)[i] = Pad
      /\ \A i \in 1..Len(s) + Len(t) : Text(s \o t)[Win + i] = (s \o t)[i]
  BY <1>1, TextIs
<1>4. ASSUME NEW i \in 1..Win + Len(s) PROVE Text(s \o t)[i] = Text(s)[i]
  <2>1. CASE i <= Win
    <3>1. i \in 1..Win
      BY <1>2, <2>1
    <3>2. Text(s)[i] = Pad /\ Text(s \o t)[i] = Pad
      BY <1>3, <3>1, TextIs
    <3> QED
      BY <3>2
  <2>2. CASE i > Win
    <3>1. i - Win \in 1..Len(s) /\ i - Win \in 1..Len(s) + Len(t) /\ Win + (i - Win) = i
      BY <1>2, <2>2
    <3>2. Text(s)[Win + (i - Win)] = s[i - Win]
      BY <3>1, TextIs
    <3>3. Text(s \o t)[Win + (i - Win)] = (s \o t)[i - Win]
      BY <1>3, <3>1
    <3>4. (s \o t)[i - Win] = s[i - Win]
      BY <1>1, <1>2, <3>1
    <3> QED
      BY <3>1, <3>2, <3>3, <3>4
  <2> QED
    BY <1>2, <2>1, <2>2
<1>5. ASSUME NEW i \in 1..Len(t) PROVE Text(s \o t)[Win + Len(s) + i] = t[i]
  <2>1. Len(s) + i \in 1..Len(s) + Len(t) /\ Win + (Len(s) + i) = Win + Len(s) + i
    BY <1>2
  <2>2. (s \o t)[Len(s) + i] = t[i]
    BY <1>1, <1>2, <2>1
  <2> QED
    BY <1>3, <2>1, <2>2
<1> QED
  BY <1>1, <1>4, <1>5

\* The window at s with t behind it is the end of the text of both.
LEMMA WindowText ==
  ASSUME NEW s \in Seq(Toks), NEW t \in Seq(Toks)
  PROVE  /\ Window(s) \o t \in Seq(Toks) /\ Len(Window(s) \o t) = Win + Len(t)
         /\ \A i \in 1..Win + Len(t) : (Window(s) \o t)[i] = Text(s \o t)[Len(s) + i]
<1>1. /\ Window(s) \in Seq(Toks) /\ Len(Window(s)) = Win /\ Len(s) \in Nat
      /\ \A w \in 1..Win : Window(s)[w] = Text(s)[Len(s) + w]
  BY WindowIs
<1>2. /\ Window(s) \o t \in Seq(Toks) /\ Len(Window(s) \o t) = Win + Len(t)
      /\ \A i \in 1..Win + Len(t) : (Window(s) \o t)[i] = IF i <= Win THEN Window(s)[i] ELSE t[i - Win]
  BY <1>1, ConcatProperties
<1>3. Len(t) \in Nat /\ Win \in Nat \ {0}
  BY Constants
<1>4. ASSUME NEW i \in 1..Win + Len(t) PROVE (Window(s) \o t)[i] = Text(s \o t)[Len(s) + i]
  <2>1. CASE i <= Win
    <3>1. Len(s) + i \in 1..Win + Len(s) /\ i \in 1..Win
      BY <1>1, <1>3, <2>1
    <3> QED
      BY <1>1, <1>2, <2>1, <3>1, TextJoins
  <2>2. CASE i > Win
    <3>1. i - Win \in 1..Len(t) /\ Win + Len(s) + (i - Win) = Len(s) + i
      BY <1>1, <1>3, <2>2
    <3>2. Text(s \o t)[Win + Len(s) + (i - Win)] = t[i - Win]
      BY <3>1, TextJoins
    <3>3. (Window(s) \o t)[i] = t[i - Win]
      BY <1>2, <1>3, <2>2
    <3> QED
      BY <3>1, <3>2, <3>3
  <2>3. i <= Win \/ i > Win
    BY <1>3
  <2> QED
    BY Zenon, <2>1, <2>2, <2>3
<1> QED
  BY <1>2, <1>4

\* A window goes on to that of the longer text.
LEMMA WindowGoesOn ==
  ASSUME NEW s \in Seq(Toks), NEW t \in Seq(Toks)
  PROVE  LastOf(Window(s) \o t) = Window(s \o t)
<1>1. /\ Window(s) \o t \in Seq(Toks) /\ Len(Window(s) \o t) = Win + Len(t)
      /\ \A i \in 1..Win + Len(t) : (Window(s) \o t)[i] = Text(s \o t)[Len(s) + i]
  BY WindowText
<1>2. Len(s) \in Nat /\ Len(t) \in Nat /\ Win \in Nat \ {0} /\ s \o t \in Seq(Toks) /\ Len(s \o t) = Len(s) + Len(t)
  BY Constants, ConcatProperties
<1>3. /\ LastOf(Window(s) \o t) \in Seq(Toks) /\ Len(LastOf(Window(s) \o t)) = Win
      /\ \A w \in 1..Win : LastOf(Window(s) \o t)[w] = (Window(s) \o t)[Win + Len(t) - Win + w]
  <2> DEFINE u == Window(s) \o t
  <2>1. u \in Seq(Toks) /\ Len(u) = Win + Len(t)
    BY <1>1
  <2> HIDE DEF u
  <2>2. Len(u) >= Win
    BY <1>2, <2>1
  <2>3. /\ LastOf(u) \in Seq(Toks) /\ Len(LastOf(u)) = Win
        /\ \A w \in 1..Win : LastOf(u)[w] = u[Len(u) - Win + w]
    BY <2>1, <2>2, LastOfIs
  <2> QED
    BY <2>1, <2>3 DEF u
<1>4. /\ Window(s \o t) \in Seq(Toks) /\ Len(Window(s \o t)) = Win
      /\ \A w \in 1..Win : Window(s \o t)[w] = Text(s \o t)[Len(s) + Len(t) + w]
  BY <1>2, WindowIs
<1>5. ASSUME NEW w \in 1..Win PROVE LastOf(Window(s) \o t)[w] = Window(s \o t)[w]
  <2>1. Win + Len(t) - Win + w = Len(t) + w /\ Len(t) + w \in 1..Win + Len(t) /\ Len(s) + (Len(t) + w) = Len(s) + Len(t) + w
    BY <1>2
  <2> QED
    BY <1>1, <1>3, <1>4, <2>1
<1> QED
  BY <1>3, <1>4, <1>5, SeqEqual

\* A chunk at least as long as the window needs no state from before it.
LEMMA WindowAlone ==
  ASSUME NEW s \in Seq(Toks), NEW t \in Seq(Toks), Len(t) >= Win
  PROVE  LastOf(t) = Window(s \o t)
<1>1. Len(s) \in Nat /\ Len(t) \in Nat /\ Win \in Nat \ {0} /\ s \o t \in Seq(Toks) /\ Len(s \o t) = Len(s) + Len(t)
  BY Constants, ConcatProperties
<1>2. /\ LastOf(t) \in Seq(Toks) /\ Len(LastOf(t)) = Win
      /\ \A w \in 1..Win : LastOf(t)[w] = t[Len(t) - Win + w]
  BY LastOfIs
<1>3. /\ Window(s \o t) \in Seq(Toks) /\ Len(Window(s \o t)) = Win
      /\ \A w \in 1..Win : Window(s \o t)[w] = Text(s \o t)[Len(s) + Len(t) + w]
  BY <1>1, WindowIs
<1>4. ASSUME NEW w \in 1..Win PROVE LastOf(t)[w] = Window(s \o t)[w]
  <2>1. Len(t) - Win + w \in 1..Len(t) /\ Win + Len(s) + (Len(t) - Win + w) = Len(s) + Len(t) + w
    BY <1>1
  <2>2. Text(s \o t)[Win + Len(s) + (Len(t) - Win + w)] = t[Len(t) - Win + w]
    BY <2>1, TextJoins
  <2> QED
    BY <1>2, <1>3, <2>1, <2>2
<1> QED
  BY <1>2, <1>3, <1>4, SeqEqual

\* The first k tokens of t.
LEMMA FirstOf ==
  ASSUME NEW t \in Seq(Toks), NEW k \in 0..Len(t)
  PROVE  /\ SubSeq(t, 1, k) \in Seq(Toks) /\ Len(SubSeq(t, 1, k)) = k
         /\ \A i \in 1..k : SubSeq(t, 1, k)[i] = t[i]
<1>1. Len(t) \in Nat /\ \A i \in 1..k : t[i] \in Toks
  OBVIOUS
<1>2. /\ SubSeq(t, 1, k) \in Seq(Toks) /\ Len(SubSeq(t, 1, k)) = IF 1 <= k THEN k - 1 + 1 ELSE 0
      /\ \A i \in 1..k - 1 + 1 : SubSeq(t, 1, k)[i] = t[1 + i - 1]
  BY <1>1, SubSeqProperties
<1> QED
  BY <1>1, <1>2

\* What a side state's row holds at place i, of the text.
LEMMA ContextIs ==
  ASSUME NEW s \in Seq(Toks), NEW t \in Seq(Toks), NEW width \in Int
  PROVE  /\ Context(Window(s), t, width) \in Seq(Toks)
         /\ Len(Context(Window(s), t, width)) >= Win + Len(t)
         /\ \A i \in 1..Win + Len(t) : Context(Window(s), t, width)[i] = Text(s \o t)[Len(s) + i]
<1> DEFINE u == Window(s) \o t
           pads == [i \in 1..width - Len(t) |-> Pad]
<1>1. u \in Seq(Toks) /\ Len(u) = Win + Len(t) /\ \A i \in 1..Win + Len(t) : u[i] = Text(s \o t)[Len(s) + i]
  BY WindowText
<1>2. Len(t) \in Nat /\ Win \in Nat \ {0}
  BY Constants
<1>3. pads \in Seq(Toks)
  <2>1. CASE width - Len(t) \in Nat
    BY <2>1, TokenTypes
  <2>2. CASE ~(width - Len(t) \in Nat)
    <3>1. 1..(width - Len(t)) = 1..0
      BY <1>2, <2>2
    <3> QED
      BY <3>1, TokenTypes
  <2> QED
    BY <2>1, <2>2
<1> HIDE DEF u, pads
<1>4. /\ u \o pads \in Seq(Toks) /\ Len(u \o pads) = Len(u) + Len(pads) /\ Len(pads) \in Nat
      /\ \A i \in 1..Len(u) + Len(pads) : (u \o pads)[i] = IF i <= Len(u) THEN u[i] ELSE pads[i - Len(u)]
  <2>1. u \in Seq(Toks) /\ Len(pads) \in Nat
    BY <1>1, <1>3
  <2> QED
    BY <1>3, <2>1, ConcatProperties
<1>5. Context(Window(s), t, width) = u \o pads
  BY DEF Context, u, pads
<1>6. Len(u) \in Nat /\ \A i \in 1..Len(u) : (u \o pads)[i] = u[i]
  BY <1>1, <1>2, <1>4
<1> QED
  BY <1>1, <1>2, <1>4, <1>5, <1>6

\* The side state k tokens into the row.
LEMMA Gathered ==
  ASSUME NEW s \in Seq(Toks), NEW t \in Seq(Toks), NEW width \in Int, NEW k \in 0..Len(t)
  PROVE  Gather(Context(Window(s), t, width), k) = Window(s \o SubSeq(t, 1, k))
<1> DEFINE c == Context(Window(s), t, width)
           f == SubSeq(t, 1, k)
<1>1. c \in Seq(Toks) /\ Len(c) >= Win + Len(t) /\ \A i \in 1..Win + Len(t) : c[i] = Text(s \o t)[Len(s) + i]
  BY ContextIs
<1>2. Len(t) \in Nat /\ Len(s) \in Nat /\ Len(c) \in Nat /\ Win \in Nat \ {0} /\ k \in Nat
  BY <1>1, Constants
<1>3. f \in Seq(Toks) /\ Len(f) = k /\ \A i \in 1..k : f[i] = t[i]
  BY FirstOf
<1> HIDE DEF c, f
<1>4. \A i \in k + 1..k + Win : c[i] \in Toks
  BY <1>1, <1>2
<1>5. /\ SubSeq(c, k + 1, k + Win) \in Seq(Toks)
      /\ Len(SubSeq(c, k + 1, k + Win)) = IF k + 1 <= k + Win THEN k + Win - (k + 1) + 1 ELSE 0
      /\ \A i \in 1..k + Win - (k + 1) + 1 : SubSeq(c, k + 1, k + Win)[i] = c[k + 1 + i - 1]
  BY <1>2, <1>4, SubSeqProperties
<1>6. k + Win - (k + 1) + 1 = Win /\ k + 1 <= k + Win
  BY <1>2
<1>7. /\ Window(s \o f) \in Seq(Toks) /\ Len(Window(s \o f)) = Win /\ Len(s \o f) = Len(s) + k
      /\ \A w \in 1..Win : Window(s \o f)[w] = Text(s \o f)[Len(s) + k + w]
  <2>1. s \o f \in Seq(Toks) /\ Len(s \o f) = Len(s) + k
    BY <1>3, ConcatProperties
  <2> QED
    BY <2>1, WindowIs
<1>8. ASSUME NEW w \in 1..Win PROVE SubSeq(c, k + 1, k + Win)[w] = Window(s \o f)[w]
  <2>1. k + 1 + w - 1 = k + w /\ k + w \in 1..Win + Len(t)
    BY <1>2
  <2>2. SubSeq(c, k + 1, k + Win)[w] = Text(s \o t)[Len(s) + (k + w)]
    BY <1>1, <1>5, <1>6, <2>1
  <2>3. Len(s) + (k + w) = Len(s) + k + w
    BY <1>2
  <2>4. Text(s \o t)[Len(s) + k + w] = Text(s \o f)[Len(s) + k + w]
    <3>1. CASE k + w <= Win
      <4>1. Len(s) + k + w \in 1..Win + Len(s)
        BY <1>2, <3>1
      <4> QED
        BY <1>3, <4>1, TextJoins
    <3>2. CASE k + w > Win
      <4>1. k + w - Win \in 1..k /\ k + w - Win \in 1..Len(t) /\ Win + Len(s) + (k + w - Win) = Len(s) + k + w
        BY <1>2, <3>2
      <4>2. Text(s \o t)[Win + Len(s) + (k + w - Win)] = t[k + w - Win]
        BY <4>1, TextJoins
      <4>3. Text(s \o f)[Win + Len(s) + (k + w - Win)] = f[k + w - Win]
        BY <1>3, <4>1, TextJoins
      <4> QED
        BY <1>3, <4>1, <4>2, <4>3
    <3> QED
      BY <1>2, <3>1, <3>2
  <2> QED
    BY <1>7, <2>2, <2>3, <2>4
<1> QED
  BY <1>5, <1>6, <1>7, <1>8, SeqEqual DEF Gather, c, f

-----------------------------------------------------------------------------
(* N-grams                                                                   *)

\* The n-grams of a window over the side state are those of the whole text u.
LEMMA GramIs ==
  ASSUME NEW u \in Seq(Toks), Len(u) > 0, NEW window, NEW k \in 1..Win,
         \A i \in 1..Win + 1 : window[i] = Text(u)[Len(u) + i - 1]
  PROVE  Shifted(window, k) = Reference(u, k)
<1> DEFINE n == Len(u)
           i0 == Win + 1 - k
           clear == \A i \in EosIn(window) : i <= Win - k
<1>1. /\ n \in Nat /\ n > 0 /\ Win \in Nat \ {0} /\ k \in Nat /\ k <= Win /\ k > 0
      /\ i0 \in 1..Win /\ i0 > Win - k
  BY Constants, TextIs
<1>2. /\ \A i \in 1..Win : Text(u)[i] = Pad
      /\ \A x \in 1..n : Text(u)[Win + x] = u[x]
  BY TextIs
<1>3. \A i \in 1..Win + 1 : window[i] = Text(u)[n + i - 1]
  OBVIOUS
<1>4. Shifted(window, k) = IF clear THEN window[i0] ELSE Pad
  BY DEF Shifted
<1>5. Reference(u, k) = IF n > k /\ \A x \in n - k..n - 1 : ~IsEos(u[x]) THEN u[n - k] ELSE Pad
  BY DEF Reference
<1>6. clear <=> \A i \in i0..Win : ~IsEos(window[i])
  <2>1. ASSUME clear, NEW i \in i0..Win PROVE ~IsEos(window[i])
    <3>1. i \in 1..Win /\ ~(i <= Win - k)
      BY <1>1
    <3> QED
      BY <2>1, <3>1 DEF EosIn
  <2>2. ASSUME \A i \in i0..Win : ~IsEos(window[i]), NEW i \in EosIn(window) PROVE i <= Win - k
    <3>1. i \in 1..Win /\ IsEos(window[i])
      BY DEF EosIn
    <3>2. i \notin i0..Win
      BY <2>2, <3>1
    <3> QED
      BY <1>1, <3>1, <3>2
  <2> QED
    BY <2>1, <2>2
<1>7. CASE n > k
  <2> HIDE DEF n, i0, clear
  <2>1. ASSUME NEW i \in i0..Win PROVE n + i - Win - 1 \in n - k..n - 1 /\ window[i] = u[n + i - Win - 1]
    <3>1. /\ i \in 1..Win + 1 /\ n + i - Win - 1 \in n - k..n - 1 /\ n + i - Win - 1 \in 1..n
          /\ Win + (n + i - Win - 1) = n + i - 1
      BY <1>1, <1>7 DEF i0
    <3>2. window[i] = Text(u)[n + i - 1]
      BY <1>3, <3>1
    <3>3. Text(u)[Win + (n + i - Win - 1)] = u[n + i - Win - 1]
      BY <1>2, <3>1
    <3> QED
      BY <3>1, <3>2, <3>3
  <2>2. ASSUME NEW x \in n - k..n - 1
        PROVE  x + Win + 1 - n \in i0..Win /\ window[x + Win + 1 - n] = u[x]
    <3>1. x + Win + 1 - n \in i0..Win /\ n + (x + Win + 1 - n) - Win - 1 = x
      BY <1>1, <1>7 DEF i0
    <3> QED
      BY <2>1, <3>1
  <2>3. (\A i \in i0..Win : ~IsEos(window[i])) <=> \A x \in n - k..n - 1 : ~IsEos(u[x])
    <3>1. ASSUME \A i \in i0..Win : ~IsEos(window[i]), NEW x \in n - k..n - 1 PROVE ~IsEos(u[x])
      BY <2>2, <3>1
    <3>2. ASSUME \A x \in n - k..n - 1 : ~IsEos(u[x]), NEW i \in i0..Win PROVE ~IsEos(window[i])
      BY <2>1, <3>2
    <3> QED
      BY <3>1, <3>2
  <2>4. window[i0] = u[n - k]
    <3>1. i0 \in i0..Win /\ n + i0 - Win - 1 = n - k
      BY <1>1 DEF i0
    <3> QED
      BY <2>1, <3>1
  <2> QED
    BY <1>4, <1>5, <1>6, <1>7, <2>3, <2>4
<1>8. CASE n <= k
  <2>1. n + i0 - 1 \in 1..Win /\ i0 \in 1..Win + 1
    BY <1>1, <1>8
  <2>2. window[i0] = Pad
    BY <1>2, <1>3, <2>1
  <2>3. i0 \in EosIn(window)
    BY <1>1, <2>2 DEF EosIn, IsEos
  <2>4. ~clear
    BY <1>1, <2>3
  <2>5. ~(n > k)
    BY <1>1, <1>8
  <2> QED
    BY <1>4, <1>5, <2>4, <2>5
<1> QED
  BY <1>1, <1>7, <1>8

-----------------------------------------------------------------------------
(* Writes and batches                                                        *)

LEMMA WriteIs ==
  ASSUME NEW buf, NEW n \in Nat, NEW W, DOMAIN W = 1..n
  PROVE  /\ DOMAIN Write(buf, W) = DOMAIN buf
         /\ \A s \in DOMAIN buf : (\A i \in 1..n : W[i][1] # s) => Write(buf, W)[s] = buf[s]
         /\ \A s \in DOMAIN buf, k \in 1..n :
              W[k][1] = s /\ (\A i \in 1..n : W[i][1] = s => i = k) => Write(buf, W)[s] = W[k][2]
<1>1. DOMAIN Write(buf, W) = DOMAIN buf
  BY DEF Write
<1>2. ASSUME NEW s \in DOMAIN buf
      PROVE  Write(buf, W)[s] = LET to == {i \in 1..n : W[i][1] = s}
                                IN  IF to = {} THEN buf[s] ELSE W[Max(to)][2]
  BY DEF Write
<1>3. ASSUME NEW s \in DOMAIN buf, \A i \in 1..n : W[i][1] # s
      PROVE  Write(buf, W)[s] = buf[s]
  <2>1. {i \in 1..n : W[i][1] = s} = {}
    BY <1>3
  <2> QED
    BY <1>2, <2>1
<1>4. ASSUME NEW s \in DOMAIN buf, NEW k \in 1..n,
             W[k][1] = s, \A i \in 1..n : W[i][1] = s => i = k
      PROVE  Write(buf, W)[s] = W[k][2]
  <2> DEFINE to == {i \in 1..n : W[i][1] = s}
  <2>1. k \in to /\ to \in SUBSET (0..n)
    BY <1>4
  <2>2. Max(to) \in to
    BY <2>1, Largest
  <2>3. Write(buf, W)[s] = W[Max(to)][2]
    BY <1>2, <2>1
  <2> QED
    BY <1>4, <2>2, <2>3
<1> QED
  BY <1>1, <1>3, <1>4

\* Two rounds of writes to slots that are not the dummy.
LEMMA WriteLiveIs ==
  ASSUME NEW buf, NEW first, NEW second
  PROVE  /\ DOMAIN WriteLive(buf, first, second) = DOMAIN buf
         /\ \A s \in DOMAIN buf : s # Dummy =>
              WriteLive(buf, first, second)[s] = Write(Write(buf, first), second)[s]
BY DEF WriteLive, Write

\* A batch lists a set of requests, each once.
LEMMA BatchIs ==
  ASSUME NEW S \in SUBSET Reqs, NEW B \in SetToSeqs(S)
  PROVE  /\ Len(B) \in Nat /\ DOMAIN B = 1..Len(B) /\ Len(B) = Cardinality(S)
         /\ \A i \in DOMAIN B : B[i] \in S /\ B[i] \in Reqs
         /\ \A i, k \in DOMAIN B : B[i] = B[k] => i = k
         /\ \A r \in S : \E i \in DOMAIN B : B[i] = r
<1> DEFINE n == Cardinality(S)
<1>1. IsFiniteSet(S) /\ n \in Nat
  BY Constants, FS_Subset, FS_CardinalityType
<1>2. B \in [1..n -> S] /\ \A i, k \in 1..n : i # k => B[i] # B[k]
  BY DEF SetToSeqs
<1> HIDE DEF n
<1>3. Cardinality(1..n) = n
  <2>1. Cardinality(1..n) = IF 1 > n THEN 0 ELSE n - 1 + 1
    BY <1>1, FS_Interval
  <2> QED
    BY <1>1, <2>1
<1>4. B \in Injection(1..n, S)
  BY <1>2 DEF Injection, IsInjective
<1>5. B \in Surjection(1..n, S)
  BY <1>1, <1>3, <1>4, FS_Injection DEF n
<1>6. \A r \in S : \E i \in 1..n : B[i] = r
  BY <1>5 DEF Surjection
<1>7. Len(B) = n /\ DOMAIN B = 1..n
  BY <1>1, <1>2
<1> QED
  BY <1>1, <1>2, <1>6, <1>7 DEF n

-----------------------------------------------------------------------------
(* Paths down a tree                                                         *)

\* PathTo with the length the window was computed at.
PathFn(r, at, p, j) ==
  CHOOSE f : f = [n \in 0..j |-> IF n = 0 THEN <<Token(r, at, 0)>> ELSE Append(f[p[n]], Token(r, at, n))]
PathFrom(r, at, p, j) == PathFn(r, at, p, j)[j]

LEMMA PathToIs == \A r, p, j : PathTo(r, p, j) = PathFrom(r, len(r), p, j)
BY DEF PathTo, PathFrom, PathFn, Draft

\* Of a window of d, every node but the root hangs from an earlier one.
Hangs(d, p) == \A j \in 1..d - 1 : p[j] \in 0..j - 1

LEMMA TreesHang ==
  ASSUME NEW d \in Nat \ {0}, NEW p \in Trees(d)
  PROVE  Hangs(d, p) /\ (mode # "tree" => \A j \in 1..d - 1 : p[j] = j - 1)
<1>1. CASE mode = "tree"
  BY <1>1 DEF Trees, Hangs
<1>2. CASE mode # "tree"
  BY <1>2 DEF Trees, Hangs
<1> QED
  BY <1>1, <1>2

LEMMA PathFnIs ==
  ASSUME NEW r, NEW at, NEW p, NEW d \in Nat \ {0}, Hangs(d, p), NEW j \in 0..d - 1
  PROVE  \A n \in 0..j :
           PathFn(r, at, p, j)[n] = IF n = 0 THEN <<Token(r, at, 0)>>
                                    ELSE Append(PathFn(r, at, p, j)[p[n]], Token(r, at, n))
<1> DEFINE Sat(f, k) == f = [n \in 0..k |-> IF n = 0 THEN <<Token(r, at, 0)>>
                                           ELSE Append(f[p[n]], Token(r, at, n))]
           Bad == {k \in 0..d - 1 : ~\E f : Sat(f, k)}
<1>1. Bad = {}
  <2> SUFFICES ASSUME Bad # {} PROVE FALSE
    OBVIOUS
  <2>1. PICK k \in Bad : \A y \in Bad : k <= y
    <3>1. Bad \in SUBSET Nat
      OBVIOUS
    <3> QED
      BY <3>1, Smallest
  <2>2. k # 0
    <3>1. Sat([n \in 0..0 |-> <<Token(r, at, 0)>>], 0)
      OBVIOUS
    <3> QED
      BY <3>1
  <2>3. k \in 1..d - 1 /\ k - 1 \in 0..d - 1 /\ k - 1 \notin Bad
    <3>1. k \in 0..d - 1
      BY <2>1
    <3>2. k - 1 \in 0..d - 1 /\ ~(k <= k - 1)
      BY <2>2, <3>1
    <3> HIDE DEF Bad
    <3> QED
      BY <2>1, <2>2, <3>1, <3>2
  <2>4. PICK g : Sat(g, k - 1)
    BY <2>3
  <2> DEFINE h == [n \in 0..k |-> IF n = k THEN Append(g[p[k]], Token(r, at, k)) ELSE g[n]]
  <2>5. ASSUME NEW n \in 0..k
        PROVE  h[n] = IF n = 0 THEN <<Token(r, at, 0)>> ELSE Append(h[p[n]], Token(r, at, n))
    <3>1. CASE n = k
      <4>1. p[k] \in 0..k - 1 /\ p[k] \in 0..k /\ p[k] # k
        BY <2>3 DEF Hangs
      <4>2. h[p[k]] = g[p[k]]
        BY <4>1
      <4>3. h[k] = Append(g[p[k]], Token(r, at, k))
        BY <3>1
      <4> HIDE DEF h
      <4> QED
        BY <2>2, <3>1, <4>2, <4>3
    <3>2. CASE n # k
      <4>1. n \in 0..k - 1
        BY <2>3, <3>2
      <4>2. h[n] = g[n] /\ g[n] = IF n = 0 THEN <<Token(r, at, 0)>> ELSE Append(g[p[n]], Token(r, at, n))
        BY <2>4, <3>2, <4>1
      <4>3. n # 0 => p[n] \in 0..k /\ p[n] # k
        BY <2>3, <4>1 DEF Hangs
      <4>4. n # 0 => h[p[n]] = g[p[n]]
        BY <4>3
      <4> QED
        BY <4>2, <4>4
    <3> QED
      BY <3>1, <3>2
  <2>6. Sat(h, k)
    <3> DEFINE F == [n \in 0..k |-> IF n = 0 THEN <<Token(r, at, 0)>> ELSE Append(h[p[n]], Token(r, at, n))]
    <3>1. \A n \in 0..k : h[n] = F[n]
      BY <2>5
    <3>2. h = [n \in 0..k |-> h[n]] /\ F = [n \in 0..k |-> F[n]]
      OBVIOUS
    <3> HIDE DEF h, F
    <3>3. h = F
      BY <3>1, <3>2
    <3> QED
      BY <3>3 DEF F
  <2> QED
    BY <2>1, <2>6
<1>2. PICK f : Sat(f, j)
  BY <1>1
<1>3. PathFn(r, at, p, j) = CHOOSE g : Sat(g, j)
  BY DEF PathFn
<1>4. Sat(CHOOSE g : Sat(g, j), j)
  BY <1>2
<1> HIDE DEF Sat
<1>5. Sat(PathFn(r, at, p, j), j)
  BY <1>3, <1>4
<1> DEFINE path == PathFn(r, at, p, j)
<1> HIDE DEF path
<1>6. Sat(path, j)
  BY <1>5 DEF path
<1>7. \A n \in 0..j : path[n] = IF n = 0 THEN <<Token(r, at, 0)>> ELSE Append(path[p[n]], Token(r, at, n))
  BY <1>6 DEF Sat
<1> QED
  BY <1>7 DEF path

\* Paths to the same node agree, however far they were computed.
LEMMA PathFnSame ==
  ASSUME NEW r, NEW at, NEW p, NEW d \in Nat \ {0}, Hangs(d, p), NEW j \in 0..d - 1, NEW k \in 0..j
  PROVE  \A n \in 0..k : PathFn(r, at, p, j)[n] = PathFn(r, at, p, k)[n]
<1> DEFINE f == PathFn(r, at, p, j)
           g == PathFn(r, at, p, k)
           Bad == {n \in 0..k : f[n] # g[n]}
<1>1. k \in 0..d - 1
  OBVIOUS
<1>2. /\ \A n \in 0..j : f[n] = IF n = 0 THEN <<Token(r, at, 0)>> ELSE Append(f[p[n]], Token(r, at, n))
      /\ \A n \in 0..k : g[n] = IF n = 0 THEN <<Token(r, at, 0)>> ELSE Append(g[p[n]], Token(r, at, n))
  BY <1>1, PathFnIs
<1> HIDE DEF f, g
<1>3. Bad = {}
  <2> SUFFICES ASSUME Bad # {} PROVE FALSE
    OBVIOUS
  <2>1. PICK n \in Bad : \A y \in Bad : n <= y
    <3>1. Bad \in SUBSET Nat
      OBVIOUS
    <3> QED
      BY <3>1, Smallest
  <2>2. n \in 0..k /\ n \in 0..j /\ f[n] # g[n]
    BY <2>1
  <2>3. n # 0
    BY <1>2, <2>2
  <2>4. p[n] \in 0..n - 1 /\ p[n] \in 0..k
    BY <1>1, <2>2, <2>3 DEF Hangs
  <2>5. p[n] \notin Bad
    BY <2>1, <2>4
  <2>6. f[p[n]] = g[p[n]]
    BY <2>4, <2>5
  <2> QED
    BY <1>2, <2>2, <2>3, <2>6
<1> QED
  BY <1>3 DEF f, g

\* The drafts on the way to a node.
LEMMA PathFromIs ==
  ASSUME NEW r \in Reqs, NEW at \in Nat, NEW p, NEW d \in Nat \ {0}, Hangs(d, p)
  PROVE  /\ PathFrom(r, at, p, 0) = <<Token(r, at, 0)>>
         /\ \A j \in 1..d - 1 : PathFrom(r, at, p, j) = Append(PathFrom(r, at, p, p[j]), Token(r, at, j))
         /\ \A j \in 0..d - 1 : PathFrom(r, at, p, j) \in Seq(Toks)
<1>1. ASSUME NEW j \in 0..d - 1
      PROVE  PathFrom(r, at, p, j) = IF j = 0 THEN <<Token(r, at, 0)>>
                                     ELSE Append(PathFn(r, at, p, j)[p[j]], Token(r, at, j))
  <2> DEFINE f == PathFn(r, at, p, j)
  <2>1. j \in 0..j
    OBVIOUS
  <2>2. \A n \in 0..j : f[n] = IF n = 0 THEN <<Token(r, at, 0)>> ELSE Append(f[p[n]], Token(r, at, n))
    BY PathFnIs
  <2> HIDE DEF f
  <2>3. f[j] = IF j = 0 THEN <<Token(r, at, 0)>> ELSE Append(f[p[j]], Token(r, at, j))
    BY <2>1, <2>2
  <2> QED
    BY <2>3 DEF PathFrom, f
<1>2. PathFrom(r, at, p, 0) = <<Token(r, at, 0)>>
  <2>1. 0 \in 0..d - 1
    OBVIOUS
  <2> QED
    BY <1>1, <2>1
<1>3. ASSUME NEW j \in 1..d - 1
      PROVE  p[j] \in 0..j - 1 /\ PathFrom(r, at, p, j) = Append(PathFrom(r, at, p, p[j]), Token(r, at, j))
  <2>1. j \in 0..d - 1 /\ j # 0 /\ p[j] \in 0..j - 1 /\ p[j] \in 0..j /\ p[j] \in 0..p[j]
    BY DEF Hangs
  <2>2. PathFn(r, at, p, j)[p[j]] = PathFn(r, at, p, p[j])[p[j]]
    BY <2>1, PathFnSame
  <2> QED
    BY <1>1, <2>1, <2>2 DEF PathFrom
<1> DEFINE Bad == {j \in 0..d - 1 : PathFrom(r, at, p, j) \notin Seq(Toks)}
<1>4. Bad = {}
  <2> SUFFICES ASSUME Bad # {} PROVE FALSE
    OBVIOUS
  <2>1. PICK j \in Bad : \A y \in Bad : j <= y
    <3>1. Bad \in SUBSET Nat
      OBVIOUS
    <3> QED
      BY <3>1, Smallest
  <2>2. Token(r, at, j) \in Toks /\ Token(r, at, 0) \in Toks
    BY TokenTypes
  <2>3. j # 0
    <3>1. <<Token(r, at, 0)>> \in Seq(Toks)
      BY <2>2
    <3>2. PathFrom(r, at, p, j) \notin Seq(Toks)
      BY <2>1
    <3> QED
      BY <1>2, <3>1, <3>2
  <2>4. p[j] \in 0..j - 1 /\ PathFrom(r, at, p, j) = Append(PathFrom(r, at, p, p[j]), Token(r, at, j))
    BY <1>3, <2>3
  <2>5. p[j] \notin Bad /\ p[j] \in 0..d - 1
    BY <2>1, <2>4
  <2>6. PathFrom(r, at, p, p[j]) \in Seq(Toks)
    BY <2>5
  <2> QED
    BY <2>2, <2>4, <2>6
<1> QED
  BY <1>2, <1>3, <1>4

\* The drafts that an accepted path took.
Taken(r, at, q, m) == [k \in 1..m |-> Token(r, at, q[k])]
Descends(p, d, n, q) ==
  /\ q \in [1..n -> 0..d - 1] /\ (n > 0 => q[1] = 0)
  /\ \A k \in 2..n : q[k] > 0 /\ p[q[k]] = q[k - 1]

LEMMA PathTaken ==
  ASSUME NEW r \in Reqs, NEW at \in Nat, NEW p, NEW d \in Nat \ {0}, Hangs(d, p),
         NEW n \in Nat, NEW q, Descends(p, d, n, q)
  PROVE  \A m \in 1..n : PathFrom(r, at, p, q[m]) = Taken(r, at, q, m)
<1> USE DEF Descends
<1> DEFINE Bad == {m \in 1..n : PathFrom(r, at, p, q[m]) # Taken(r, at, q, m)}
<1> SUFFICES ASSUME Bad # {} PROVE FALSE
  OBVIOUS
<1>1. PICK m \in Bad : \A y \in Bad : m <= y
  <2>1. Bad \in SUBSET Nat
    OBVIOUS
  <2> QED
    BY <2>1, Smallest
<1>2. m \in 1..n /\ n > 0 /\ q[1] = 0
  BY <1>1
<1>3. m # 1
  <2>1. Taken(r, at, q, 1) = <<Token(r, at, 0)>>
    BY <1>2 DEF Taken
  <2> QED
    BY <1>1, <1>2, <2>1, PathFromIs
<1>4. m \in 2..n /\ m - 1 \in 1..n /\ m - 1 \notin Bad
  BY <1>1, <1>2, <1>3
<1>5. PathFrom(r, at, p, q[m - 1]) = Taken(r, at, q, m - 1)
  BY <1>4
<1>6. q[m] \in 1..d - 1 /\ p[q[m]] = q[m - 1]
  BY <1>4
<1>7. PathFrom(r, at, p, q[m]) = Append(Taken(r, at, q, m - 1), Token(r, at, q[m]))
  <2> DEFINE j == q[m]
  <2>1. j \in 1..d - 1 /\ p[j] = q[m - 1]
    BY <1>6
  <2> HIDE DEF j
  <2>2. PathFrom(r, at, p, j) = Append(PathFrom(r, at, p, p[j]), Token(r, at, j))
    BY <2>1, PathFromIs
  <2> QED
    BY <1>5, <2>1, <2>2 DEF j
<1>8. Append(Taken(r, at, q, m - 1), Token(r, at, q[m])) = Taken(r, at, q, m)
  <2>1. \A k \in 1..n : Token(r, at, q[k]) \in Toks
    BY TokenTypes
  <2>2. Taken(r, at, q, m - 1) \in Seq(Toks) /\ Len(Taken(r, at, q, m - 1)) = m - 1
    BY <1>4, <2>1 DEF Taken
  <2>3. Taken(r, at, q, m) \in Seq(Toks) /\ Len(Taken(r, at, q, m)) = m
    BY <1>4, <2>1 DEF Taken
  <2> DEFINE a == Taken(r, at, q, m - 1)
             b == Taken(r, at, q, m)
             t == Token(r, at, q[m])
  <2>4. (\A k \in 1..m - 1 : a[k] = b[k]) /\ b[m] = t /\ t \in Toks
    BY <1>4, <2>1 DEF Taken
  <2> HIDE DEF a, b, t
  <2>5. a \in Seq(Toks) /\ Len(a) = m - 1 /\ b \in Seq(Toks) /\ Len(b) = m /\ m \in Nat
    BY <1>4, <2>2, <2>3 DEF a, b
  <2>6. /\ Append(a, t) \in Seq(Toks) /\ Len(Append(a, t)) = m
        /\ \A k \in 1..m - 1 : Append(a, t)[k] = a[k]
        /\ Append(a, t)[m] = t
    <3>1. /\ Append(a, t) \in Seq(Toks) /\ Len(Append(a, t)) = Len(a) + 1
          /\ \A k \in 1..Len(a) : Append(a, t)[k] = a[k]
          /\ Append(a, t)[Len(a) + 1] = t
      BY <2>4, <2>5, AppendProperties
    <3> QED
      BY <2>5, <3>1
  <2>7. \A k \in 1..m : Append(a, t)[k] = b[k]
    <3>1. ASSUME NEW k \in 1..m PROVE Append(a, t)[k] = b[k]
      <4>1. k = m \/ k \in 1..m - 1
        BY <2>5
      <4> QED
        BY <2>4, <2>6, <4>1
    <3> QED
      BY <3>1
  <2>8. Append(a, t) = b
    BY <2>5, <2>6, <2>7, SeqEqual
  <2> QED
    BY <2>8 DEF a, b, t
<1> QED
  BY <1>1, <1>7, <1>8

\* The path to a node of a chain takes every node before it.
LEMMA ChainPath ==
  ASSUME NEW r \in Reqs, NEW at \in Nat, NEW p, NEW d \in Nat \ {0}, Hangs(d, p),
         \A j \in 1..d - 1 : p[j] = j - 1
  PROVE  \A j \in 0..d - 1 : PathFrom(r, at, p, j) = [k \in 1..j + 1 |-> Token(r, at, k - 1)]
<1> PICK q \in [1..d -> 0..d - 1] : \A k \in 1..d : q[k] = k - 1
  <2>1. [k \in 1..d |-> k - 1] \in [1..d -> 0..d - 1]
    OBVIOUS
  <2> QED
    BY <2>1
<1>1. q[1] = 0 /\ \A k \in 2..d : q[k] > 0 /\ p[q[k]] = q[k - 1]
  OBVIOUS
<1>2. \A m \in 1..d : PathFrom(r, at, p, q[m]) = Taken(r, at, q, m)
  <2>1. d \in Nat /\ Descends(p, d, d, q)
    BY <1>1 DEF Descends
  <2> QED
    BY <1>1, <2>1, PathTaken
<1>3. ASSUME NEW j \in 0..d - 1 PROVE PathFrom(r, at, p, j) = [k \in 1..j + 1 |-> Token(r, at, k - 1)]
  <2>1. j + 1 \in 1..d /\ q[j + 1] = j
    OBVIOUS
  <2>2. Taken(r, at, q, j + 1) = [k \in 1..j + 1 |-> Token(r, at, k - 1)]
    <3>1. \A k \in 1..j + 1 : q[k] = k - 1
      OBVIOUS
    <3> QED
      BY <3>1 DEF Taken
  <2> QED
    BY <1>2, <2>1, <2>2
<1> QED
  BY <1>3

\* A batch of prefixes and joined texts.
LEMMA FirstOfJoin ==
  ASSUME NEW s \in Seq(Toks), NEW t \in Seq(Toks)
  PROVE  /\ \A k \in 0..Len(s) : SubSeq(s \o t, 1, k) = SubSeq(s, 1, k)
         /\ \A k \in 0..Len(t) : SubSeq(s \o t, 1, Len(s) + k) = s \o SubSeq(t, 1, k)
<1> DEFINE u == s \o t
<1>1. /\ u \in Seq(Toks) /\ Len(u) = Len(s) + Len(t) /\ Len(s) \in Nat /\ Len(t) \in Nat
      /\ \A i \in 1..Len(s) + Len(t) : u[i] = IF i <= Len(s) THEN s[i] ELSE t[i - Len(s)]
  BY ConcatProperties
<1> HIDE DEF u
<1>2. ASSUME NEW k \in 0..Len(s) PROVE SubSeq(u, 1, k) = SubSeq(s, 1, k)
  <2>1. k \in 0..Len(u) /\ k \in Nat
    BY <1>1
  <2>2. /\ SubSeq(u, 1, k) \in Seq(Toks) /\ Len(SubSeq(u, 1, k)) = k
        /\ \A i \in 1..k : SubSeq(u, 1, k)[i] = u[i]
    BY <1>1, <2>1, FirstOf
  <2>3. /\ SubSeq(s, 1, k) \in Seq(Toks) /\ Len(SubSeq(s, 1, k)) = k
        /\ \A i \in 1..k : SubSeq(s, 1, k)[i] = s[i]
    BY FirstOf
  <2>4. \A i \in 1..k : u[i] = s[i]
    BY <1>1
  <2> QED
    BY <2>2, <2>3, <2>4, SeqEqual
<1>3. ASSUME NEW k \in 0..Len(t) PROVE SubSeq(u, 1, Len(s) + k) = s \o SubSeq(t, 1, k)
  <2> DEFINE n == Len(s) + k
             f == SubSeq(t, 1, k)
  <2>1. n \in 0..Len(u) /\ k \in Nat
    BY <1>1
  <2> HIDE DEF n
  <2>2. /\ SubSeq(u, 1, n) \in Seq(Toks) /\ Len(SubSeq(u, 1, n)) = n
        /\ \A i \in 1..n : SubSeq(u, 1, n)[i] = u[i]
    BY <1>1, <2>1, FirstOf
  <2>3. f \in Seq(Toks) /\ Len(f) = k /\ \A i \in 1..k : f[i] = t[i]
    BY FirstOf
  <2> HIDE DEF f
  <2>4. /\ s \o f \in Seq(Toks) /\ Len(s \o f) = n
        /\ \A i \in 1..n : (s \o f)[i] = IF i <= Len(s) THEN s[i] ELSE f[i - Len(s)]
    <3>1. /\ s \o f \in Seq(Toks) /\ Len(s \o f) = Len(s) + Len(f)
          /\ \A i \in 1..Len(s) + Len(f) : (s \o f)[i] = IF i <= Len(s) THEN s[i] ELSE f[i - Len(s)]
      BY <2>3, ConcatProperties
    <3> QED
      BY <2>3, <3>1 DEF n
  <2> DEFINE a == s \o f
             c == SubSeq(u, 1, n)
  <2> HIDE DEF a, c
  <2>5. ASSUME NEW i \in 1..n PROVE c[i] = a[i]
    <3>1. c[i] = u[i] /\ a[i] = IF i <= Len(s) THEN s[i] ELSE f[i - Len(s)]
      BY <2>2, <2>4 DEF a, c
    <3>2. u[i] = IF i <= Len(s) THEN s[i] ELSE t[i - Len(s)]
      BY <1>1, <2>1 DEF n
    <3>3. ~(i <= Len(s)) => i - Len(s) \in 1..k
      BY <1>1, <2>1 DEF n
    <3> QED
      BY <2>3, <3>1, <3>2, <3>3
  <2>6. a \in Seq(Toks) /\ c \in Seq(Toks) /\ Len(a) = n /\ Len(c) = n
    BY <2>2, <2>4 DEF a, c
  <2>7. c = a
    BY <2>5, <2>6, SeqEqual
  <2> QED
    BY <2>7 DEF a, c, f, n
<1> QED
  BY <1>2, <1>3 DEF u

LEMMA AppendIs ==
  ASSUME NEW s \in Seq(Toks), NEW t \in Seq(Toks), NEW e \in Toks
  PROVE  /\ s \o <<e>> = Append(s, e) /\ s \o Append(t, e) = Append(s \o t, e)
         /\ Append(s, e) \in Seq(Toks) /\ <<e>> \in Seq(Toks) /\ Append(t, e) \in Seq(Toks)
OBVIOUS

-----------------------------------------------------------------------------
(* The inductive invariant                                                   *)

Statuses == {"new", "prefill", "running", "retracted", "done"}
Types ==
  /\ mode \in Modes
  /\ row \in [Reqs -> 0..NumRows] /\ index \in [PoolRows -> Slots \cup {Dummy}]
  /\ track \in [Reqs -> Slots \cup {Dummy}] /\ tracked \in [Reqs -> Nat]
  /\ toks \in [Reqs -> Seq(Toks)] /\ status \in [Reqs -> Statuses]
  /\ cached \in [Slots -> Seq(Toks)]
  /\ DOMAIN slot = Buffers /\ \A b \in Buffers : DOMAIN slot[b] = Slots \cup {Dummy}
  /\ DOMAIN host = Reqs

\* Every active request has a row and two slots to itself, and the prefix cache
\* other slots.
Homes ==
  \A r \in Active : row[r] \in PoolRows /\ main(r) \in Slots /\ track[r] \in Slots
Apart ==
  \A r, q \in Active :
    /\ main(r) # track[q]
    /\ r # q => row[r] # row[q] /\ main(r) # main(q) /\ track[r] # track[q]
Unshared == \A s \in Slots : cached[s] # <<>> => s \notin Owned

\* What the slots and the host copies hold, also while a verify waits for its
\* commit.
Mains == \A r \in Active, b \in Buffers : slot[b][main(r)] = After(b, toks[r])
Tracks ==
  \A r \in Active :
    /\ tracked[r] <= Len(toks[r]) /\ Multiple(tracked[r])
    /\ tracked[r] > 0 =>
         \A b \in Buffers : slot[b][track[r]] = After(b, SubSeq(toks[r], 1, tracked[r]))
Keeps ==
  \A s \in Slots : cached[s] # <<>> =>
    Multiple(Len(cached[s])) /\ \A b \in Buffers : slot[b][s] = After(b, cached[s])
Parked ==
  \A r \in Reqs : status[r] = "retracted" =>
    \A b \in Buffers : host[r][b] = After(b, toks[r])
\* A chunk begins on a multiple of the interval.
Chunked == \A r \in Of("prefill") : Multiple(Len(toks[r]))

Core ==
  Types /\ Homes /\ Apart /\ Unshared /\ Mains /\ Tracks /\ Keeps /\ Parked /\ Chunked

\* What a verify left in row i of its scratch for node j, after the tokens s.
NodeOK(i, r, p, j, s) ==
  /\ mode # "replay" => scratch.snap[Cell(i, j, MaxDraft)] = s
  /\ mode = "replay" =>
       scratch.log[i][j] =
         [at |-> IF j = 0 THEN toks[r] ELSE toks[r] \o PathFrom(r, len(r), p, p[j]),
          tok |-> Draft(r, j)]
  /\ \A w \in 1..Win : scratch.conv[i][Element(j, w - 1)] = After("conv", s)[w]
  /\ mode # "tree" => scratch.side[i][j] = After("side", s)
Pending ==
  ~Idle =>
    /\ mode # "decode" /\ round.order \in SetToSeqs(Of("running"))
    /\ round.width \in Drafts /\ round.parent \in Trees(round.width)
    /\ \A i \in DOMAIN round.order :
         LET r == round.order[i] IN
         /\ scratch.active[i - 1] = (mode = "replay")
         /\ \A j \in 0..round.width - 1 :
              NodeOK(i - 1, r, round.parent, j, toks[r] \o PathFrom(r, len(r), round.parent, j))

IInv == Core /\ Pending

LEMMA ActiveIs ==
  ASSUME Core, NEW r \in Active
  PROVE  /\ r \in Reqs /\ row[r] \in PoolRows /\ main(r) \in Slots /\ track[r] \in Slots
         /\ main(r) # Dummy /\ track[r] # Dummy
         /\ main(r) # -1 /\ track[r] # -1
         /\ toks[r] \in Seq(Toks) /\ len(r) \in Nat /\ len(r) = Len(toks[r])
         /\ tracked[r] \in Nat /\ tracked[r] <= Len(toks[r])
         /\ \A b \in Buffers : slot[b][main(r)] = After(b, toks[r])
<1>1. r \in Reqs
  BY DEF Active, Of
<1>2. row[r] \in PoolRows /\ main(r) \in Slots /\ track[r] \in Slots
  BY DEF Core, Homes
<1>3. main(r) # Dummy /\ track[r] # Dummy /\ main(r) # -1 /\ track[r] # -1
  BY <1>2, Constants DEF Slots, Dummy
<1>4. toks[r] \in Seq(Toks) /\ tracked[r] \in Nat
  BY <1>1 DEF Core, Types
<1>5. tracked[r] <= Len(toks[r])
  BY DEF Core, Tracks
<1>6. \A b \in Buffers : slot[b][main(r)] = After(b, toks[r])
  BY DEF Core, Mains
<1> QED
  BY <1>1, <1>2, <1>3, <1>4, <1>5, <1>6 DEF len

-----------------------------------------------------------------------------
(* A batch moves on                                                          *)

\* The writes of a batch aim at the main slots and then, of the masked
\* requests, at the track slots; what they leave where.
Aimed(B, masked, m, W, V) ==
  /\ m \in Nat /\ Len(B) <= m /\ DOMAIN W = 1..m /\ DOMAIN V = 1..Len(B)
  /\ \A i \in 1..Len(B) :
       /\ W[i][1] = main(B[i])
       /\ IF B[i] \in masked THEN V[i][1] = track[B[i]] ELSE V[i][1] \in {Dummy, -1}
  /\ \A i \in 1..m : i > Len(B) => W[i][1] = Dummy
Landed(b, B, masked, W, V, out) ==
  /\ DOMAIN out = Slots \cup {Dummy}
  /\ \A i \in 1..Len(B) :
       /\ out[main(B[i])] = W[i][2]
       /\ out[track[B[i]]] = IF B[i] \in masked THEN V[i][2] ELSE slot[b][track[B[i]]]
  /\ \A s \in Slots :
       (\A i \in 1..Len(B) : s # main(B[i]) /\ s # track[B[i]]) => out[s] = slot[b][s]

LEMMA Landing ==
  ASSUME Core, NEW S \in SUBSET Active, NEW B \in SetToSeqs(S), NEW masked, NEW b \in Buffers,
         NEW m, NEW W, NEW V, Aimed(B, masked, m, W, V)
  PROVE  /\ Landed(b, B, masked, W, V, Write(Write(slot[b], W), V))
         /\ Landed(b, B, masked, W, V, WriteLive(slot[b], W, V))
         /\ Landed(b, B, masked, W, V, WriteLive(slot[b], V, W))
<1> DEFINE n == Len(B)
           buf == slot[b]
<1>1. S \in SUBSET Reqs
  BY DEF Active, Of
<1>2. /\ n \in Nat /\ \A i \in 1..n : B[i] \in S
      /\ \A i, k \in 1..n : B[i] = B[k] => i = k
  BY <1>1, BatchIs
<1>3. /\ m \in Nat /\ n <= m /\ DOMAIN W = 1..m /\ DOMAIN V = 1..n
      /\ \A i \in 1..n : /\ W[i][1] = main(B[i])
                         /\ B[i] \in masked => V[i][1] = track[B[i]]
                         /\ B[i] \notin masked => V[i][1] \in {Dummy, -1}
      /\ \A i \in 1..m : i > n => W[i][1] = Dummy
  BY DEF Aimed
<1>4. ASSUME NEW i \in 1..n
      PROVE  /\ B[i] \in Active /\ main(B[i]) \in Slots /\ track[B[i]] \in Slots
             /\ main(B[i]) \notin {Dummy, -1} /\ track[B[i]] \notin {Dummy, -1}
  BY <1>2, ActiveIs
<1>5. ASSUME NEW i \in 1..n, NEW k \in 1..n
      PROVE  /\ main(B[i]) # track[B[k]]
             /\ i # k => main(B[i]) # main(B[k]) /\ track[B[i]] # track[B[k]]
  BY <1>2, <1>4 DEF Core, Apart
<1>6. DOMAIN buf = Slots \cup {Dummy}
  BY DEF Core, Types
<1>7. \A s \in Slots : s \in DOMAIN buf /\ s # Dummy /\ s # -1
  BY <1>6, Constants DEF Slots, Dummy
<1> HIDE DEF n, buf
\* Who writes to a slot.
<1>8. ASSUME NEW i \in 1..n
      PROVE  /\ i \in 1..m /\ \A k \in 1..m : W[k][1] = main(B[i]) => k = i
             /\ \A k \in 1..n : V[k][1] # main(B[i])
             /\ \A k \in 1..m : W[k][1] # track[B[i]]
             /\ \A k \in 1..n : V[k][1] = track[B[i]] => k = i /\ B[i] \in masked
  <2>1. i \in 1..m
    BY <1>2, <1>3
  <2>2. ASSUME NEW k \in 1..m PROVE (W[k][1] = main(B[i]) => k = i) /\ W[k][1] # track[B[i]]
    <3>1. CASE k \in 1..n
      BY <1>3, <1>5, <3>1
    <3>2. CASE k \notin 1..n
      <4>1. k > n
        BY <1>2, <3>2
      <4> QED
        BY <1>3, <1>4, <4>1
    <3> QED
      BY <3>1, <3>2
  <2>3. ASSUME NEW k \in 1..n
        PROVE  V[k][1] # main(B[i]) /\ (V[k][1] = track[B[i]] => k = i /\ B[i] \in masked)
    <3>1. CASE B[k] \in masked
      BY <1>3, <1>5, <3>1
    <3>2. CASE B[k] \notin masked
      BY <1>3, <1>4, <3>2
    <3> QED
      BY <3>1, <3>2
  <2> QED
    BY <2>1, <2>2, <2>3
<1>9. ASSUME NEW s \in Slots, \A i \in 1..n : s # main(B[i]) /\ s # track[B[i]]
      PROVE  (\A k \in 1..m : W[k][1] # s) /\ (\A k \in 1..n : V[k][1] # s)
  <2>1. ASSUME NEW k \in 1..m PROVE W[k][1] # s
    <3>1. k \in 1..n \/ k > n
      BY <1>2
    <3> QED
      BY <1>3, <1>7, <1>9, <3>1
  <2>2. ASSUME NEW k \in 1..n PROVE V[k][1] # s
    BY <1>3, <1>7, <1>9
  <2> QED
    BY <2>1, <2>2
\* Either order.
<1>10. ASSUME NEW out,
              out = Write(Write(buf, W), V) \/ out = Write(Write(buf, V), W)
       PROVE  Landed(b, B, masked, W, V, out)
  <2>1. DOMAIN Write(buf, W) = DOMAIN buf /\ DOMAIN Write(buf, V) = DOMAIN buf /\ DOMAIN out = DOMAIN buf
    BY <1>10 DEF Write
  <2>2. ASSUME NEW s \in Slots, \A k \in 1..m : W[k][1] # s, \A k \in 1..n : V[k][1] # s
        PROVE  out[s] = buf[s]
    <3>1. /\ Write(buf, W)[s] = buf[s] /\ Write(buf, V)[s] = buf[s]
          /\ Write(Write(buf, W), V)[s] = Write(buf, W)[s]
          /\ Write(Write(buf, V), W)[s] = Write(buf, V)[s]
      BY <1>2, <1>3, <1>7, <2>1, <2>2, WriteIs
    <3> QED
      BY <1>10, <3>1
  <2>3. ASSUME NEW s \in Slots, NEW i \in 1..m, W[i][1] = s,
               \A k \in 1..m : W[k][1] = s => k = i, \A k \in 1..n : V[k][1] # s
        PROVE  out[s] = W[i][2]
    <3>1. Write(buf, W)[s] = W[i][2]
      BY <1>3, <1>7, <2>3, WriteIs
    <3>2. Write(Write(buf, V), W)[s] = W[i][2]
      BY <1>3, <1>7, <2>1, <2>3, WriteIs
    <3>3. Write(Write(buf, W), V)[s] = Write(buf, W)[s]
      BY <1>2, <1>3, <1>7, <2>1, <2>3, WriteIs
    <3> QED
      BY <1>10, <3>1, <3>2, <3>3
  <2>4. ASSUME NEW s \in Slots, NEW i \in 1..n, V[i][1] = s,
               \A k \in 1..n : V[k][1] = s => k = i, \A k \in 1..m : W[k][1] # s
        PROVE  out[s] = V[i][2]
    <3>1. Write(buf, V)[s] = V[i][2]
      BY <1>2, <1>3, <1>7, <2>4, WriteIs
    <3>2. Write(Write(buf, W), V)[s] = V[i][2]
      BY <1>2, <1>3, <1>7, <2>1, <2>4, WriteIs
    <3>3. Write(Write(buf, V), W)[s] = Write(buf, V)[s]
      BY <1>3, <1>7, <2>1, <2>4, WriteIs
    <3> QED
      BY <1>10, <3>1, <3>2, <3>3
  <2>5. ASSUME NEW i \in 1..n
        PROVE  /\ out[main(B[i])] = W[i][2]
               /\ out[track[B[i]]] = IF B[i] \in masked THEN V[i][2] ELSE buf[track[B[i]]]
    <3>1. out[main(B[i])] = W[i][2]
      BY <1>3, <1>4, <1>8, <2>3
    <3>2. CASE B[i] \in masked
      <4>1. out[track[B[i]]] = V[i][2]
        BY <1>3, <1>4, <1>8, <2>4, <3>2
      <4> QED
        BY <3>1, <3>2, <4>1
    <3>3. CASE B[i] \notin masked
      <4>1. out[track[B[i]]] = buf[track[B[i]]]
        BY <1>4, <1>8, <2>2, <3>3
      <4> QED
        BY <3>1, <3>3, <4>1
    <3> QED
      BY <3>2, <3>3
  <2>6. ASSUME NEW s \in Slots, \A i \in 1..n : s # main(B[i]) /\ s # track[B[i]]
        PROVE  out[s] = buf[s]
    BY <1>9, <2>2, <2>6
  <2> QED
    BY <1>6, <2>1, <2>5, <2>6 DEF Landed, n, buf
\* The dummy slot is no one's.
<1>11. ASSUME NEW first, NEW second,
              Landed(b, B, masked, W, V, Write(Write(buf, first), second))
       PROVE  Landed(b, B, masked, W, V, WriteLive(buf, first, second))
  <2> DEFINE x == Write(Write(buf, first), second)
             y == WriteLive(buf, first, second)
  <2>1. DOMAIN y = DOMAIN buf /\ \A s \in Slots : y[s] = x[s]
    BY <1>7, WriteLiveIs
  <2>2. Landed(b, B, masked, W, V, x)
    BY <1>11
  <2> HIDE DEF x, y
  <2>3. \A i \in 1..Len(B) : main(B[i]) \in Slots /\ track[B[i]] \in Slots
    BY <1>4 DEF n
  <2>4. Landed(b, B, masked, W, V, y)
    BY <1>6, <2>1, <2>2, <2>3 DEF Landed
  <2> QED
    BY <2>4 DEF y
<1> QED
  BY <1>10, <1>11 DEF buf

\* A batch of the requests S: their new tokens t, and of the masked ones how
\* many of those the snapshot covers.
Stores(b, S, masked, t, cut, out) ==
  /\ DOMAIN out = Slots \cup {Dummy}
  /\ \A r \in S : out[main(r)] = After(b, toks[r] \o t[r])
  /\ \A r \in masked : out[track[r]] = After(b, toks[r] \o SubSeq(t[r], 1, cut[r]))
  /\ \A r \in S \ masked : out[track[r]] = slot[b][track[r]]
  /\ \A s \in Slots : (\A r \in S : s # main(r) /\ s # track[r]) => out[s] = slot[b][s]
Advances(S, masked, t, cut) ==
  /\ toks' = [r \in Reqs |-> toks'[r]] /\ tracked' = [r \in Reqs |-> tracked'[r]]
  /\ \A r \in S : t[r] \in Seq(Toks) /\ toks'[r] = toks[r] \o t[r]
  /\ \A r \in masked : /\ cut[r] \in 0..Len(t[r]) /\ tracked'[r] = len(r) + cut[r]
                       /\ Multiple(len(r) + cut[r])
  /\ \A r \in Reqs \ S : toks'[r] = toks[r]
  /\ \A r \in Reqs \ masked : tracked'[r] = tracked[r]
  /\ DOMAIN slot' = Buffers
  /\ \A b \in Buffers : Stores(b, S, masked, t, cut, slot'[b])
  /\ status' \in [Reqs -> Statuses]
  /\ \A r \in Reqs : status'[r] # status[r] => r \in S /\ status[r] = "prefill" /\ status'[r] = "running"
  /\ \A r \in S : status'[r] = "prefill" => Multiple(Len(toks'[r]))

LEMMA AdvanceHolds ==
  ASSUME Core, NEW S \in SUBSET Active, NEW masked \in SUBSET S, NEW t, NEW cut,
         Advances(S, masked, t, cut), UNCHANGED <<mode, index, row, track, cached, host>>
  PROVE  Core'
<1> USE DEF Advances
<1>0. ASSUME NEW b \in Buffers
      PROVE  /\ DOMAIN slot'[b] = Slots \cup {Dummy}
             /\ \A r \in S : slot'[b][main(r)] = After(b, toks'[r])
             /\ \A r \in masked : slot'[b][track[r]] = After(b, toks[r] \o SubSeq(t[r], 1, cut[r]))
             /\ \A r \in S \ masked : slot'[b][track[r]] = slot[b][track[r]]
             /\ \A s \in Slots : (\A r \in S : s # main(r) /\ s # track[r]) => slot'[b][s] = slot[b][s]
  <2>1. Stores(b, S, masked, t, cut, slot'[b])
    OBVIOUS
  <2>2. \A r \in S : toks'[r] = toks[r] \o t[r]
    OBVIOUS
  <2>3. \A r \in S : slot'[b][main(r)] = After(b, toks[r] \o t[r])
    BY <2>1 DEF Stores
  <2>4. \A r \in S : slot'[b][main(r)] = After(b, toks'[r])
    BY <2>2, <2>3, Zenon
  <2> QED
    BY <2>1, <2>4, Zenon DEF Stores
<1>1. Buffers' = Buffers
  BY DEF Buffers, Sides
<1>2. Active' = Active /\ \A r \in Reqs : status'[r] = "retracted" => status[r] = "retracted"
  BY DEF Active, Of
<1>3. \A r : main(r)' = main(r)
  BY DEF main
<1>4. Owned' = Owned
  BY <1>2, <1>3 DEF Owned
<1>5. ASSUME NEW r \in Active
      PROVE  /\ r \in Reqs /\ main(r) \in Slots /\ track[r] \in Slots /\ toks[r] \in Seq(Toks)
             /\ len(r) \in Nat /\ len(r) = Len(toks[r]) /\ tracked[r] \in Nat /\ tracked[r] <= len(r)
             /\ Multiple(tracked[r])
  BY ActiveIs DEF Core, Tracks
<1>6. ASSUME NEW r \in S
      PROVE  /\ toks'[r] \in Seq(Toks) /\ Len(toks'[r]) = len(r) + Len(t[r]) /\ Len(t[r]) \in Nat
             /\ \A k \in 0..len(r) : SubSeq(toks'[r], 1, k) = SubSeq(toks[r], 1, k)
             /\ \A k \in 0..Len(t[r]) : SubSeq(toks'[r], 1, len(r) + k) = toks[r] \o SubSeq(t[r], 1, k)
  <2>1. toks[r] \in Seq(Toks) /\ len(r) = Len(toks[r]) /\ t[r] \in Seq(Toks) /\ toks'[r] = toks[r] \o t[r]
    BY <1>5
  <2>2. toks[r] \o t[r] \in Seq(Toks) /\ Len(toks[r] \o t[r]) = Len(toks[r]) + Len(t[r])
    BY <2>1, ConcatProperties
  <2>3. /\ Len(toks'[r]) = len(r) + Len(t[r]) /\ Len(t[r]) \in Nat /\ toks'[r] \in Seq(Toks)
    BY <2>1, <2>2
  <2> DEFINE s == toks[r]
             u == t[r]
  <2>4. /\ \A k \in 0..Len(s) : SubSeq(s \o u, 1, k) = SubSeq(s, 1, k)
        /\ \A k \in 0..Len(u) : SubSeq(s \o u, 1, Len(s) + k) = s \o SubSeq(u, 1, k)
    <3>1. s \in Seq(Toks) /\ u \in Seq(Toks)
      BY <2>1
    <3> HIDE DEF s, u
    <3> QED
      BY <3>1, FirstOfJoin, Zenon
  <2>5. toks'[r] = s \o u /\ len(r) = Len(s)
    BY <2>1
  <2> DEFINE v == s \o u
  <2>6. toks'[r] = v
    BY <2>5
  <2>7. /\ \A k \in 0..Len(s) : SubSeq(v, 1, k) = SubSeq(s, 1, k)
        /\ \A k \in 0..Len(u) : SubSeq(v, 1, Len(s) + k) = s \o SubSeq(u, 1, k)
    BY <2>4
  <2> HIDE DEF v
  <2>8. /\ \A k \in 0..Len(s) : SubSeq(toks'[r], 1, k) = SubSeq(s, 1, k)
        /\ \A k \in 0..Len(u) : SubSeq(toks'[r], 1, Len(s) + k) = s \o SubSeq(u, 1, k)
    BY <2>6, <2>7, Zenon
  <2> QED
    BY <2>3, <2>5, <2>8, Zenon
<1>7. Types'
  <2>1. ASSUME NEW r \in Reqs PROVE toks'[r] \in Seq(Toks) /\ tracked'[r] \in Nat
    <3>1. toks'[r] \in Seq(Toks)
      BY <1>6 DEF Core, Types
    <3>2. CASE r \in masked
      <4>1. len(r) \in Nat /\ cut[r] \in Nat /\ tracked'[r] = len(r) + cut[r]
        BY <1>5, <1>6, <3>2
      <4> QED
        BY <3>1, <4>1
    <3>3. CASE r \notin masked
      BY <3>1, <3>3 DEF Core, Types
    <3> QED
      BY <3>2, <3>3
  <2>2. toks' \in [Reqs -> Seq(Toks)] /\ tracked' \in [Reqs -> Nat]
    BY <2>1
  <2> QED
    BY <1>0, <1>1, <2>2 DEF Core, Types
<1>8. Homes'
  BY <1>2, <1>3 DEF Core, Homes
<1>9. Apart'
  BY <1>2, <1>3 DEF Core, Apart
<1>10. Unshared'
  BY <1>4 DEF Core, Unshared
\* The slots of a request outside the batch, and those of the prefix cache.
<1>11. ASSUME NEW r \in Active, r \notin S, NEW b \in Buffers
       PROVE  slot'[b][main(r)] = slot[b][main(r)] /\ slot'[b][track[r]] = slot[b][track[r]]
  <2>1. \A q \in S : /\ main(r) # main(q) /\ main(r) # track[q]
                     /\ track[r] # main(q) /\ track[r] # track[q]
    BY <1>11 DEF Core, Apart
  <2> QED
    BY <1>0, <1>5, <2>1
<1>12. Mains'
  <2>1. ASSUME NEW r \in Active, NEW b \in Buffers PROVE slot'[b][main(r)] = After(b, toks'[r])
    <3>1. CASE r \in S
      BY <1>0, <3>1
    <3>2. CASE r \notin S
      BY <1>5, <1>11, <3>2 DEF Core, Mains
    <3> QED
      BY <3>1, <3>2
  <2> QED
    BY <1>1, <1>2, <1>3, <2>1 DEF Mains
<1>13. Tracks'
  <2>1. ASSUME NEW r \in Active
        PROVE  /\ tracked'[r] <= Len(toks'[r]) /\ Multiple(tracked'[r])
               /\ tracked'[r] > 0 =>
                    \A b \in Buffers : slot'[b][track[r]] = After(b, SubSeq(toks'[r], 1, tracked'[r]))
    <3>1. CASE r \in masked
      <4>1. r \in S /\ cut[r] \in 0..Len(t[r]) /\ tracked'[r] = len(r) + cut[r]
        BY <3>1
      <4>2. SubSeq(toks'[r], 1, tracked'[r]) = toks[r] \o SubSeq(t[r], 1, cut[r])
        <5>1. \A k \in 0..Len(t[r]) : SubSeq(toks'[r], 1, len(r) + k) = toks[r] \o SubSeq(t[r], 1, k)
          BY <1>6, <4>1, Zenon
        <5>2. SubSeq(toks'[r], 1, len(r) + cut[r]) = toks[r] \o SubSeq(t[r], 1, cut[r])
          BY <4>1, <5>1, Zenon
        <5> QED
          BY <4>1, <5>2, Zenon
      <4>3. tracked'[r] <= Len(toks'[r]) /\ Multiple(tracked'[r])
        BY <1>5, <1>6, <3>1, <4>1
      <4>4. \A b \in Buffers : slot'[b][track[r]] = After(b, toks[r] \o SubSeq(t[r], 1, cut[r]))
        BY <1>0, <3>1
      <4> QED
        BY <4>2, <4>3, <4>4, Zenon
    <3>2. CASE r \in S \ masked
      <4>1. tracked'[r] = tracked[r] /\ tracked[r] \in 0..len(r)
        BY <1>5, <3>2
      <4>2. SubSeq(toks'[r], 1, tracked'[r]) = SubSeq(toks[r], 1, tracked[r])
        BY <1>6, <3>2, <4>1
      <4>3. tracked'[r] <= Len(toks'[r])
        BY <1>5, <1>6, <3>2, <4>1
      <4>4. \A b \in Buffers : slot'[b][track[r]] = slot[b][track[r]]
        BY <1>0, <3>2
      <4>5. tracked[r] > 0 => \A b \in Buffers : slot[b][track[r]] = After(b, SubSeq(toks[r], 1, tracked[r]))
        BY DEF Core, Tracks
      <4>6. Multiple(tracked'[r])
        BY <1>5, <4>1
      <4> QED
        BY <4>1, <4>2, <4>3, <4>4, <4>5, <4>6, Zenon
    <3>3. CASE r \notin S
      <4>1. tracked'[r] = tracked[r] /\ toks'[r] = toks[r]
        BY <1>5, <3>3
      <4> QED
        BY <1>5, <1>11, <3>3, <4>1 DEF Core, Tracks
    <3> QED
      BY <3>1, <3>2, <3>3
  <2> QED
    BY <1>1, <1>2, <2>1 DEF Tracks, Multiple
<1>14. Keeps'
  <2>1. ASSUME NEW s \in Slots, cached[s] # <<>>, NEW b \in Buffers PROVE slot'[b][s] = slot[b][s]
    <3>1. \A q \in S : s # main(q) /\ s # track[q]
      BY <2>1 DEF Core, Unshared, Owned
    <3> QED
      BY <1>0, <3>1
  <2> QED
    BY <1>1, <2>1 DEF Core, Keeps
<1>15. Parked'
  <2>1. ASSUME NEW r \in Reqs, status'[r] = "retracted" PROVE toks'[r] = toks[r] /\ status[r] = "retracted"
    <3>1. status[r] = "retracted"
      BY <1>2, <2>1
    <3>2. r \notin S
      BY <3>1 DEF Active, Of
    <3> QED
      BY <3>1, <3>2
  <2> QED
    BY <1>1, <2>1 DEF Core, Parked
<1>16. Chunked'
  <2>1. ASSUME NEW r \in Reqs, status'[r] = "prefill" PROVE Multiple(Len(toks'[r]))
    <3>1. CASE r \in S
      BY <2>1, <3>1
    <3>2. CASE r \notin S
      <4>1. status[r] = "prefill" /\ toks'[r] = toks[r]
        BY <2>1, <3>2
      <4> QED
        BY <4>1 DEF Core, Chunked, Of
    <3> QED
      BY <3>1, <3>2
  <2> QED
    BY <2>1 DEF Chunked, Of, Multiple
<1> QED
  BY <1>7, <1>8, <1>9, <1>10, <1>12, <1>13, <1>14, <1>15, <1>16 DEF Core

LEMMA LandedStores ==
  ASSUME Core, NEW S \in SUBSET Active, NEW B \in SetToSeqs(S), NEW masked \in SUBSET S,
         NEW t, NEW cut, NEW b, NEW W, NEW V, NEW out, Landed(b, B, masked, W, V, out),
         \A i \in 1..Len(B) : W[i][2] = After(b, toks[B[i]] \o t[B[i]]),
         \A i \in 1..Len(B) : B[i] \in masked =>
           V[i][2] = After(b, toks[B[i]] \o SubSeq(t[B[i]], 1, cut[B[i]]))
  PROVE  Stores(b, S, masked, t, cut, out)
<1>1. S \in SUBSET Reqs
  BY DEF Active, Of
<1>2. /\ \A i \in 1..Len(B) : B[i] \in S
      /\ \A r \in S : \E i \in 1..Len(B) : B[i] = r
  BY <1>1, BatchIs
<1>3. /\ DOMAIN out = Slots \cup {Dummy}
      /\ \A i \in 1..Len(B) :
           /\ out[main(B[i])] = W[i][2]
           /\ out[track[B[i]]] = IF B[i] \in masked THEN V[i][2] ELSE slot[b][track[B[i]]]
      /\ \A s \in Slots :
           (\A i \in 1..Len(B) : s # main(B[i]) /\ s # track[B[i]]) => out[s] = slot[b][s]
  BY DEF Landed
<1>4. ASSUME NEW r \in S
      PROVE  /\ out[main(r)] = After(b, toks[r] \o t[r])
             /\ r \in masked => out[track[r]] = After(b, toks[r] \o SubSeq(t[r], 1, cut[r]))
             /\ r \notin masked => out[track[r]] = slot[b][track[r]]
  <2>1. PICK i \in 1..Len(B) : B[i] = r
    BY <1>2
  <2>2. /\ out[main(B[i])] = After(b, toks[B[i]] \o t[B[i]])
        /\ B[i] \in masked => out[track[B[i]]] = After(b, toks[B[i]] \o SubSeq(t[B[i]], 1, cut[B[i]]))
        /\ B[i] \notin masked => out[track[B[i]]] = slot[b][track[B[i]]]
    BY <1>3, Zenon
  <2> QED
    BY <2>1, <2>2, Zenon
<1>5. ASSUME NEW s \in Slots, \A r \in S : s # main(r) /\ s # track[r] PROVE out[s] = slot[b][s]
  BY <1>2, <1>3, <1>5
<1> QED
  BY <1>3, <1>4, <1>5 DEF Stores

\* A batch fits the graph's rows: every request of it has a pool row to itself.
LEMMA RowsFit ==
  ASSUME Core, NEW S \in SUBSET Active, NEW B \in SetToSeqs(S)
  PROVE  Len(B) \in Nat /\ Len(B) <= NumRows
<1>1. S \in SUBSET Reqs
  BY DEF Active, Of
<1>2. Len(B) \in Nat /\ Len(B) = Cardinality(S)
  BY <1>1, BatchIs
<1> DEFINE f == [r \in S |-> row[r]]
<1>3. f \in [S -> PoolRows] /\ \A r, q \in S : f[r] = f[q] => r = q
  BY DEF Core, Homes, Apart
<1> HIDE DEF f
<1>4. f \in Injection(S, PoolRows)
  BY <1>3 DEF Injection, IsInjective
<1>5. IsFiniteSet(PoolRows) /\ Cardinality(PoolRows) = NumRows
  <2>1. NumRows \in Nat \ {0}
    BY Constants
  <2>2. IsFiniteSet(1..NumRows) /\ Cardinality(1..NumRows) = IF 1 > NumRows THEN 0 ELSE NumRows - 1 + 1
    BY <2>1, FS_Interval
  <2> QED
    BY <2>1, <2>2 DEF PoolRows
<1>6. Cardinality(S) <= Cardinality(PoolRows)
  BY <1>4, <1>5, FS_Injection
<1> QED
  BY <1>2, <1>5, <1>6

-----------------------------------------------------------------------------
(* Prefill                                                                   *)

LEMMA WholeOf ==
  ASSUME NEW t \in Seq(Toks)
  PROVE  SubSeq(t, 1, Len(t)) = t
<1>1. Len(t) \in Nat /\ Len(t) \in 0..Len(t)
  OBVIOUS
<1>2. /\ SubSeq(t, 1, Len(t)) \in Seq(Toks) /\ Len(SubSeq(t, 1, Len(t))) = Len(t)
      /\ \A i \in 1..Len(t) : SubSeq(t, 1, Len(t))[i] = t[i]
  BY <1>1, FirstOf
<1> QED
  BY <1>2, SeqEqual

LEMMA EmptyWindow ==
  ASSUME NEW s \in Seq(Toks), Len(s) = 0
  PROVE  Window(s) = Zeros
<1>1. /\ Window(s) \in Seq(Toks) /\ Len(Window(s)) = Win
      /\ \A w \in 1..Win : Window(s)[w] = Text(s)[0 + w]
  BY WindowIs
<1>2. ASSUME NEW w \in 1..Win PROVE Text(s)[0 + w] = Pad
  <2>1. 0 + w = w
    BY Constants
  <2>2. Text(s)[w] = Pad
    BY TextIs
  <2> QED
    BY <2>1, <2>2
<1>3. \A w \in 1..Win : Window(s)[w] = Zeros[w]
  BY <1>1, <1>2, ZerosIs
<1> QED
  BY <1>1, <1>3, ZerosIs, SeqEqual

LEMMA ExtendHolds ==
  ASSUME Core, NEW S \in SUBSET Of("prefill"), NEW B \in SetToSeqs(S), NEW n \in [S -> Chunks],
         Extend(B, n)
  PROVE  Core'
<1> DEFINE new(r) == [i \in 1..n[r] |-> Token(r, len(r) + i - 1, 0)]
           post(r) == len(r) + n[r]
           mask(r) == Crosses(len(r), post(r))
           upto(r) == SubSeq(new(r), 1, Boundary(post(r)) - len(r))
           width == Max({n[r] : r \in DOMAIN n})
           context(r) == Context(slot.side[main(r)], new(r), width)
           clamped(r) == LET a == Aligned(len(r), post(r)) IN
                         IF a > n[r] THEN n[r] ELSE IF a < 0 THEN 0 ELSE a
           initial(r) == IF len(r) > 0 THEN slot.conv[main(r)] ELSE Zeros
           state(b, r) ==
             CASE b = "gdn"  -> slot.gdn[main(r)] \o new(r)
               [] b = "conv" -> LastOf(initial(r) \o new(r))
               [] b = "side" -> Gather(context(r), n[r])
           mains(b) == [i \in DOMAIN B |-> <<main(B[i]), state(b, B[i])>>]
           tracks(b) == [i \in DOMAIN B |->
             CASE b = "side" -> <<TrackTarget(B[i], mask(B[i])), Gather(context(B[i]), clamped(B[i]))>>
               [] b # "side" /\ ~mask(B[i]) -> Nowhere
               [] b = "gdn" /\ mask(B[i]) -> <<track[B[i]], slot.gdn[main(B[i])] \o upto(B[i])>>
               [] b = "conv" /\ mask(B[i]) -> <<track[B[i]], LastOf(upto(B[i]))>>]
           masked == {r \in S : mask(r)}
           t == [r \in S |-> new(r)]
           cut == [r \in S |-> Boundary(post(r)) - len(r)]
<1>1. /\ \A r \in S : /\ status[r] = "prefill" /\ post(r) <= Prompt
                      /\ post(r) = Prompt \/ post(r) % Interval = 0
      /\ slot' = [b \in Buffers |->
           IF b = "conv" THEN WriteLive(slot[b], tracks(b), mains(b))
           ELSE WriteLive(slot[b], mains(b), tracks(b))]
      /\ toks' = [r \in Reqs |-> IF r \in S THEN toks[r] \o new(r) ELSE toks[r]]
      /\ tracked' = [r \in Reqs |->
           IF r \in S THEN IF mask(r) THEN Boundary(post(r)) ELSE tracked[r] ELSE tracked[r]]
      /\ status' = [r \in Reqs |->
           IF r \in S THEN IF post(r) = Prompt THEN "running" ELSE status[r] ELSE status[r]]
      /\ UNCHANGED <<mode, index, row, track, cached, scratch, round, host, retracts>>
  <2>1. DOMAIN n = S
    OBVIOUS
  <2> QED
    BY <2>1 DEF Extend
<1>2. S \in SUBSET Active /\ S \in SUBSET Reqs /\ masked \in SUBSET S
  BY DEF Active, Of
<1>3. ASSUME NEW r \in S
      PROVE  /\ r \in Active /\ r \in Reqs /\ len(r) \in Nat /\ toks[r] \in Seq(Toks) /\ len(r) = Len(toks[r])
             /\ n[r] \in Nat /\ n[r] > 0 /\ n[r] \in 0..Prompt /\ post(r) \in Nat /\ post(r) = len(r) + n[r]
             /\ Multiple(len(r)) /\ status[r] = "prefill"
             /\ \A b \in Buffers : slot[b][main(r)] = After(b, toks[r])
  <2>1. /\ r \in Active /\ r \in Reqs /\ len(r) \in Nat /\ toks[r] \in Seq(Toks) /\ len(r) = Len(toks[r])
        /\ \A b \in Buffers : slot[b][main(r)] = After(b, toks[r])
    BY <1>2, ActiveIs
  <2>2. n[r] \in Nat /\ n[r] > 0
    <3>1. \A c \in Chunks : c \in Nat /\ c > 0
      BY RecurrentAssumption
    <3>2. n[r] \in Chunks
      OBVIOUS
    <3> QED
      BY <3>1, <3>2
  <2>3. n[r] \in 0..Prompt
    <3>1. len(r) + n[r] <= Prompt /\ Prompt \in Nat
      BY <1>1, Constants
    <3> QED
      BY <2>1, <2>2, <3>1
  <2>4. Multiple(len(r))
    BY <2>1 DEF Core, Chunked
  <2> QED
    BY <1>1, <2>1, <2>2, <2>3, <2>4
<1>4. ASSUME NEW r \in S PROVE width \in Int
  <2> DEFINE T == {n[q] : q \in DOMAIN n}
  <2>1. T \in SUBSET (0..Prompt) /\ n[r] \in T /\ Prompt \in Nat
    BY <1>3, Constants
  <2> HIDE DEF T
  <2>2. Max(T) \in T
    BY <2>1, Largest
  <2>3. Max(T) \in Int
    <3>1. \A x \in T : x \in Int
      BY <2>1
    <3> QED
      BY <2>2, <3>1
  <2> QED
    BY <2>3 DEF T
<1>5. ASSUME NEW r \in S
      PROVE  /\ new(r) \in Seq(Toks) /\ Len(new(r)) = n[r] /\ t[r] = new(r)
             /\ SubSeq(new(r), 1, n[r]) = new(r)
  <2>1. \A i \in 1..n[r] : Token(r, len(r) + i - 1, 0) \in Toks
    BY <1>3, TokenTypes
  <2>2. new(r) \in Seq(Toks) /\ Len(new(r)) = n[r]
    BY <1>3, <2>1
  <2>3. t[r] = new(r)
    OBVIOUS
  <2> HIDE DEF new, t
  <2>4. SubSeq(new(r), 1, Len(new(r))) = new(r)
    BY <2>2, WholeOf
  <2> QED
    BY <2>2, <2>3, <2>4
<1>6. ASSUME NEW r \in masked
      PROVE  /\ r \in S /\ cut[r] = Boundary(post(r)) - len(r) /\ cut[r] \in 0..n[r] /\ cut[r] >= Win
             /\ clamped(r) = cut[r] /\ upto(r) = SubSeq(new(r), 1, cut[r])
             /\ Boundary(post(r)) = len(r) + cut[r] /\ Multiple(Boundary(post(r))) /\ mask(r)
  <2>1. r \in S /\ mask(r) /\ cut[r] = Boundary(post(r)) - len(r)
    OBVIOUS
  <2> DEFINE m == post(r)
  <2>2. len(r) \in Nat /\ m \in Nat /\ m = len(r) + n[r] /\ n[r] \in Nat /\ Multiple(len(r)) /\ Crosses(len(r), m)
    BY <1>3, <2>1
  <2> HIDE DEF m
  <2>3. /\ Boundary(m) \in Nat /\ Boundary(m) <= m /\ Multiple(Boundary(m)) /\ len(r) <= m
        /\ Aligned(len(r), m) = Boundary(m) - len(r) /\ Boundary(m) - len(r) >= Interval
    BY <2>2, BoundaryIs, AlignedIs
  <2>4. Interval \in Nat /\ Win \in Nat /\ Win < Interval
    BY Constants
  <2> DEFINE a == Aligned(len(r), m)
  <2>5. a = Boundary(m) - len(r) /\ a \in 0..n[r] /\ a >= Win /\ Boundary(m) = len(r) + a
    BY <2>2, <2>3, <2>4
  <2> HIDE DEF a
  <2>6. (IF a > n[r] THEN n[r] ELSE IF a < 0 THEN 0 ELSE a) = a
    BY <2>2, <2>5
  <2>7. clamped(r) = a
    BY <2>6 DEF a, m
  <2>8. cut[r] = a
    BY <2>1, <2>5 DEF m
  <2> QED
    BY <2>1, <2>3, <2>5, <2>7, <2>8 DEF m
<1>7. ASSUME NEW r \in S, NEW b \in Buffers
      PROVE  state(b, r) = After(b, toks[r] \o t[r])
  <2> DEFINE s == toks[r]
             u == new(r)
  <2>1. s \in Seq(Toks) /\ u \in Seq(Toks) /\ len(r) = Len(s) /\ len(r) \in Nat /\ Len(u) = n[r] /\ t[r] = u
        /\ SubSeq(u, 1, n[r]) = u /\ n[r] \in 0..Len(u)
    BY <1>3, <1>5
  <2>2. slot[b][main(r)] = After(b, s) /\ b \in {"gdn", "conv", "side"}
    BY <1>3, AfterIs
  <2>3. CASE b = "gdn"
    BY <2>1, <2>2, <2>3, AfterIs
  <2>4. CASE b = "conv"
    <3>1. slot.conv[main(r)] = Window(s)
      BY <2>2, <2>4, AfterIs
    <3>2. initial(r) = Window(s)
      <4> HIDE DEF s
      <4>1. CASE len(r) > 0
        BY <3>1, <4>1
      <4>2. CASE len(r) = 0
        <5>1. Window(s) = Zeros
          BY <2>1, <4>2, EmptyWindow
        <5> QED
          BY <4>2, <5>1
      <4> QED
        BY <2>1, <4>1, <4>2
    <3>3. LastOf(Window(s) \o u) = Window(s \o u)
      <4> HIDE DEF s, u
      <4> QED
        BY <2>1, WindowGoesOn
    <3>4. state(b, r) = LastOf(initial(r) \o u)
      BY <2>4
    <3> HIDE DEF state, initial, s, u
    <3>5. state(b, r) = Window(s \o u)
      BY <3>2, <3>3, <3>4, Zenon
    <3>6. state(b, r) = After(b, s \o u)
      BY <2>4, <3>5, AfterIs, Zenon
    <3> QED
      BY <2>1, <3>6, Zenon DEF s
  <2>5. CASE b = "side"
    <3>1. slot.side[main(r)] = Window(s)
      BY <2>2, <2>5, AfterIs
    <3>2. Gather(Context(Window(s), u, width), n[r]) = Window(s \o SubSeq(u, 1, n[r]))
      <4>1. width \in Int
        BY <1>4
      <4> HIDE DEF s, u, width
      <4> QED
        BY <2>1, <4>1, Gathered
    <3>3. state(b, r) = Gather(Context(slot.side[main(r)], u, width), n[r])
      BY <2>5
    <3> HIDE DEF state, s, u, width
    <3>4. state(b, r) = Window(s \o u)
      BY <2>1, <3>1, <3>2, <3>3, Zenon
    <3>5. state(b, r) = After(b, s \o u)
      BY <2>5, <3>4, AfterIs, Zenon
    <3> QED
      BY <2>1, <3>5, Zenon DEF s
  <2> QED
    BY <2>2, <2>3, <2>4, <2>5
<1>8. ASSUME NEW i \in 1..Len(B), B[i] \in masked, NEW b \in Buffers
      PROVE  tracks(b)[i] = <<track[B[i]], After(b, toks[B[i]] \o SubSeq(t[B[i]], 1, cut[B[i]]))>>
  <2> DEFINE r == B[i]
             s == toks[r]
             u == new(r)
             k == cut[r]
  <2>0. i \in DOMAIN B
    BY <1>2, BatchIs
  <2>1. /\ r \in S /\ s \in Seq(Toks) /\ u \in Seq(Toks) /\ Len(u) = n[r] /\ t[r] = u
        /\ k \in 0..Len(u) /\ k >= Win /\ mask(r) /\ clamped(r) = k /\ upto(r) = SubSeq(u, 1, k)
    BY <1>3, <1>5, <1>6, <1>8
  <2>2. slot[b][main(r)] = After(b, s) /\ b \in {"gdn", "conv", "side"}
    BY <1>3, <2>1, AfterIs
  <2>3. CASE b = "gdn"
    <3>1. tracks(b)[i] = <<track[r], slot.gdn[main(r)] \o upto(r)>>
      BY <2>0, <2>1, <2>3
    <3>2. slot.gdn[main(r)] = s
      BY <2>2, <2>3, AfterIs
    <3>3. After(b, s \o SubSeq(u, 1, k)) = s \o SubSeq(u, 1, k)
      BY <2>3, AfterIs
    <3> HIDE DEF tracks, s, u, k, r, upto
    <3>4. tracks(b)[i] = <<track[r], After(b, s \o SubSeq(u, 1, k))>>
      BY <2>1, <3>1, <3>2, <3>3, Zenon
    <3>5. tracks(b)[i] = <<track[r], After(b, s \o SubSeq(t[r], 1, k))>>
      BY <2>1, <3>4, Zenon
    <3> QED
      BY <3>5, Zenon DEF s, k, r
  <2>4. CASE b = "conv"
    <3>1. tracks(b)[i] = <<track[r], LastOf(upto(r))>>
      BY <2>0, <2>1, <2>4
    <3>2. LastOf(SubSeq(u, 1, k)) = Window(s \o SubSeq(u, 1, k))
      <4> HIDE DEF s, u, k
      <4> DEFINE v == SubSeq(u, 1, k)
      <4>1. v \in Seq(Toks) /\ Len(v) = k
        BY <2>1, FirstOf
      <4> HIDE DEF v
      <4>2. LastOf(v) = Window(s \o v)
        BY <2>1, <4>1, WindowAlone
      <4> QED
        BY <4>2 DEF v
    <3>3. After(b, s \o SubSeq(u, 1, k)) = Window(s \o SubSeq(u, 1, k))
      BY <2>4, AfterIs
    <3> HIDE DEF tracks, s, u, k, r, upto
    <3>4. tracks(b)[i] = <<track[r], After(b, s \o SubSeq(u, 1, k))>>
      BY <2>1, <3>1, <3>2, <3>3, Zenon
    <3>5. tracks(b)[i] = <<track[r], After(b, s \o SubSeq(t[r], 1, k))>>
      BY <2>1, <3>4, Zenon
    <3> QED
      BY <3>5, Zenon DEF s, k, r
  <2>5. CASE b = "side"
    <3>1. tracks(b)[i] = <<track[r], Gather(Context(slot.side[main(r)], u, width), clamped(r))>>
      BY <2>0, <2>1, <2>5 DEF TrackTarget
    <3>2. slot.side[main(r)] = Window(s)
      BY <2>2, <2>5, AfterIs
    <3>3. Gather(Context(Window(s), u, width), k) = Window(s \o SubSeq(u, 1, k))
      <4>1. width \in Int
        BY <1>4, <2>1
      <4> HIDE DEF s, u, width, k
      <4> QED
        BY <2>1, <4>1, Gathered
    <3>4. After(b, s \o SubSeq(u, 1, k)) = Window(s \o SubSeq(u, 1, k))
      BY <2>5, AfterIs
    <3> HIDE DEF tracks, s, u, k, r, clamped, width
    <3>5. tracks(b)[i] = <<track[r], After(b, s \o SubSeq(u, 1, k))>>
      BY <2>1, <3>1, <3>2, <3>3, <3>4, Zenon
    <3>6. tracks(b)[i] = <<track[r], After(b, s \o SubSeq(t[r], 1, k))>>
      BY <2>1, <3>5, Zenon
    <3> QED
      BY <3>6, Zenon DEF s, k, r
  <2> QED
    BY <2>2, <2>3, <2>4, <2>5
<1>9. ASSUME NEW b \in Buffers PROVE Stores(b, S, masked, t, cut, slot'[b])
  <2>1. /\ DOMAIN B = 1..Len(B) /\ Len(B) \in Nat
        /\ \A i \in 1..Len(B) : B[i] \in S
    BY <1>2, BatchIs
  <2>2. DOMAIN mains(b) = 1..Len(B) /\ DOMAIN tracks(b) = 1..Len(B)
    BY <2>1
  <2>3. \A i \in 1..Len(B) : mains(b)[i] = <<main(B[i]), state(b, B[i])>>
    BY <2>1
  <2>4. ASSUME NEW i \in 1..Len(B), B[i] \notin masked PROVE tracks(b)[i][1] \in {Dummy, -1}
    <3>1. ~mask(B[i]) /\ i \in DOMAIN B
      BY <2>1, <2>4
    <3>2. CASE b = "side"
      BY <3>1, <3>2 DEF TrackTarget
    <3>3. CASE b # "side"
      <4>1. tracks(b)[i] = Nowhere
        BY <3>1, <3>3
      <4> HIDE DEF tracks
      <4> QED
        BY <4>1 DEF Nowhere
    <3> QED
      BY <3>2, <3>3
  <2>5. slot'[b] = WriteLive(slot[b], tracks(b), mains(b)) \/ slot'[b] = WriteLive(slot[b], mains(b), tracks(b))
    BY <1>1
  <2>6. \A i \in 1..Len(B) : state(b, B[i]) = After(b, toks[B[i]] \o t[B[i]])
    BY <1>7, <2>1
  <2>7. \A i \in 1..Len(B) : B[i] \in masked =>
          tracks(b)[i] = <<track[B[i]], After(b, toks[B[i]] \o SubSeq(t[B[i]], 1, cut[B[i]]))>>
    BY <1>8
  <2> HIDE DEF mains, tracks, state, t, cut, masked
  <2>8. Aimed(B, masked, Len(B), mains(b), tracks(b))
    BY <2>1, <2>2, <2>3, <2>4, <2>7 DEF Aimed
  <2>9. Landed(b, B, masked, mains(b), tracks(b), slot'[b])
    BY <1>2, <2>5, <2>8, Landing
  <2>10. \A i \in 1..Len(B) : mains(b)[i][2] = After(b, toks[B[i]] \o t[B[i]])
    BY <2>3, <2>6
  <2>11. \A i \in 1..Len(B) : B[i] \in masked =>
           tracks(b)[i][2] = After(b, toks[B[i]] \o SubSeq(t[B[i]], 1, cut[B[i]]))
    BY <2>7
  <2> QED
    BY <1>2, <2>9, <2>10, <2>11, LandedStores
<1>10. Advances(S, masked, t, cut)
  <2>1. toks' = [r \in Reqs |-> toks'[r]] /\ tracked' = [r \in Reqs |-> tracked'[r]]
    BY <1>1
  <2>2. ASSUME NEW r \in S PROVE t[r] \in Seq(Toks) /\ toks'[r] = toks[r] \o t[r]
    <3>1. toks'[r] = toks[r] \o new(r)
      BY <1>1, <1>3
    <3> HIDE DEF new, t
    <3> QED
      BY <1>5, <3>1
  <2>3. ASSUME NEW r \in masked
        PROVE  /\ cut[r] \in 0..Len(t[r]) /\ tracked'[r] = len(r) + cut[r]
               /\ Multiple(len(r) + cut[r])
    <3>1. r \in S /\ r \in Reqs /\ mask(r)
      BY <1>2, <1>6
    <3>2. tracked'[r] = Boundary(post(r))
      BY <1>1, <3>1
    <3>3. Len(t[r]) = n[r]
      BY <1>5, <3>1
    <3> HIDE DEF masked, cut, t, post, mask
    <3> QED
      BY <1>6, <3>2, <3>3
  <2>4. \A r \in Reqs \ S : toks'[r] = toks[r]
    BY <1>1
  <2>5. \A r \in Reqs \ masked : tracked'[r] = tracked[r]
    BY <1>1
  <2>6. DOMAIN slot' = Buffers
    BY <1>1
  <2>7. status' \in [Reqs -> Statuses]
    BY <1>1 DEF Core, Types, Statuses
  <2>8. \A r \in Reqs : status'[r] # status[r] => r \in S /\ status[r] = "prefill" /\ status'[r] = "running"
    BY <1>1, <1>3
  <2>9. ASSUME NEW r \in S, status'[r] = "prefill" PROVE Multiple(Len(toks'[r]))
    <3>1. post(r) # Prompt /\ post(r) % Interval = 0
      BY <1>1, <1>2, <2>9
    <3>2. Multiple(post(r))
      BY <1>3, <3>1, OnInterval
    <3>3. Len(toks'[r]) = Len(toks[r]) + Len(t[r])
      <4> DEFINE s == toks[r]
                 u == t[r]
      <4>1. s \in Seq(Toks) /\ u \in Seq(Toks) /\ toks'[r] = s \o u
        BY <1>3, <2>2
      <4> HIDE DEF s, u
      <4>2. Len(s \o u) = Len(s) + Len(u)
        BY <4>1, ConcatProperties
      <4>3. Len(toks'[r]) = Len(s \o u)
        BY <4>1, Zenon
      <4>4. Len(toks'[r]) = Len(s) + Len(u)
        BY <4>2, <4>3, Zenon
      <4> QED
        BY <4>4 DEF s, u
    <3>4. Len(toks'[r]) = post(r)
      BY <1>3, <1>5, <3>3
    <3> QED
      BY <3>2, <3>4
  <2> HIDE DEF masked, t, cut
  <2> QED
    BY <1>9, <2>1, <2>2, <2>3, <2>4, <2>5, <2>6, <2>7, <2>8, <2>9 DEF Advances
<1> HIDE DEF masked, t, cut
<1> QED
  BY <1>1, <1>2, <1>10, AdvanceHolds

-----------------------------------------------------------------------------
(* Decode                                                                    *)

LEMMA DecodeHolds ==
  ASSUME Core, NEW B \in SetToSeqs(Of("running")), Decode(B)
  PROVE  Core'
<1> DEFINE S == Of("running")
           next(r) == Token(r, len(r), 0)
           mask(r) == Crosses(len(r), len(r) + 1)
           state(b, r) == IF b = "gdn" THEN Append(slot.gdn[main(r)], next(r))
                          ELSE LastOf(Append(slot[b][main(r)], next(r)))
           mains(b) ==
             IF b # "side" THEN [i \in DOMAIN B |-> <<main(B[i]), state(b, B[i])>>]
             ELSE [i \in 1..NumRows |->
                     <<SideSlot(B, i - 1),
                       IF i <= Len(B) THEN state(b, B[i])
                       ELSE LastOf(Append(slot.side[SideSlot(B, i - 1)], Junk))>>]
           tracks(b) == [i \in DOMAIN B |->
             IF b # "side" /\ ~mask(B[i]) THEN Nowhere
             ELSE <<TrackTarget(B[i], mask(B[i])), state(b, B[i])>>]
           masked == {r \in S : mask(r)}
           t == [r \in S |-> <<next(r)>>]
           cut == [r \in S |-> 1]
<1>1. /\ slot' = [b \in Buffers |-> WriteLive(slot[b], mains(b), tracks(b))]
      /\ toks' = [r \in Reqs |-> IF r \in S THEN Append(toks[r], next(r)) ELSE toks[r]]
      /\ tracked' = [r \in Reqs |->
           IF r \in S THEN IF mask(r) THEN len(r) + 1 ELSE tracked[r] ELSE tracked[r]]
      /\ UNCHANGED <<mode, index, row, track, status, cached, scratch, round, host, retracts>>
  BY DEF Decode
<1>2. S \in SUBSET Active /\ S \in SUBSET Reqs /\ masked \in SUBSET S
  BY DEF Active, Of
<1>3. ASSUME NEW r \in S
      PROVE  /\ r \in Active /\ r \in Reqs /\ len(r) \in Nat /\ toks[r] \in Seq(Toks) /\ len(r) = Len(toks[r])
             /\ \A b \in Buffers : slot[b][main(r)] = After(b, toks[r])
             /\ next(r) \in Toks /\ t[r] = <<next(r)>> /\ t[r] \in Seq(Toks) /\ Len(t[r]) = 1
             /\ cut[r] = 1 /\ SubSeq(t[r], 1, 1) = t[r] /\ status[r] = "running"
             /\ Append(toks[r], next(r)) = toks[r] \o t[r]
  <2>1. /\ r \in Active /\ r \in Reqs /\ len(r) \in Nat /\ toks[r] \in Seq(Toks) /\ len(r) = Len(toks[r])
        /\ \A b \in Buffers : slot[b][main(r)] = After(b, toks[r])
    BY <1>2, ActiveIs
  <2>2. next(r) \in Toks
    BY <2>1, TokenTypes
  <2>3. t[r] = <<next(r)>> /\ cut[r] = 1
    OBVIOUS
  <2> HIDE DEF t, next, cut
  <2>4. t[r] \in Seq(Toks) /\ Len(t[r]) = 1
    BY <2>2, <2>3
  <2>5. SubSeq(t[r], 1, Len(t[r])) = t[r]
    BY <2>4, WholeOf
  <2>6. status[r] = "running"
    BY DEF Of
  <2>7. Append(toks[r], next(r)) = toks[r] \o t[r]
    <3>1. toks[r] \o <<next(r)>> = Append(toks[r], next(r))
      BY <2>1, <2>2, <2>4, AppendIs
    <3> QED
      BY <2>3, <3>1, Zenon
  <2> QED
    BY <2>1, <2>2, <2>3, <2>4, <2>5, <2>6, <2>7
<1>4. ASSUME NEW r \in S, NEW b \in Buffers
      PROVE  state(b, r) = After(b, toks[r] \o t[r])
  <2> DEFINE s == toks[r]
             u == t[r]
             e == next(r)
  <2>1. s \in Seq(Toks) /\ u \in Seq(Toks) /\ u = <<e>> /\ e \in Toks /\ Append(s, e) = s \o u
    BY <1>3
  <2>2. slot[b][main(r)] = After(b, s) /\ b \in {"gdn", "conv", "side"}
    BY <1>3, AfterIs
  <2>3. CASE b = "gdn"
    <3>1. slot.gdn[main(r)] = s
      BY <2>2, <2>3, AfterIs
    <3>2. state(b, r) = Append(slot.gdn[main(r)], e)
      BY <2>3
    <3> HIDE DEF state, s, u, e
    <3>3. state(b, r) = s \o u
      BY <2>1, <3>1, <3>2, Zenon
    <3>4. After(b, s \o u) = s \o u
      BY <2>3, AfterIs
    <3>5. state(b, r) = After(b, s \o u)
      BY <3>3, <3>4, Zenon
    <3> QED
      BY <3>5, Zenon DEF s, u
  <2>4. CASE b # "gdn"
    <3>1. slot[b][main(r)] = Window(s)
      BY <2>2, <2>4, AfterIs
    <3>2. state(b, r) = LastOf(Append(slot[b][main(r)], e))
      BY <2>4
    <3>3. LastOf(Append(Window(s), e)) = Window(s \o u)
      <4> HIDE DEF s, u, e
      <4> DEFINE w == Window(s)
      <4>1. w \in Seq(Toks)
        BY <2>1, WindowIs
      <4>2. LastOf(w \o u) = Window(s \o u)
        BY <2>1, WindowGoesOn
      <4> HIDE DEF w
      <4>3. w \o <<e>> = Append(w, e)
        BY <2>1, <4>1, AppendIs
      <4>4. LastOf(Append(w, e)) = Window(s \o u)
        BY <2>1, <4>2, <4>3, Zenon
      <4> QED
        BY <4>4 DEF w
    <3> HIDE DEF state, s, u, e
    <3>4. state(b, r) = Window(s \o u)
      BY <3>1, <3>2, <3>3, Zenon
    <3>5. After(b, s \o u) = Window(s \o u)
      BY <2>2, <2>4, AfterIs
    <3>6. state(b, r) = After(b, s \o u)
      BY <3>4, <3>5, Zenon
    <3> QED
      BY <3>6, Zenon DEF s, u
  <2> QED
    BY <2>3, <2>4
<1>5. /\ DOMAIN B = 1..Len(B) /\ Len(B) \in Nat /\ Len(B) <= NumRows /\ NumRows \in Nat
      /\ \A i \in 1..Len(B) : B[i] \in S
  BY <1>2, BatchIs, RowsFit, Constants
<1>6. ASSUME NEW b \in Buffers PROVE Stores(b, S, masked, t, cut, slot'[b])
  <2> DEFINE m == IF b # "side" THEN Len(B) ELSE NumRows
  <2>1. m \in Nat /\ Len(B) <= m /\ DOMAIN mains(b) = 1..m /\ DOMAIN tracks(b) = 1..Len(B)
    BY <1>5
  <2>2. ASSUME NEW i \in 1..Len(B)
        PROVE  /\ mains(b)[i] = <<main(B[i]), state(b, B[i])>>
               /\ B[i] \in masked => tracks(b)[i] = <<track[B[i]], state(b, B[i])>>
               /\ B[i] \notin masked => tracks(b)[i][1] \in {Dummy, -1}
    <3>1. i \in DOMAIN B /\ B[i] \in S /\ i \in 1..NumRows /\ i - 1 < Len(B) /\ (i - 1) + 1 = i /\ i <= Len(B)
      BY <1>5
    <3>2. mains(b)[i] = <<main(B[i]), state(b, B[i])>>
      <4>1. CASE b = "side"
        <5>1. SideSlot(B, i - 1) = main(B[i])
          BY <3>1 DEF SideSlot
        <5>2. mains(b)[i] = <<SideSlot(B, i - 1), state(b, B[i])>>
          BY <3>1, <4>1
        <5> HIDE DEF mains, state
        <5> QED
          BY <5>1, <5>2, Zenon
      <4>2. CASE b # "side"
        BY <3>1, <4>2
      <4> QED
        BY <4>1, <4>2
    <3>3. tracks(b)[i] = IF b # "side" /\ ~mask(B[i]) THEN Nowhere
                         ELSE <<TrackTarget(B[i], mask(B[i])), state(b, B[i])>>
      BY <3>1
    <3>4. B[i] \in masked <=> mask(B[i])
      BY <3>1
    <3> HIDE DEF mains, tracks, state, masked, mask
    <3>5. B[i] \in masked => tracks(b)[i] = <<track[B[i]], state(b, B[i])>>
      BY <3>3, <3>4 DEF TrackTarget
    <3>6. B[i] \notin masked => tracks(b)[i][1] \in {Dummy, -1}
      BY <3>3, <3>4 DEF TrackTarget, Nowhere
    <3> QED
      BY <3>2, <3>5, <3>6
  <2>3. ASSUME NEW i \in 1..m, i > Len(B) PROVE mains(b)[i][1] = Dummy
    <3>1. b = "side" /\ i \in 1..NumRows /\ ~(i - 1 < Len(B))
      BY <1>5, <2>3
    <3>2. mains(b)[i][1] = SideSlot(B, i - 1)
      BY <3>1
    <3> HIDE DEF mains
    <3> QED
      BY <3>1, <3>2 DEF SideSlot
  <2>4. slot'[b] = WriteLive(slot[b], mains(b), tracks(b))
    BY <1>1
  <2>5. \A i \in 1..Len(B) : state(b, B[i]) = After(b, toks[B[i]] \o t[B[i]])
    BY <1>4, <1>5
  <2>6. \A i \in 1..Len(B) : t[B[i]] = SubSeq(t[B[i]], 1, cut[B[i]])
    BY <1>3, <1>5
  <2> HIDE DEF m, mains, tracks, state, t, cut, masked, S
  <2>7. Aimed(B, masked, m, mains(b), tracks(b))
    BY <2>1, <2>2, <2>3 DEF Aimed
  <2>8. Landed(b, B, masked, mains(b), tracks(b), slot'[b])
    <3>1. B \in SetToSeqs(S)
      BY DEF S
    <3> QED
      BY <1>2, <2>4, <2>7, <3>1, Landing
  <2>9. \A i \in 1..Len(B) : mains(b)[i][2] = After(b, toks[B[i]] \o t[B[i]])
    BY <2>2, <2>5
  <2>10. ASSUME NEW i \in 1..Len(B), B[i] \in masked
         PROVE  tracks(b)[i][2] = After(b, toks[B[i]] \o SubSeq(t[B[i]], 1, cut[B[i]]))
    <3>1. tracks(b)[i][2] = state(b, B[i])
      BY <2>2, <2>10
    <3> QED
      BY <2>5, <2>6, <3>1, Zenon
  <2>11. B \in SetToSeqs(S)
    BY DEF S
  <2> QED
    BY <1>2, <2>8, <2>9, <2>10, <2>11, LandedStores
<1>7. Advances(S, masked, t, cut)
  <2>1. toks' = [r \in Reqs |-> toks'[r]] /\ tracked' = [r \in Reqs |-> tracked'[r]]
    BY <1>1
  <2>2. ASSUME NEW r \in S PROVE t[r] \in Seq(Toks) /\ toks'[r] = toks[r] \o t[r]
    <3>1. toks'[r] = Append(toks[r], next(r))
      BY <1>1, <1>3
    <3> HIDE DEF next, t, S
    <3> QED
      BY <1>3, <3>1
  <2>3. ASSUME NEW r \in masked
        PROVE  /\ cut[r] \in 0..Len(t[r]) /\ tracked'[r] = len(r) + cut[r]
               /\ Multiple(len(r) + cut[r])
    <3>1. r \in S /\ mask(r) /\ r \in Reqs
      BY <1>2
    <3>2. tracked'[r] = len(r) + 1
      BY <1>1, <3>1
    <3>3. Multiple(len(r) + 1)
      BY <1>3, <3>1, CrossedOne
    <3>4. cut[r] = 1 /\ Len(t[r]) = 1
      BY <1>3, <3>1
    <3> HIDE DEF cut, t
    <3> QED
      BY <3>2, <3>3, <3>4
  <2>4. (\A r \in Reqs \ S : toks'[r] = toks[r]) /\ (\A r \in Reqs \ masked : tracked'[r] = tracked[r])
    BY <1>1
  <2>5. DOMAIN slot' = Buffers
    BY <1>1
  <2>6. status' = status /\ status \in [Reqs -> Statuses]
    BY <1>1 DEF Core, Types
  <2>7. \A r \in S : status'[r] # "prefill"
    BY <1>3, <2>6
  <2> HIDE DEF masked, t, cut, S
  <2> QED
    BY <1>6, <2>1, <2>2, <2>3, <2>4, <2>5, <2>6, <2>7 DEF Advances
<1> HIDE DEF masked, t, cut, S
<1> QED
  BY <1>1, <1>2, <1>7, AdvanceHolds

-----------------------------------------------------------------------------
(* Verify                                                                    *)

\* The first k nodes of a chain.
Chain(r, at, k) == [m \in 1..k |-> Token(r, at, m - 1)]

LEMMA ChainIs ==
  ASSUME NEW r \in Reqs, NEW at \in Nat, NEW k \in Nat
  PROVE  /\ Chain(r, at, k) \in Seq(Toks) /\ Len(Chain(r, at, k)) = k
         /\ \A m \in 0..k : SubSeq(Chain(r, at, k), 1, m) = Chain(r, at, m)
         /\ Append(Chain(r, at, k), Token(r, at, k)) = Chain(r, at, k + 1)
<1>1. ASSUME NEW n \in Nat
      PROVE  /\ Chain(r, at, n) \in Seq(Toks) /\ Len(Chain(r, at, n)) = n
             /\ \A m \in 1..n : Chain(r, at, n)[m] = Token(r, at, m - 1) /\ Token(r, at, m - 1) \in Toks
  <2>1. \A m \in 1..n : Token(r, at, m - 1) \in Toks
    BY TokenTypes
  <2> QED
    BY <2>1 DEF Chain
<1>2. ASSUME NEW m \in 0..k PROVE SubSeq(Chain(r, at, k), 1, m) = Chain(r, at, m)
  <2> DEFINE c == Chain(r, at, k)
             e == Chain(r, at, m)
  <2>1. /\ c \in Seq(Toks) /\ Len(c) = k /\ e \in Seq(Toks) /\ Len(e) = m /\ m \in Nat
        /\ \A x \in 1..m : c[x] = e[x]
    BY <1>1
  <2> HIDE DEF c, e
  <2>2. /\ SubSeq(c, 1, m) \in Seq(Toks) /\ Len(SubSeq(c, 1, m)) = m
        /\ \A x \in 1..m : SubSeq(c, 1, m)[x] = c[x]
    BY <2>1, FirstOf
  <2>3. SubSeq(c, 1, m) = e
    BY <2>1, <2>2, SeqEqual
  <2> QED
    BY <2>3 DEF c, e
<1>3. Append(Chain(r, at, k), Token(r, at, k)) = Chain(r, at, k + 1)
  <2> DEFINE c == Chain(r, at, k)
             e == Chain(r, at, k + 1)
             t == Token(r, at, k)
  <2>1. /\ c \in Seq(Toks) /\ Len(c) = k /\ e \in Seq(Toks) /\ Len(e) = k + 1 /\ t \in Toks
        /\ \A x \in 1..k : c[x] = e[x]
    BY <1>1, TokenTypes
  <2>2. e[k + 1] = t
    <3>1. k + 1 \in 1..k + 1 /\ (k + 1) - 1 = k
      OBVIOUS
    <3> QED
      BY <1>1, <3>1
  <2> HIDE DEF c, e, t
  <2>3. /\ Append(c, t) \in Seq(Toks) /\ Len(Append(c, t)) = k + 1
        /\ \A x \in 1..k : Append(c, t)[x] = c[x]
        /\ Append(c, t)[k + 1] = t
    BY <2>1, AppendProperties
  <2>4. ASSUME NEW x \in 1..k + 1 PROVE Append(c, t)[x] = e[x]
    <3>1. x = k + 1 \/ x \in 1..k
      OBVIOUS
    <3> QED
      BY <2>1, <2>2, <2>3, <3>1
  <2>5. Append(c, t) = e
    BY <2>1, <2>3, <2>4, SeqEqual
  <2> QED
    BY <2>5 DEF c, e, t
<1> QED
  BY <1>1, <1>2, <1>3

\* Windows of a chain overlap.
LEMMA ChainWindow ==
  ASSUME NEW s \in Seq(Toks), NEW t \in Seq(Toks), NEW k \in 0..Len(t), NEW w \in 1..Win
  PROVE  Window(s \o SubSeq(t, 1, k))[w] = Context(Window(s), t, 0)[k + w]
<1> DEFINE c == Context(Window(s), t, 0)
<1>1. c \in Seq(Toks) /\ Len(c) >= Win + Len(t) /\ Gather(c, k) = Window(s \o SubSeq(t, 1, k))
  BY ContextIs, Gathered
<1>2. Len(t) \in Nat /\ Len(c) \in Nat /\ Win \in Nat \ {0} /\ k \in Nat
  BY <1>1, Constants
<1> HIDE DEF c
<1>3. \A i \in k + 1..k + Win : c[i] \in Toks
  BY <1>1, <1>2
<1>4. \A i \in 1..k + Win - (k + 1) + 1 : SubSeq(c, k + 1, k + Win)[i] = c[k + 1 + i - 1]
  BY <1>2, <1>3, SubSeqProperties
<1>5. w \in 1..k + Win - (k + 1) + 1 /\ k + 1 + w - 1 = k + w
  BY <1>2
<1>6. Gather(c, k)[w] = c[k + w]
  BY <1>4, <1>5 DEF Gather
<1> QED
  BY <1>1, <1>6 DEF c

LEMMA CellIs ==
  ASSUME NEW i \in 0..NumRows - 1, NEW j \in 0..MaxDraft - 1
  PROVE  Cell(i, j, MaxDraft) \in Cells
<1>1. NumRows \in Nat \ {0} /\ MaxDraft \in Nat \ {0}
  BY Constants
<1>2. i * MaxDraft <= (NumRows - 1) * MaxDraft /\ i * MaxDraft \in Nat
  BY <1>1
<1>3. (NumRows - 1) * MaxDraft = NumRows * MaxDraft - MaxDraft /\ NumRows * MaxDraft \in Nat
  BY <1>1
<1> QED
  BY <1>1, <1>2, <1>3 DEF Cell, Cells

LEMMA ElementIs ==
  ASSUME NEW j \in 0..MaxDraft - 1, NEW w \in 0..Win - 1
  PROVE  Element(j, w) \in ConvCells
<1>1. Win \in Nat \ {0} /\ MaxDraft \in Nat \ {0}
  BY Constants
<1>2. /\ j * Win <= (MaxDraft - 1) * Win /\ j * Win \in Nat /\ MaxDraft * Win \in Nat
      /\ (MaxDraft - 1) * Win = MaxDraft * Win - Win /\ Win <= MaxDraft * Win
  BY <1>1
<1>3. CASE Dedup
  BY <1>1, <1>2, <1>3 DEF Element, ConvCells
<1>4. CASE ~Dedup
  BY <1>1, <1>2, <1>4 DEF Element, ConvCells
<1> QED
  BY <1>3, <1>4

LEMMA DraftsIs ==
  ASSUME NEW d \in Drafts
  PROVE  d \in Nat \ {0} /\ d <= MaxDraft
BY RecurrentAssumption

\* What the rows of a batch start from.
LEMMA RowIs ==
  ASSUME Core, NEW order \in SetToSeqs(Of("running")), NEW i \in 1..Len(order)
  PROVE  /\ order[i] \in Of("running") /\ order[i] \in Active
         /\ i - 1 \in Rows /\ i - 1 < Len(order) /\ (i - 1) + 1 = i
         /\ i - 1 \in 0..NumRows - 1 /\ i - 1 \in 0..Len(order) - 1 /\ i - 1 \in Nat
<1>1. Of("running") \in SUBSET Active /\ Of("running") \in SUBSET Reqs
  BY DEF Active, Of
<1>2. DOMAIN order = 1..Len(order) /\ Len(order) \in Nat /\ Len(order) <= NumRows /\ NumRows \in Nat
      /\ order[i] \in Of("running")
  BY <1>1, BatchIs, RowsFit, Constants
<1> QED
  BY <1>1, <1>2 DEF Rows

\* The tokens of r after a node, and the drafts on the way.
LEMMA NodeIs ==
  ASSUME Core, NEW r \in Active, NEW d \in Nat \ {0}, NEW p \in Trees(d), NEW j \in 0..d - 1
  PROVE  /\ Hangs(d, p) /\ PathFrom(r, len(r), p, j) \in Seq(Toks)
         /\ PathTo(r, p, j) = PathFrom(r, len(r), p, j)
         /\ Draft(r, j) = Token(r, len(r), j) /\ Draft(r, j) \in Toks
         /\ toks[r] \o PathFrom(r, len(r), p, j) \in Seq(Toks)
         /\ mode # "tree" => PathFrom(r, len(r), p, j) = Chain(r, len(r), j + 1)
<1>1. r \in Reqs /\ len(r) \in Nat /\ toks[r] \in Seq(Toks)
  BY ActiveIs
<1>2. Hangs(d, p)
  BY TreesHang
<1>3. PathFrom(r, len(r), p, j) \in Seq(Toks)
  BY <1>1, <1>2, PathFromIs
<1>4. mode # "tree" => PathFrom(r, len(r), p, j) = Chain(r, len(r), j + 1)
  BY <1>1, <1>2, TreesHang, ChainPath DEF Chain
<1>5. Token(r, len(r), j) \in Toks
  BY <1>1, TokenTypes
<1> QED
  BY <1>1, <1>2, <1>3, <1>4, <1>5, PathToIs, ConcatProperties DEF Draft

\* Each node starts from its parent's state.
LEMMA BeforeIs ==
  ASSUME Core, NEW r \in Active, NEW d \in Nat \ {0}, NEW p \in Trees(d), NEW j \in 0..d - 1
  PROVE  /\ Before(r, p, j) = IF j = 0 THEN toks[r] ELSE toks[r] \o PathFrom(r, len(r), p, p[j])
         /\ Append(Before(r, p, j), Draft(r, j)) = toks[r] \o PathFrom(r, len(r), p, j)
<1> DEFINE s == toks[r]
           e == Token(r, len(r), j)
<1>1. r \in Reqs /\ len(r) \in Nat /\ s \in Seq(Toks) /\ e \in Toks /\ Draft(r, j) = e /\ Hangs(d, p)
  BY ActiveIs, NodeIs
<1>2. slot.gdn[main(r)] = s
  <2>1. "gdn" \in Buffers
    BY DEF Buffers
  <2>2. slot["gdn"][main(r)] = After("gdn", s)
    BY <2>1, ActiveIs
  <2> QED
    BY <2>2, AfterIs
<1>3. Before(r, p, j) = IF j = 0 THEN s ELSE s \o PathFrom(r, len(r), p, p[j])
  BY <1>2, PathToIs DEF Before
<1>4. CASE j = 0
  <2>1. PathFrom(r, len(r), p, j) = <<e>>
    BY <1>1, <1>4, PathFromIs
  <2> HIDE DEF s, e
  <2>2. Append(Before(r, p, j), Draft(r, j)) = Append(s, e)
    BY <1>1, <1>3, <1>4, Zenon
  <2>3. s \o <<e>> = Append(s, e)
    BY <1>1, AppendIs
  <2>4. Append(Before(r, p, j), Draft(r, j)) = s \o PathFrom(r, len(r), p, j)
    BY <2>1, <2>2, <2>3, Zenon
  <2> QED
    BY <1>3, <2>4, Zenon DEF s
<1>5. CASE j # 0
  <2> DEFINE x == PathFrom(r, len(r), p, p[j])
  <2>1. j \in 1..d - 1 /\ p[j] \in 0..d - 1
    BY <1>1, <1>5 DEF Hangs
  <2>2. PathFrom(r, len(r), p, j) = Append(x, e) /\ x \in Seq(Toks)
    BY <1>1, <2>1, PathFromIs
  <2> HIDE DEF s, e, x
  <2>3. Append(Before(r, p, j), Draft(r, j)) = Append(s \o x, e)
    BY <1>1, <1>3, <1>5, Zenon DEF x
  <2>4. s \o Append(x, e) = Append(s \o x, e)
    BY <1>1, <2>2, AppendIs
  <2>5. Append(Before(r, p, j), Draft(r, j)) = s \o PathFrom(r, len(r), p, j)
    BY <2>2, <2>3, <2>4, Zenon
  <2> QED
    BY <1>3, <2>5, Zenon DEF s
<1> QED
  BY <1>4, <1>5

LEMMA SnapshotsAre ==
  ASSUME Core, NEW order \in SetToSeqs(Of("running")), NEW d \in Drafts, NEW p \in Trees(d),
         NEW i \in 1..Len(order), NEW j \in 0..d - 1
  PROVE  Snapshots(order, d, p)[Cell(i - 1, j, MaxDraft)]
           = toks[order[i]] \o PathFrom(order[i], len(order[i]), p, j)
<1> DEFINE c == Cell(i - 1, j, MaxDraft)
           nodes == {n \in (0..Len(order) - 1) \X (0..d - 1) : Cell(n[1], n[2], Pitch(d)) = c}
           n == CHOOSE n \in nodes : TRUE
           r == order[i]
<1>1. d \in Nat \ {0} /\ d <= MaxDraft /\ MaxDraft \in Nat \ {0} /\ j \in 0..MaxDraft - 1 /\ j \in Nat
  BY DraftsIs, Constants
<1>2. r \in Active /\ i - 1 \in 0..NumRows - 1 /\ (i - 1) + 1 = i /\ i - 1 \in 0..Len(order) - 1
      /\ i - 1 \in Nat
  BY RowIs
<1>3. c \in Cells
  BY <1>1, <1>2, CellIs
<1>4. <<i - 1, j>> \in nodes
  BY <1>2 DEF Pitch
<1>5. n \in nodes
  BY <1>4
<1>6. n = <<i - 1, j>>
  <2>1. n \in (0..Len(order) - 1) \X (0..d - 1) /\ Cell(n[1], n[2], MaxDraft) = Cell(i - 1, j, MaxDraft)
    BY <1>5 DEF Pitch
  <2> HIDE DEF n
  <2>2. n[1] \in Nat /\ n[2] \in 0..MaxDraft - 1 /\ n = <<n[1], n[2]>>
    BY <1>1, <2>1
  <2>3. n[1] * MaxDraft + n[2] = (i - 1) * MaxDraft + j
    BY <2>1 DEF Cell
  <2> DEFINE u == n[1]
             v == n[2]
             w == i - 1
  <2>4. u \in Nat /\ v \in 0..(MaxDraft - 1) /\ u * MaxDraft + v = w * MaxDraft + j
    BY <2>2, <2>3
  <2>5. w \in Nat /\ j \in 0..(MaxDraft - 1) /\ MaxDraft \in Nat \ {0}
    BY <1>1, <1>2
  <2>6. u = w /\ v = j
    <3> HIDE DEF u, v, w
    <3> QED
      BY <2>4, <2>5, SamePlace
  <2> QED
    BY <2>2, <2>6
<1>7. Snapshots(order, d, p)[c]
        = IF nodes = {} THEN scratch.snap[c]
          ELSE Append(Before(order[n[1] + 1], p, n[2]), Draft(order[n[1] + 1], n[2]))
  BY <1>3 DEF Snapshots
<1> HIDE DEF nodes, n
<1>8. Snapshots(order, d, p)[c] = Append(Before(r, p, j), Draft(r, j))
  BY <1>2, <1>4, <1>6, <1>7
<1>9. Append(Before(r, p, j), Draft(r, j)) = toks[r] \o PathFrom(r, len(r), p, j)
  BY <1>1, <1>2, BeforeIs
<1> QED
  BY <1>8, <1>9, Zenon

\* An element two windows share is the same in both.
LEMMA ElementSays ==
  ASSUME Core, NEW r \in Active, NEW d \in Drafts, NEW p \in Trees(d),
         NEW j \in 0..d - 1, NEW w \in 1..Win, NEW k \in 0..d - 1, NEW v \in 1..Win,
         Element(j, w - 1) = Element(k, v - 1)
  PROVE  Window(toks[r] \o PathFrom(r, len(r), p, j))[w] = Window(toks[r] \o PathFrom(r, len(r), p, k))[v]
<1>1. d \in Nat \ {0} /\ Win \in Nat \ {0}
  BY DraftsIs, Constants
<1>2. CASE mode = "tree"
  <2>1. j * Win + (w - 1) = k * Win + (v - 1)
    BY <1>2 DEF Element, Dedup
  <2>2. j \in Nat /\ k \in Nat /\ w - 1 \in 0..Win - 1 /\ v - 1 \in 0..Win - 1
    BY <1>1
  <2>3. j = k /\ w - 1 = v - 1
    BY <1>1, <2>1, <2>2, SamePlace
  <2>4. w = v
    BY <1>1, <2>3
  <2> QED
    BY <2>3, <2>4
<1>3. CASE mode # "tree"
  <2> DEFINE s == toks[r]
             t == Chain(r, len(r), d)
             c == Context(Window(s), t, 0)
  <2>1. r \in Reqs /\ len(r) \in Nat /\ s \in Seq(Toks)
    BY ActiveIs
  <2>2. t \in Seq(Toks) /\ Len(t) = d
    BY <1>1, <2>1, ChainIs
  <2>3. ASSUME NEW x \in 0..d - 1, NEW y \in 1..Win
        PROVE  Window(s \o PathFrom(r, len(r), p, x))[y] = c[x + 1 + y]
    <3>1. x + 1 \in 0..Len(t) /\ x + 1 \in 0..d
      BY <1>1, <2>2
    <3>2. Window(s \o SubSeq(t, 1, x + 1))[y] = c[x + 1 + y]
      <4> HIDE DEF s, t
      <4> QED
        BY <2>1, <2>2, <3>1, ChainWindow
    <3>3. SubSeq(t, 1, x + 1) = Chain(r, len(r), x + 1)
      BY <1>1, <2>1, <3>1, ChainIs
    <3>4. PathFrom(r, len(r), p, x) = Chain(r, len(r), x + 1)
      BY <1>1, <1>3, NodeIs
    <3> HIDE DEF s, t, c
    <3> QED
      BY <3>2, <3>3, <3>4, Zenon
  <2>4. j + 1 + w = k + 1 + v
    <3>1. j + (w - 1) = k + (v - 1)
      BY <1>3 DEF Element, Dedup
    <3> QED
      BY <1>1, <3>1
  <2> HIDE DEF c, s
  <2>5. Window(s \o PathFrom(r, len(r), p, j))[w] = Window(s \o PathFrom(r, len(r), p, k))[v]
    BY <2>3, <2>4
  <2> QED
    BY <2>5 DEF s
<1> QED
  BY <1>2, <1>3

LEMMA WindowsAre ==
  ASSUME Core, NEW order \in SetToSeqs(Of("running")), NEW d \in Drafts, NEW p \in Trees(d),
         NEW i \in 1..Len(order), NEW j \in 0..d - 1, NEW w \in 1..Win
  PROVE  Windows(order, d, p)[i - 1][Element(j, w - 1)]
           = Window(toks[order[i]] \o PathFrom(order[i], len(order[i]), p, j))[w]
<1> DEFINE r == order[i]
           win(k) == LastOf(slot.conv[main(r)] \o PathTo(r, p, k))
           within(k, c) == {x \in 0..Win - 1 : Element(k, x) = c}
           by(c) == {k \in 0..d - 1 : within(k, c) # {}}
           c == Element(j, w - 1)
<1>1. d \in Nat \ {0} /\ d <= MaxDraft /\ MaxDraft \in Nat \ {0} /\ Win \in Nat \ {0}
  BY DraftsIs, Constants
<1>2. r \in Active /\ i - 1 \in Rows /\ (i - 1) + 1 = i /\ i - 1 < Len(order)
  BY RowIs
<1>3. j \in 0..MaxDraft - 1 /\ w - 1 \in 0..Win - 1
  BY <1>1
<1>4. c \in ConvCells
  BY <1>3, ElementIs
<1>5. by(c) \in SUBSET (0..d - 1) /\ j \in by(c)
  BY <1>3
<1>6. Max(by(c)) \in by(c)
  <2> HIDE DEF by
  <2>1. d - 1 \in Nat
    BY <1>1
  <2> QED
    BY <1>5, <2>1, Largest
<1> DEFINE k == Max(by(c))
<1>7. k \in 0..d - 1 /\ within(k, c) \in SUBSET (0..Win - 1) /\ within(k, c) # {}
  <2> HIDE DEF k
  <2>1. k \in by(c)
    BY <1>6 DEF k
  <2> QED
    BY <2>1
<1>8. Max(within(k, c)) \in within(k, c)
  <2> HIDE DEF within, k
  <2>1. Win - 1 \in Nat
    BY <1>1
  <2> QED
    BY <1>7, <2>1, Largest
<1> DEFINE v == Max(within(k, c))
<1>9. Windows(order, d, p)[i - 1][c] = win(k)[1 + v]
  <2>1. Windows(order, d, p)[i - 1] =
          [e \in ConvCells |-> IF by(e) = {} THEN scratch.conv[i - 1][e]
                               ELSE win(Max(by(e)))[1 + Max(within(Max(by(e)), e))]]
    BY <1>2 DEF Windows
  <2> HIDE DEF win, within, by, c
  <2> QED
    BY <1>4, <1>5, <2>1
<1> HIDE DEF k
<1>10. v \in 0..Win - 1 /\ Element(k, v) = c
  <2> HIDE DEF v
  <2>1. v \in within(k, c)
    BY <1>8 DEF v
  <2> QED
    BY <2>1
<1> HIDE DEF v
<1>11. 1 + v \in 1..Win /\ (1 + v) - 1 = v
  BY <1>1, <1>10
<1>12. win(k) = Window(toks[r] \o PathFrom(r, len(r), p, k))
  <2> DEFINE s == toks[r]
             x == PathFrom(r, len(r), p, k)
  <2>1. s \in Seq(Toks) /\ x \in Seq(Toks) /\ PathTo(r, p, k) = x
    BY <1>1, <1>2, <1>7, ActiveIs, NodeIs
  <2>2. slot.conv[main(r)] = Window(s)
    <3>1. "conv" \in Buffers
      BY DEF Buffers
    <3>2. slot["conv"][main(r)] = After("conv", s)
      BY <1>2, <3>1, ActiveIs
    <3> QED
      BY <3>2, AfterIs
  <2> HIDE DEF s, x
  <2>3. LastOf(Window(s) \o x) = Window(s \o x)
    BY <2>1, WindowGoesOn
  <2>4. win(k) = Window(s \o x)
    BY <2>1, <2>2, <2>3, Zenon
  <2> QED
    BY <2>4, Zenon DEF s, x
<1> HIDE DEF win
<1>13. Window(toks[r] \o PathFrom(r, len(r), p, j))[w]
         = Window(toks[r] \o PathFrom(r, len(r), p, k))[1 + v]
  <2>1. Element(j, w - 1) = Element(k, (1 + v) - 1)
    BY <1>10, <1>11
  <2> HIDE DEF c
  <2> QED
    BY <1>2, <1>7, <1>11, <2>1, ElementSays
<1> QED
  BY <1>9, <1>12, <1>13, Zenon

LEMMA SidesAre ==
  ASSUME Core, mode # "tree", NEW order \in SetToSeqs(Of("running")), NEW d \in Drafts, NEW p \in Trees(d),
         NEW i \in 1..Len(order), NEW j \in 0..d - 1
  PROVE  SideSteps(order, d)[i - 1][j] = Window(toks[order[i]] \o PathFrom(order[i], len(order[i]), p, j))
<1> DEFINE r == order[i]
           s == toks[r]
           t == Chain(r, len(r), d)
<1>1. d \in Nat \ {0} /\ d <= MaxDraft /\ MaxDraft \in Nat \ {0}
  BY DraftsIs, Constants
<1>2. r \in Active /\ i - 1 \in Rows /\ (i - 1) + 1 = i /\ i - 1 < Len(order)
  BY RowIs
<1>3. r \in Reqs /\ len(r) \in Nat /\ s \in Seq(Toks)
  BY <1>2, ActiveIs
<1>4. t \in Seq(Toks) /\ Len(t) = d /\ SubSeq(t, 1, j + 1) = Chain(r, len(r), j + 1) /\ j + 1 \in 0..Len(t)
  <2>1. j + 1 \in 0..d
    BY <1>1
  <2>2. d \in Nat
    BY <1>1
  <2>3. t \in Seq(Toks) /\ Len(t) = d
    BY <1>3, <2>2, ChainIs
  <2>4. SubSeq(t, 1, j + 1) = Chain(r, len(r), j + 1)
    BY <1>3, <2>1, <2>2, ChainIs
  <2> QED
    BY <2>1, <2>3, <2>4
<1>5. slot.side[main(r)] = Window(s)
  <2>1. "side" \in Buffers
    BY DEF Buffers, Sides
  <2>2. slot["side"][main(r)] = After("side", s)
    BY <1>2, <2>1, ActiveIs
  <2> QED
    BY <2>2, AfterIs
<1>6. SideSteps(order, d)[i - 1][j]
        = Gather(Context(slot.side[main(r)], [k \in 1..d |-> Draft(r, k - 1)], d), j + 1)
  <2>1. j \in 0..MaxDraft - 1 /\ j < d
    BY <1>1
  <2> QED
    BY <1>2, <2>1 DEF SideSteps
<1>7. [k \in 1..d |-> Draft(r, k - 1)] = t
  BY DEF Draft, Chain
<1>8. PathFrom(r, len(r), p, j) = Chain(r, len(r), j + 1)
  BY <1>1, <1>2, NodeIs
<1> HIDE DEF s, t
<1>9. Gather(Context(Window(s), t, d), j + 1) = Window(s \o SubSeq(t, 1, j + 1))
  BY <1>1, <1>3, <1>4, Gathered
<1>10. SideSteps(order, d)[i - 1][j] = Window(s \o PathFrom(r, len(r), p, j))
  BY <1>4, <1>5, <1>6, <1>7, <1>8, <1>9, Zenon
<1> QED
  BY <1>10, Zenon DEF s

\* What depends on no more than the requests and the slots.
LEMMA CoreSame ==
  ASSUME Core, UNCHANGED <<mode, slot, index, row, track, tracked, toks, status, cached, host>>
  PROVE  Core'
<1>1. Buffers' = Buffers /\ Active' = Active /\ Owned' = Owned /\ \A r : main(r)' = main(r)
  BY DEF Buffers, Sides, Active, Of, Owned, main
<1>2. Types'
  BY <1>1 DEF Core, Types
<1>3. Homes' /\ Apart' /\ Unshared'
  BY <1>1 DEF Core, Homes, Apart, Unshared
<1>4. Mains' /\ Tracks'
  BY <1>1 DEF Core, Mains, Tracks, Multiple
<1>5. Keeps' /\ Parked' /\ Chunked'
  BY <1>1 DEF Core, Keeps, Parked, Chunked, Of, Multiple
<1> QED
  BY <1>2, <1>3, <1>4, <1>5 DEF Core

LEMMA VerifyHolds ==
  ASSUME Core, NEW order \in SetToSeqs(Of("running")), NEW d \in Drafts, NEW p \in Trees(d),
         Verify(order, d, p)
  PROVE  IInv'
<1>1. /\ mode # "decode" /\ round' = [order |-> order, width |-> d, parent |-> p]
      /\ scratch' =
           [active |-> [i \in Rows |-> IF i < Len(order) THEN mode = "replay" ELSE scratch.active[i]],
            snap |-> IF mode = "replay" THEN scratch.snap ELSE Snapshots(order, d, p),
            log  |-> IF mode = "replay" THEN Logged(order, d, p) ELSE scratch.log,
            conv |-> Windows(order, d, p),
            side |-> IF mode = "tree" THEN scratch.side ELSE SideSteps(order, d)]
      /\ UNCHANGED <<mode, slot, index, row, track, tracked, toks, status, cached, host, retracts>>
  BY DEF Verify
<1>2. Core'
  BY <1>1, CoreSame
<1>3. d \in Nat \ {0} /\ d <= MaxDraft /\ MaxDraft \in Nat \ {0}
  BY DraftsIs, Constants
<1>4. DOMAIN order = 1..Len(order)
  <2>1. Of("running") \in SUBSET Reqs
    BY DEF Of
  <2> QED
    BY <2>1, BatchIs
<1>5. ASSUME NEW i \in 1..Len(order), NEW j \in 0..d - 1
      PROVE  NodeOK(i - 1, order[i], p, j, toks[order[i]] \o PathFrom(order[i], len(order[i]), p, j))'
  <2> DEFINE r == order[i]
             s == toks[r] \o PathFrom(r, len(r), p, j)
  <2>1. r \in Active /\ i - 1 \in Rows /\ (i - 1) + 1 = i /\ i - 1 < Len(order)
    BY RowIs
  <2>2. ASSUME mode # "replay" PROVE scratch'.snap[Cell(i - 1, j, MaxDraft)] = s
    <3>1. scratch'.snap = Snapshots(order, d, p)
      BY <1>1, <2>2
    <3>2. Snapshots(order, d, p)[Cell(i - 1, j, MaxDraft)] = s
      BY SnapshotsAre
    <3> HIDE DEF s
    <3> QED
      BY <3>1, <3>2, Zenon
  <2>3. ASSUME mode = "replay"
        PROVE  scratch'.log[i - 1][j] =
                 [at |-> IF j = 0 THEN toks[r] ELSE toks[r] \o PathFrom(r, len(r), p, p[j]),
                  tok |-> Draft(r, j)]
    <3>1. scratch'.log = Logged(order, d, p)
      BY <1>1, <2>3
    <3>2. Logged(order, d, p)[i - 1][j] = [at |-> Before(r, p, j), tok |-> Draft(r, j)]
      <4>1. j \in 0..MaxDraft - 1 /\ j < d
        BY <1>3
      <4> QED
        BY <2>1, <4>1 DEF Logged
    <3>3. Before(r, p, j) = IF j = 0 THEN toks[r] ELSE toks[r] \o PathFrom(r, len(r), p, p[j])
      BY <1>3, <2>1, BeforeIs
    <3> QED
      BY <3>1, <3>2, <3>3, Zenon
  <2>4. ASSUME NEW w \in 1..Win PROVE scratch'.conv[i - 1][Element(j, w - 1)] = After("conv", s)[w]
    <3>1. scratch'.conv = Windows(order, d, p)
      BY <1>1
    <3>2. Windows(order, d, p)[i - 1][Element(j, w - 1)] = Window(s)[w]
      BY WindowsAre
    <3> HIDE DEF s
    <3> QED
      BY <3>1, <3>2, AfterIs, Zenon
  <2>5. ASSUME mode # "tree" PROVE scratch'.side[i - 1][j] = After("side", s)
    <3>1. scratch'.side = SideSteps(order, d)
      BY <1>1, <2>5
    <3>2. SideSteps(order, d)[i - 1][j] = Window(s)
      BY <2>5, SidesAre
    <3> HIDE DEF s
    <3> QED
      BY <3>1, <3>2, AfterIs, Zenon
  <2>6. mode' = mode /\ toks' = toks /\ \A x, w : Element(x, w)' = Element(x, w)
    BY <1>1 DEF Element, Dedup
  <2>7. \A x : len(x)' = len(x) /\ Draft(x, j)' = Draft(x, j)
    BY <2>6 DEF len, Draft
  <2>8. s' = s
    BY <2>6, <2>7
  <2> HIDE DEF s
  <2>9. NodeOK(i - 1, r, p, j, s)'
    BY <2>2, <2>3, <2>4, <2>5, <2>6, <2>7, <2>8 DEF NodeOK
  <2> QED
    BY <2>9 DEF s
<1>6. Pending'
  <2>1. round'.order = order /\ round'.width = d /\ round'.parent = p
    BY <1>1
  <2>2. Of("running")' = Of("running") /\ Trees(d)' = Trees(d) /\ mode' = mode
    BY <1>1 DEF Of, Trees
  <2>3. ASSUME NEW i \in 1..Len(order) PROVE scratch'.active[i - 1] = (mode = "replay")
    <3>1. i - 1 \in Rows /\ i - 1 < Len(order)
      BY RowIs
    <3>2. scratch'.active = [k \in Rows |-> IF k < Len(order) THEN mode = "replay" ELSE scratch.active[k]]
      BY <1>1
    <3>3. scratch'.active[i - 1] = IF i - 1 < Len(order) THEN mode = "replay" ELSE scratch.active[i - 1]
      BY <3>1, <3>2, Zenon
    <3> QED
      BY <3>1, <3>3, Zenon
  <2> QED
    BY <1>1, <1>4, <1>5, <2>1, <2>2, <2>3 DEF Pending
<1> QED
  BY <1>2, <1>6 DEF IInv

-----------------------------------------------------------------------------
(* Commit                                                                    *)

\* A replay as the function it computes.
ReplayFn(i, from, step) ==
  CHOOSE h : h = [n \in 0..step + 1 |->
    IF n = 0 THEN from
    ELSE IF scratch.log[i][n - 1].at = h[n - 1]
         THEN Append(h[n - 1], scratch.log[i][n - 1].tok) ELSE <<Junk>>]

\* A replay of a chain's log arrives at the state after the node.
LEMMA ReplayIs ==
  ASSUME NEW i, NEW r \in Reqs, NEW at \in Nat, NEW s \in Seq(Toks), NEW j \in Nat,
         \A k \in 0..j : scratch.log[i][k] = [at |-> s \o Chain(r, at, k), tok |-> Token(r, at, k)]
  PROVE  Replay(i, s, j) = s \o Chain(r, at, j + 1)
<1> DEFINE Step(h, n) == IF n = 0 THEN s
                         ELSE IF scratch.log[i][n - 1].at = h[n - 1]
                              THEN Append(h[n - 1], scratch.log[i][n - 1].tok) ELSE <<Junk>>
           Sat(h) == h = [n \in 0..j + 1 |-> Step(h, n)]
           x(n) == s \o Chain(r, at, n)
           g == [n \in 0..j + 1 |-> x(n)]
<1>1. Replay(i, s, j) = ReplayFn(i, s, j)[j + 1]
  BY DEF Replay, ReplayFn, Stop
<1>2. ReplayFn(i, s, j) = CHOOSE h : Sat(h)
  BY DEF ReplayFn
<1>3. x(0) = s
  <2>1. Chain(r, at, 0) = <<>>
    BY DEF Chain
  <2> QED
    BY <2>1
<1>4. ASSUME NEW n \in 1..j + 1
      PROVE  /\ n - 1 \in 0..j /\ scratch.log[i][n - 1].at = x(n - 1)
             /\ Append(x(n - 1), scratch.log[i][n - 1].tok) = x(n)
  <2> DEFINE k == n - 1
  <2>1. k \in 0..j /\ k \in Nat /\ k + 1 = n
    OBVIOUS
  <2> HIDE DEF k
  <2>2. scratch.log[i][k] = [at |-> x(k), tok |-> Token(r, at, k)]
    BY <2>1
  <2>3. scratch.log[i][k].at = x(k) /\ scratch.log[i][k].tok = Token(r, at, k)
    <3> HIDE DEF x
    <3> QED
      BY <2>2
  <2> DEFINE c == Chain(r, at, k)
             t == Token(r, at, k)
  <2>4. c \in Seq(Toks) /\ t \in Toks /\ Append(c, t) = Chain(r, at, k + 1)
    BY <2>1, ChainIs, TokenTypes
  <2> HIDE DEF c, t
  <2>5. s \o Append(c, t) = Append(s \o c, t)
    BY <2>4, AppendIs
  <2>6. Append(x(k), t) = x(k + 1)
    BY <2>4, <2>5, Zenon DEF c
  <2> HIDE DEF x
  <2>7. Append(x(k), scratch.log[i][k].tok) = x(n)
    BY <2>1, <2>3, <2>6, Zenon DEF t
  <2> QED
    BY <2>1, <2>3, <2>7 DEF k
<1> HIDE DEF x
<1>5. Sat(g)
  <2>1. ASSUME NEW n \in 0..j + 1 PROVE g[n] = Step(g, n)
    <3>1. CASE n = 0
      BY <1>3, <3>1
    <3>2. CASE n # 0
      <4>1. n \in 1..j + 1 /\ n - 1 \in 0..j + 1
        BY <3>2
      <4>2. g[n] = x(n) /\ g[n - 1] = x(n - 1)
        BY <4>1
      <4> HIDE DEF g
      <4>3. Step(g, n) = Append(x(n - 1), scratch.log[i][n - 1].tok)
        BY <1>4, <3>2, <4>1, <4>2
      <4>4. Append(x(n - 1), scratch.log[i][n - 1].tok) = x(n)
        BY <1>4, <4>1
      <4> QED
        BY <4>2, <4>3, <4>4, Zenon
    <3> QED
      BY <3>1, <3>2
  <2> DEFINE f == [n \in 0..j + 1 |-> Step(g, n)]
  <2>2. \A n \in 0..j + 1 : g[n] = f[n]
    BY <2>1
  <2>3. g = [n \in 0..j + 1 |-> g[n]] /\ f = [n \in 0..j + 1 |-> f[n]]
    OBVIOUS
  <2> HIDE DEF f, g
  <2>4. g = f
    BY <2>2, <2>3
  <2> QED
    BY <2>4 DEF f
<1> DEFINE h == ReplayFn(i, s, j)
<1>6. Sat(h)
  <2> HIDE DEF Sat, g
  <2>1. Sat(CHOOSE f : Sat(f))
    BY <1>5
  <2> QED
    BY <1>2, <2>1, Zenon
<1> HIDE DEF h
<1>7. \A n \in 0..j + 1 : h[n] = Step(h, n)
  BY <1>6
<1> DEFINE Bad == {n \in 0..j + 1 : h[n] # x(n)}
<1>8. Bad = {}
  <2> SUFFICES ASSUME Bad # {} PROVE FALSE
    OBVIOUS
  <2>1. PICK n \in Bad : \A y \in Bad : n <= y
    <3>1. Bad \in SUBSET Nat
      OBVIOUS
    <3> QED
      BY <3>1, Smallest
  <2>2. n \in 0..j + 1 /\ h[n] # x(n)
    BY <2>1
  <2>3. n # 0
    BY <1>3, <1>7, <2>2
  <2>4. n \in 1..j + 1 /\ n - 1 \in 0..j + 1
    BY <2>2, <2>3
  <2>5. h[n - 1] = x(n - 1)
    <3>1. n - 1 \notin Bad
      <4>1. ~(n <= n - 1)
        BY <2>2
      <4> HIDE DEF Bad
      <4> QED
        BY <2>1, <4>1
    <3> QED
      BY <2>4, <3>1
  <2>6. h[n] = Append(x(n - 1), scratch.log[i][n - 1].tok)
    BY <1>4, <1>7, <2>3, <2>4, <2>5
  <2> QED
    BY <1>4, <2>2, <2>4, <2>6, Zenon
<1>9. h[j + 1] = x(j + 1)
  <2>1. j + 1 \in 0..j + 1
    OBVIOUS
  <2> QED
    BY <1>8, <2>1
<1> QED
  BY <1>1, <1>9, Zenon DEF h, x

\* What the commit reads for a node is the state after it.
LEMMA CommittedIs ==
  ASSUME IInv, ~Idle, NEW i \in DOMAIN round.order, NEW j \in 0..round.width - 1, NEW b \in Buffers
  PROVE  Committed(b, i - 1, round.order[i], j)
           = After(b, toks[round.order[i]]
                        \o PathFrom(round.order[i], len(round.order[i]), round.parent, j))
<1> DEFINE order == round.order
           d == round.width
           p == round.parent
           r == order[i]
           s(k) == toks[r] \o PathFrom(r, len(r), p, k)
<1>1. /\ Core /\ order \in SetToSeqs(Of("running")) /\ d \in Drafts /\ p \in Trees(d)
      /\ scratch.active[i - 1] = (mode = "replay")
      /\ \A k \in 0..d - 1 : NodeOK(i - 1, r, p, k, s(k))
  BY DEF IInv, Pending
<1> HIDE DEF order, d, p
<1>2. d \in Nat \ {0} /\ j \in 0..d - 1 /\ j \in Nat
  BY <1>1, DraftsIs DEF d
<1>3. r \in Active /\ r \in Reqs /\ len(r) \in Nat /\ toks[r] \in Seq(Toks)
  <2>1. Of("running") \in SUBSET Reqs /\ Of("running") \in SUBSET Active
    BY DEF Of, Active
  <2>2. r \in Of("running")
    BY <1>1, <2>1, BatchIs DEF order
  <2>3. r \in Active
    BY <2>1, <2>2
  <2> HIDE DEF r
  <2> QED
    BY <1>1, <2>3, ActiveIs
<1> HIDE DEF r
<1>4. s(j) \in Seq(Toks)
  BY <1>1, <1>2, <1>3, NodeIs
<1>5. NodeOK(i - 1, r, p, j, s(j))
  BY <1>1, <1>2
<1>6. CASE b = "gdn" /\ mode = "replay"
  <2>1. Committed(b, i - 1, r, j) = Replay(i - 1, slot.gdn[main(r)], j)
    BY <1>1, <1>6 DEF Committed
  <2>2. slot.gdn[main(r)] = toks[r]
    <3>1. slot["gdn"][main(r)] = After("gdn", toks[r])
      BY <1>1, <1>3, <1>6, ActiveIs
    <3> QED
      BY <3>1, AfterIs
  <2>3. ASSUME NEW k \in 0..j
        PROVE  scratch.log[i - 1][k] = [at |-> toks[r] \o Chain(r, len(r), k), tok |-> Token(r, len(r), k)]
    <3>1. k \in 0..d - 1
      BY <1>2
    <3>2. NodeOK(i - 1, r, p, k, s(k))
      BY <1>1, <3>1
    <3>3. scratch.log[i - 1][k] =
            [at |-> IF k = 0 THEN toks[r] ELSE toks[r] \o PathFrom(r, len(r), p, p[k]), tok |-> Draft(r, k)]
      BY <1>6, <3>2 DEF NodeOK
    <3>4. Draft(r, k) = Token(r, len(r), k)
      BY DEF Draft
    <3>5. CASE k = 0
      <4>1. Chain(r, len(r), k) = <<>>
        BY <3>5 DEF Chain
      <4>2. toks[r] \o Chain(r, len(r), k) = toks[r]
        BY <1>3, <4>1
      <4> QED
        BY <3>3, <3>4, <3>5, <4>2, Zenon
    <3>6. CASE k # 0
      <4>1. k \in 1..d - 1 /\ k - 1 \in 0..d - 1 /\ (k - 1) + 1 = k
        BY <1>2, <3>1, <3>6
      <4>2. p[k] = k - 1
        BY <1>1, <1>2, <1>6, <4>1, TreesHang
      <4>3. PathFrom(r, len(r), p, k - 1) = Chain(r, len(r), (k - 1) + 1)
        BY <1>1, <1>2, <1>3, <1>6, <4>1, NodeIs
      <4>4. PathFrom(r, len(r), p, p[k]) = Chain(r, len(r), k)
        BY <4>1, <4>2, <4>3, Zenon
      <4> QED
        BY <3>3, <3>4, <3>6, <4>4, Zenon
    <3> QED
      BY <3>5, <3>6
  <2>4. Replay(i - 1, toks[r], j) = toks[r] \o Chain(r, len(r), j + 1)
    <3> DEFINE x == i - 1
               s0 == toks[r]
               at == len(r)
    <3>1. \A k \in 0..j : scratch.log[x][k] = [at |-> s0 \o Chain(r, at, k), tok |-> Token(r, at, k)]
      BY <2>3
    <3>2. r \in Reqs /\ at \in Nat /\ s0 \in Seq(Toks) /\ j \in Nat
      BY <1>2, <1>3
    <3> HIDE DEF x, s0, at
    <3>3. Replay(x, s0, j) = s0 \o Chain(r, at, j + 1)
      BY <3>1, <3>2, ReplayIs
    <3> QED
      BY <3>3 DEF x, s0, at
  <2>5. PathFrom(r, len(r), p, j) = Chain(r, len(r), j + 1)
    BY <1>1, <1>2, <1>3, <1>6, NodeIs
  <2>6. Committed(b, i - 1, r, j) = s(j)
    BY <2>1, <2>2, <2>4, <2>5, Zenon
  <2> QED
    BY <1>6, <2>6, AfterIs, Zenon DEF r, order, p
<1>7. CASE b = "gdn" /\ mode # "replay"
  <2>1. Committed(b, i - 1, r, j) = scratch.snap[Cell(i - 1, j, MaxDraft)]
    BY <1>1, <1>7 DEF Committed
  <2>2. scratch.snap[Cell(i - 1, j, MaxDraft)] = s(j)
    BY <1>5, <1>7 DEF NodeOK
  <2> QED
    BY <1>7, <2>1, <2>2, AfterIs, Zenon DEF r, order, p
<1>8. CASE b = "conv"
  <2>1. Committed(b, i - 1, r, j) = [w \in 1..Win |-> scratch.conv[i - 1][Element(j, w - 1)]]
    BY <1>8 DEF Committed
  <2>2. \A w \in 1..Win : scratch.conv[i - 1][Element(j, w - 1)] = Window(s(j))[w]
    BY <1>5, AfterIs DEF NodeOK
  <2> HIDE DEF s
  <2>3. Window(s(j)) \in Seq(Toks) /\ Len(Window(s(j))) = Win /\ Win \in Nat
    BY <1>4, WindowIs, Constants
  <2>4. Committed(b, i - 1, r, j) = [w \in 1..Win |-> Window(s(j))[w]]
    BY <2>1, <2>2
  <2> DEFINE v == Window(s(j))
  <2>5. v = [w \in 1..Win |-> v[w]]
    <3> HIDE DEF v
    <3>1. v \in Seq(Toks) /\ Len(v) = Win
      BY <2>3 DEF v
    <3>2. v \in [1..Win -> Toks]
      BY <3>1
    <3> QED
      BY <3>2
  <2>6. Committed(b, i - 1, r, j) = After(b, s(j))
    <3>1. After(b, s(j)) = v
      BY <1>8, AfterIs
    <3> HIDE DEF v
    <3>2. Committed(b, i - 1, r, j) = [w \in 1..Win |-> v[w]]
      BY <2>4 DEF v
    <3> QED
      BY <2>5, <3>1, <3>2, Zenon
  <2> QED
    BY <2>6, Zenon DEF s, r, order, p
<1>9. CASE b = "side"
  <2>1. mode # "tree"
    BY <1>9 DEF Buffers, Sides
  <2>2. Committed(b, i - 1, r, j) = scratch.side[i - 1][j]
    BY <1>9 DEF Committed
  <2>3. scratch.side[i - 1][j] = After("side", s(j))
    BY <1>5, <2>1 DEF NodeOK
  <2> QED
    BY <1>9, <2>2, <2>3, Zenon DEF r, order, p
<1> QED
  BY <1>6, <1>7, <1>8, <1>9, AfterIs

LEMMA TakenIs ==
  ASSUME NEW r \in Reqs, NEW at \in Nat, NEW d \in Nat, NEW n \in Nat, NEW q \in [1..n -> 0..d - 1]
  PROVE  /\ Taken(r, at, q, n) \in Seq(Toks) /\ Len(Taken(r, at, q, n)) = n
         /\ \A m \in 0..n : SubSeq(Taken(r, at, q, n), 1, m) = Taken(r, at, q, m)
<1>1. ASSUME NEW m \in 0..n
      PROVE  /\ Taken(r, at, q, m) \in Seq(Toks) /\ Len(Taken(r, at, q, m)) = m
             /\ \A x \in 1..m : Taken(r, at, q, m)[x] = Token(r, at, q[x])
  <2>1. \A x \in 1..m : q[x] \in Nat /\ Token(r, at, q[x]) \in Toks
    BY TokenTypes
  <2> QED
    BY <2>1 DEF Taken
<1>2. ASSUME NEW m \in 0..n PROVE SubSeq(Taken(r, at, q, n), 1, m) = Taken(r, at, q, m)
  <2> DEFINE c == Taken(r, at, q, n)
             e == Taken(r, at, q, m)
  <2>1. /\ c \in Seq(Toks) /\ Len(c) = n /\ e \in Seq(Toks) /\ Len(e) = m /\ m \in Nat
        /\ \A x \in 1..m : c[x] = e[x]
    <3>1. n \in 0..n
      OBVIOUS
    <3> QED
      BY <1>1, <3>1
  <2> HIDE DEF c, e
  <2>2. /\ SubSeq(c, 1, m) \in Seq(Toks) /\ Len(SubSeq(c, 1, m)) = m
        /\ \A x \in 1..m : SubSeq(c, 1, m)[x] = c[x]
    BY <2>1, FirstOf
  <2>3. SubSeq(c, 1, m) = e
    BY <2>1, <2>2, SeqEqual
  <2> QED
    BY <2>3 DEF c, e
<1>3. n \in 0..n
  OBVIOUS
<1> QED
  BY <1>1, <1>2, <1>3

LEMMA PathsAre ==
  ASSUME NEW d \in Nat \ {0}, NEW p, NEW q \in Paths(d, p)
  PROVE  /\ Len(q) \in 1..d /\ q \in [1..Len(q) -> 0..d - 1] /\ Descends(p, d, Len(q), q)
<1>1. PICK k \in 1..d : q \in [1..k -> 0..d - 1]
  BY DEF Paths
<1>2. q[1] = 0 /\ \A x \in 2..Len(q) : q[x] > 0 /\ p[q[x]] = q[x - 1]
  BY DEF Paths
<1>3. Len(q) = k
  BY <1>1
<1> QED
  BY <1>1, <1>2, <1>3 DEF Descends

LEMMA CommitHolds ==
  ASSUME IInv, ~Idle, NEW path \in [Of("running") -> Paths(round.width, round.parent)], Commit(path)
  PROVE  Core'
<1> DEFINE S == Of("running")
           B == round.order
           d == round.width
           p == round.parent
           step(r) == TrackStep(len(r), path[r])
           mains(b) == [i \in DOMAIN B |->
             <<main(B[i]), Committed(b, i - 1, B[i], CommitStep(path[B[i]]))>>]
           tracks(b) == [i \in DOMAIN B |->
             IF step(B[i]) < 0 THEN Nowhere
             ELSE <<track[B[i]], Committed(b, i - 1, B[i], step(B[i]))>>]
           accepted(r) == [k \in 1..Len(path[r]) |-> Draft(r, path[r][k])]
           mask(r) == Crosses(len(r), len(r) + Len(path[r]))
           masked == {r \in S : mask(r)}
           t == [r \in S |-> accepted(r)]
           cut == [r \in S |-> Boundary(len(r) + Len(path[r])) - len(r)]
<1>1. /\ slot' = [b \in Buffers |-> Write(Write(slot[b], mains(b)), tracks(b))]
      /\ toks' = [r \in Reqs |-> IF r \in S THEN toks[r] \o accepted(r) ELSE toks[r]]
      /\ tracked' = [r \in Reqs |->
           IF r \in S THEN IF mask(r) THEN Boundary(len(r) + Len(path[r])) ELSE tracked[r] ELSE tracked[r]]
      /\ UNCHANGED <<mode, index, row, track, status, cached, host, retracts>>
  <2>1. DOMAIN path = S
    OBVIOUS
  <2> QED
    BY <2>1 DEF Commit
<1>2. S \in SUBSET Active /\ S \in SUBSET Reqs /\ masked \in SUBSET S
  BY DEF Active, Of
<1>3. Core /\ B \in SetToSeqs(S) /\ d \in Drafts /\ d \in Nat \ {0} /\ p \in Trees(d)
  BY DraftsIs DEF IInv, Pending
<1>4. ASSUME NEW r \in S
      PROVE  /\ r \in Active /\ r \in Reqs /\ len(r) \in Nat /\ toks[r] \in Seq(Toks) /\ len(r) = Len(toks[r])
             /\ Len(path[r]) \in 1..d /\ path[r] \in [1..Len(path[r]) -> 0..d - 1]
             /\ Descends(p, d, Len(path[r]), path[r]) /\ status[r] = "running"
  <2>1. /\ r \in Active /\ r \in Reqs /\ len(r) \in Nat /\ toks[r] \in Seq(Toks) /\ len(r) = Len(toks[r])
    BY <1>2, <1>3, ActiveIs
  <2>2. path[r] \in Paths(d, p)
    OBVIOUS
  <2> DEFINE q == path[r]
  <2> HIDE DEF q, d, p
  <2>3. /\ Len(q) \in 1..d /\ q \in [1..Len(q) -> 0..d - 1] /\ Descends(p, d, Len(q), q)
    BY <1>3, <2>2, PathsAre DEF q
  <2>4. status[r] = "running"
    BY DEF Of
  <2> QED
    BY <2>1, <2>3, <2>4 DEF q
<1> HIDE DEF d, p
<1>5. ASSUME NEW r \in S
      PROVE  /\ t[r] = Taken(r, len(r), path[r], Len(path[r])) /\ t[r] \in Seq(Toks)
             /\ Len(t[r]) = Len(path[r])
             /\ \A k \in 1..Len(path[r]) :
                  /\ path[r][k] \in 0..d - 1
                  /\ PathFrom(r, len(r), p, path[r][k]) = SubSeq(t[r], 1, k)
             /\ SubSeq(t[r], 1, Len(path[r])) = t[r]
  <2> DEFINE q == path[r]
             n == Len(q)
             u == Taken(r, len(r), q, n)
  <2>1. t[r] = u
    BY DEF Taken, Draft
  <2> HIDE DEF t, q, n
  <2>2. /\ r \in Reqs /\ len(r) \in Nat /\ n \in 1..d /\ n \in Nat /\ q \in [1..n -> 0..d - 1]
        /\ Descends(p, d, n, q) /\ d \in Nat /\ Hangs(d, p)
    BY <1>3, <1>4, TreesHang DEF q, n
  <2>3. /\ u \in Seq(Toks) /\ Len(u) = n
        /\ \A m \in 0..n : SubSeq(u, 1, m) = Taken(r, len(r), q, m)
    BY <2>2, TakenIs
  <2>4. \A m \in 1..n : PathFrom(r, len(r), p, q[m]) = Taken(r, len(r), q, m)
    BY <1>3, <2>2, PathTaken
  <2>5. \A k \in 1..n : q[k] \in 0..d - 1 /\ k \in 0..n
    BY <2>2
  <2>6. SubSeq(u, 1, Len(u)) = u
    <3> HIDE DEF u
    <3> QED
      BY <2>3, WholeOf
  <2> HIDE DEF u
  <2>7. \A k \in 1..n : PathFrom(r, len(r), p, q[k]) = SubSeq(t[r], 1, k)
    BY <2>1, <2>3, <2>4, <2>5, Zenon
  <2> QED
    BY <2>1, <2>3, <2>5, <2>6, <2>7 DEF u, q, n
<1>6. ASSUME NEW r \in S, NEW b \in Buffers, NEW i \in DOMAIN B, B[i] = r, NEW k \in 1..Len(path[r])
      PROVE  Committed(b, i - 1, r, path[r][k]) = After(b, toks[r] \o SubSeq(t[r], 1, k))
  <2> DEFINE j == path[r][k]
  <2>1. j \in 0..d - 1 /\ PathFrom(r, len(r), p, j) = SubSeq(t[r], 1, k)
    BY <1>5
  <2> HIDE DEF t, j
  <2>2. Committed(b, i - 1, B[i], j) = After(b, toks[B[i]] \o PathFrom(B[i], len(B[i]), p, j))
    BY <2>1, CommittedIs DEF d, p
  <2> QED
    BY <1>6, <2>1, <2>2, Zenon DEF j
<1>7. ASSUME NEW r \in S
      PROVE  /\ CommitStep(path[r]) = path[r][Len(path[r])] /\ Len(path[r]) \in 1..Len(path[r])
             /\ r \in masked => /\ cut[r] \in 1..Len(path[r]) /\ step(r) = path[r][cut[r]] /\ ~(step(r) < 0)
                                /\ Boundary(len(r) + Len(path[r])) = len(r) + cut[r]
                                /\ Multiple(len(r) + cut[r])
             /\ r \notin masked => step(r) < 0
  <2> DEFINE n == Len(path[r])
             m == len(r) + n
  <2>1. len(r) \in Nat /\ n \in 1..d /\ n \in Nat /\ m \in Nat /\ len(r) <= m
    BY <1>3, <1>4
  <2>2. CommitStep(path[r]) = path[r][n] /\ n \in 1..n
    BY <2>1 DEF CommitStep
  <2>3. ASSUME r \in masked
        PROVE  /\ cut[r] \in 1..n /\ step(r) = path[r][cut[r]] /\ ~(step(r) < 0)
               /\ Boundary(m) = len(r) + cut[r] /\ Multiple(len(r) + cut[r])
    <3>1. Crosses(len(r), m) /\ cut[r] = Boundary(m) - len(r)
      BY <2>3
    <3>2. step(r) = path[r][Boundary(m) - len(r)]
      BY <3>1 DEF TrackStep
    <3> HIDE DEF n, m, cut, step
    <3>3. Boundary(m) \in Nat /\ Boundary(m) <= m /\ Multiple(Boundary(m)) /\ Boundary(m) > len(r)
      BY <2>1, <3>1, BoundaryIs, CrossesIs
    <3>4. cut[r] \in 1..n /\ Boundary(m) = len(r) + cut[r]
      BY <2>1, <3>1, <3>3 DEF m
    <3>5. step(r) = path[r][cut[r]]
      BY <3>1, <3>2
    <3>6. path[r][cut[r]] \in 0..d - 1
      BY <1>4, <3>4 DEF n
    <3>7. ~(step(r) < 0)
      BY <1>3, <3>5, <3>6
    <3> QED
      BY <3>3, <3>4, <3>5, <3>7
  <2>4. ASSUME r \notin masked PROVE step(r) < 0
    BY <2>4 DEF TrackStep
  <2> QED
    BY <2>2, <2>3, <2>4
<1>8. /\ DOMAIN B = 1..Len(B) /\ Len(B) \in Nat
      /\ \A i \in 1..Len(B) : B[i] \in S
  BY <1>2, <1>3, BatchIs
<1>9. ASSUME NEW b \in Buffers PROVE Stores(b, S, masked, t, cut, slot'[b])
  <2>1. DOMAIN mains(b) = 1..Len(B) /\ DOMAIN tracks(b) = 1..Len(B)
    BY <1>8
  <2>2. ASSUME NEW i \in 1..Len(B)
        PROVE  /\ mains(b)[i] = <<main(B[i]), After(b, toks[B[i]] \o t[B[i]])>>
               /\ B[i] \in masked =>
                    tracks(b)[i] = <<track[B[i]], After(b, toks[B[i]] \o SubSeq(t[B[i]], 1, cut[B[i]]))>>
               /\ B[i] \notin masked => tracks(b)[i][1] \in {Dummy, -1}
    <3> DEFINE r == B[i]
               n == Len(path[r])
    <3>1. i \in DOMAIN B /\ r \in S
      BY <1>8
    <3>2. mains(b)[i] = <<main(r), Committed(b, i - 1, r, CommitStep(path[r]))>>
      BY <3>1
    <3>3. tracks(b)[i] = IF step(r) < 0 THEN Nowhere
                         ELSE <<track[r], Committed(b, i - 1, r, step(r))>>
      BY <3>1
    <3> HIDE DEF mains, tracks, t, cut, step, masked, S
    <3>4. \A k \in 1..n : Committed(b, i - 1, r, path[r][k]) = After(b, toks[r] \o SubSeq(t[r], 1, k))
      BY <1>6, <3>1
    <3>5. CommitStep(path[r]) = path[r][n] /\ n \in 1..n /\ SubSeq(t[r], 1, n) = t[r]
      BY <1>5, <1>7, <3>1
    <3>6. /\ r \in masked => cut[r] \in 1..n /\ step(r) = path[r][cut[r]] /\ ~(step(r) < 0)
          /\ r \notin masked => step(r) < 0
      BY <1>7, <3>1
    <3> HIDE DEF r, n
    <3>7. mains(b)[i] = <<main(r), After(b, toks[r] \o t[r])>>
      BY <3>2, <3>4, <3>5, Zenon
    <3>8. ASSUME r \in masked
          PROVE  tracks(b)[i] = <<track[r], After(b, toks[r] \o SubSeq(t[r], 1, cut[r]))>>
      <4>1. tracks(b)[i] = <<track[r], Committed(b, i - 1, r, path[r][cut[r]])>>
        BY <3>3, <3>6, <3>8, Zenon
      <4> QED
        BY <3>4, <3>6, <3>8, <4>1, Zenon
    <3>9. ASSUME r \notin masked PROVE tracks(b)[i][1] \in {Dummy, -1}
      <4>1. tracks(b)[i] = Nowhere
        BY <3>3, <3>6, <3>9, Zenon
      <4> QED
        BY <4>1 DEF Nowhere
    <3> QED
      BY <3>7, <3>8, <3>9 DEF r
  <2>3. slot'[b] = Write(Write(slot[b], mains(b)), tracks(b))
    BY <1>1
  <2> HIDE DEF mains, tracks, t, cut, masked, S
  <2>4. Aimed(B, masked, Len(B), mains(b), tracks(b))
    BY <1>8, <2>1, <2>2 DEF Aimed
  <2>5. Landed(b, B, masked, mains(b), tracks(b), slot'[b])
    BY <1>2, <1>3, <2>3, <2>4, Landing
  <2>6. \A i \in 1..Len(B) : mains(b)[i][2] = After(b, toks[B[i]] \o t[B[i]])
    BY <2>2
  <2>7. \A i \in 1..Len(B) : B[i] \in masked =>
          tracks(b)[i][2] = After(b, toks[B[i]] \o SubSeq(t[B[i]], 1, cut[B[i]]))
    BY <2>2
  <2> QED
    BY <1>2, <1>3, <2>5, <2>6, <2>7, LandedStores
<1>10. Advances(S, masked, t, cut)
  <2>1. toks' = [r \in Reqs |-> toks'[r]] /\ tracked' = [r \in Reqs |-> tracked'[r]]
    BY <1>1
  <2>2. ASSUME NEW r \in S PROVE t[r] \in Seq(Toks) /\ toks'[r] = toks[r] \o t[r]
    <3>1. toks'[r] = toks[r] \o accepted(r) /\ t[r] = accepted(r)
      BY <1>1, <1>4
    <3> HIDE DEF accepted, t, S
    <3> QED
      BY <1>5, <3>1
  <2>3. ASSUME NEW r \in masked
        PROVE  /\ cut[r] \in 0..Len(t[r]) /\ tracked'[r] = len(r) + cut[r]
               /\ Multiple(len(r) + cut[r])
    <3>1. r \in S /\ mask(r) /\ r \in Reqs
      BY <1>2
    <3>2. tracked'[r] = Boundary(len(r) + Len(path[r]))
      BY <1>1, <3>1
    <3> HIDE DEF cut, t, masked, S
    <3>3. Len(t[r]) = Len(path[r]) /\ cut[r] \in 1..Len(path[r])
      BY <1>5, <1>7, <3>1
    <3>4. cut[r] \in 0..Len(t[r])
      BY <3>3
    <3> QED
      BY <1>7, <3>1, <3>2, <3>4
  <2>4. (\A r \in Reqs \ S : toks'[r] = toks[r]) /\ (\A r \in Reqs \ masked : tracked'[r] = tracked[r])
    BY <1>1
  <2>5. DOMAIN slot' = Buffers
    BY <1>1
  <2>6. status' = status /\ status \in [Reqs -> Statuses]
    BY <1>1, <1>3 DEF Core, Types
  <2>7. \A r \in S : status'[r] # "prefill"
    BY <1>4, <2>6
  <2> HIDE DEF masked, t, cut, S
  <2> QED
    BY <1>9, <2>1, <2>2, <2>3, <2>4, <2>5, <2>6, <2>7 DEF Advances
<1> HIDE DEF masked, t, cut, S
<1> QED
  BY <1>1, <1>2, <1>3, <1>10, AdvanceHolds

-----------------------------------------------------------------------------
(* Requests come and go                                                      *)

LEMMA TwoFree ==
  ASSUME Cardinality(Free) > 1
  PROVE  LET m == Least(Free)
             t == Least(Free \ {m})
         IN  m \in Free /\ t \in Free /\ m # t /\ m \in Slots /\ t \in Slots
<1> DEFINE m == Least(Free)
           t == Least(Free \ {m})
<1>1. Free \in SUBSET Slots /\ Slots \in SUBSET Nat
  BY DEF Free, Slots
<1>2. Free # {}
  BY FS_EmptySet
<1>3. m \in Free
  <2>1. Free \in SUBSET Nat
    BY <1>1
  <2> QED
    BY <1>2, <2>1, LeastIs
<1> HIDE DEF m
<1>4. Free # {m}
  BY FS_Singleton
<1>5. Free \ {m} # {} /\ Free \ {m} \in SUBSET Nat
  BY <1>1, <1>2, <1>4
<1>6. t \in Free \ {m}
  BY <1>5, LeastIs
<1> QED
  BY <1>1, <1>3, <1>6 DEF m

\* r becomes active, with the state after the tokens s.
Starts(r, w, state, s, st) ==
  /\ w \in FreeRows /\ Take(r, w, state)
  /\ s \in Seq(Toks) /\ \A b \in Buffers : state[b] = After(b, s)
  /\ toks' = [toks EXCEPT ![r] = s]
  /\ st \in {"prefill", "running"} /\ status' = [status EXCEPT ![r] = st]
  /\ st = "prefill" => Multiple(Len(s))
  /\ DOMAIN host' = Reqs /\ \A q \in Reqs : q # r => host'[q] = host[q]
  /\ UNCHANGED <<mode, cached>>

LEMMA TakeHolds ==
  ASSUME Core, NEW r \in Reqs, r \notin Active, NEW w, NEW state, NEW s, NEW st,
         Starts(r, w, state, s, st)
  PROVE  Core'
<1> USE DEF Starts
<1> DEFINE m == Least(Free)
           t == Least(Free \ {m})
<1>1. /\ Cardinality(Free) > 1
      /\ row' = [row EXCEPT ![r] = w] /\ index' = [index EXCEPT ![w] = m]
      /\ track' = [track EXCEPT ![r] = t] /\ tracked' = [tracked EXCEPT ![r] = 0]
      /\ slot' = [b \in Buffers |-> [slot[b] EXCEPT ![m] = state[b]]]
  BY DEF Take, SetSlot
<1>2. m \in Free /\ t \in Free /\ m # t /\ m \in Slots /\ t \in Slots
  BY <1>1, TwoFree
<1> HIDE DEF m, t
<1>3. Types
  BY DEF Core
<1>4. Buffers' = Buffers /\ w \in PoolRows
  BY DEF Buffers, Sides, FreeRows
<1>5. Active' = Active \cup {r}
  BY <1>3 DEF Active, Of, Types
<1>6. row'[r] = w /\ main(r)' = m /\ track'[r] = t /\ tracked'[r] = 0 /\ toks'[r] = s
  BY <1>1, <1>3, <1>4 DEF Types, main
<1>7. ASSUME NEW q \in Active
      PROVE  /\ q \in Reqs /\ q # r /\ row'[q] = row[q] /\ row[q] # w /\ row[q] \in PoolRows
             /\ main(q)' = main(q) /\ track'[q] = track[q] /\ tracked'[q] = tracked[q]
             /\ toks'[q] = toks[q]
             /\ main(q) \in Owned /\ track[q] \in Owned /\ main(q) \in Slots /\ track[q] \in Slots
  <2>1. q \in Reqs /\ q # r
    BY DEF Active, Of
  <2>2. row[q] # w
    BY DEF FreeRows
  <2>3. row[q] \in PoolRows /\ main(q) \in Slots /\ track[q] \in Slots
    BY DEF Core, Homes
  <2>4. main(q) \in Owned /\ track[q] \in Owned
    BY DEF Owned
  <2>5. row'[q] = row[q] /\ track'[q] = track[q] /\ tracked'[q] = tracked[q] /\ toks'[q] = toks[q]
    BY <1>1, <1>3, <2>1 DEF Types
  <2>6. index'[row[q]] = index[row[q]]
    BY <1>1, <1>3, <2>2, <2>3 DEF Types
  <2> QED
    BY <2>1, <2>2, <2>3, <2>4, <2>5, <2>6 DEF main
<1>8. m \notin Owned /\ t \notin Owned /\ cached[m] = <<>> /\ cached[t] = <<>>
  BY <1>2 DEF Free
<1>9. ASSUME NEW b \in Buffers
      PROVE  /\ DOMAIN slot'[b] = Slots \cup {Dummy}
             /\ slot'[b][m] = state[b] /\ \A x \in Slots : x # m => slot'[b][x] = slot[b][x]
  BY <1>1, <1>2, <1>3 DEF Types
<1>10. Types'
  <2>1. row' \in [Reqs -> 0..NumRows]
    BY <1>1, <1>3, <1>4 DEF Types, PoolRows
  <2>2. index' \in [PoolRows -> Slots \cup {Dummy}]
    BY <1>1, <1>2, <1>3 DEF Types
  <2>3. track' \in [Reqs -> Slots \cup {Dummy}] /\ tracked' \in [Reqs -> Nat]
    BY <1>1, <1>2, <1>3 DEF Types
  <2>4. toks' \in [Reqs -> Seq(Toks)]
    BY <1>3 DEF Types
  <2>5. status' \in [Reqs -> Statuses]
    BY <1>3 DEF Types, Statuses
  <2>6. DOMAIN slot' = Buffers
    BY <1>1
  <2> QED
    BY <1>3, <1>4, <1>9, <2>1, <2>2, <2>3, <2>4, <2>5, <2>6 DEF Types
<1>11. Homes'
  BY <1>2, <1>4, <1>5, <1>6, <1>7 DEF Homes
<1>12. Apart'
  <2>1. ASSUME NEW q \in Active, NEW x \in Active
        PROVE  /\ main(q) # track[x]
               /\ q # x => row[q] # row[x] /\ main(q) # main(x) /\ track[q] # track[x]
    BY DEF Core, Apart
  <2>2. ASSUME NEW q \in Active
        PROVE  /\ main(q) # m /\ main(q) # t /\ track[q] # m /\ track[q] # t /\ row[q] # w
    BY <1>7, <1>8
  <2>3. ASSUME NEW q \in Active \cup {r}, NEW x \in Active \cup {r}
        PROVE  /\ main(q)' # track'[x]
               /\ q # x => row'[q] # row'[x] /\ main(q)' # main(x)' /\ track'[q] # track'[x]
    <3>1. CASE q = r /\ x = r
      BY <1>2, <1>6, <3>1
    <3>2. CASE q = r /\ x \in Active
      BY <1>6, <1>7, <2>2, <3>2
    <3>3. CASE q \in Active /\ x = r
      BY <1>6, <1>7, <2>2, <3>3
    <3>4. CASE q \in Active /\ x \in Active
      BY <1>7, <2>1, <3>4
    <3> QED
      BY <3>1, <3>2, <3>3, <3>4
  <2> QED
    BY <1>5, <2>3 DEF Apart
<1>13. Owned' = Owned \cup {m, t}
  <2>1. \A q \in Active : track'[q] = track[q] /\ main(q)' = main(q)
    BY <1>7
  <2> QED
    BY <1>5, <1>6, <2>1 DEF Owned
<1>14. Unshared'
  BY <1>8, <1>13 DEF Core, Unshared
<1>15. Mains'
  <2>1. ASSUME NEW q \in Active, NEW b \in Buffers PROVE slot'[b][main(q)'] = After(b, toks'[q])
    <3>1. main(q) # m
      BY <1>7, <1>8
    <3> QED
      BY <1>7, <1>9, <3>1 DEF Core, Mains
  <2>2. ASSUME NEW b \in Buffers PROVE slot'[b][main(r)'] = After(b, toks'[r])
    BY <1>6, <1>9
  <2> QED
    BY <1>4, <1>5, <2>1, <2>2 DEF Mains
<1>16. Tracks'
  <2>1. ASSUME NEW q \in Active
        PROVE  /\ tracked'[q] <= Len(toks'[q]) /\ Multiple(tracked'[q])
               /\ tracked'[q] > 0 =>
                    \A b \in Buffers : slot'[b][track'[q]] = After(b, SubSeq(toks'[q], 1, tracked'[q]))
    <3>1. track[q] # m
      BY <1>7, <1>8
    <3> QED
      BY <1>7, <1>9, <3>1 DEF Core, Tracks
  <2>2. tracked'[r] <= Len(toks'[r]) /\ Multiple(tracked'[r]) /\ ~(tracked'[r] > 0)
    <3>1. 0 = 0 * Interval
      BY Constants
    <3>2. Multiple(0)
      BY <3>1 DEF Multiple
    <3> QED
      BY <1>6, <3>2
  <2> QED
    BY <1>4, <1>5, <2>1, <2>2 DEF Tracks, Multiple
<1>17. Keeps'
  <2>1. ASSUME NEW x \in Slots, cached[x] # <<>>, NEW b \in Buffers PROVE slot'[b][x] = slot[b][x]
    BY <1>8, <1>9, <2>1
  <2> QED
    BY <1>4, <2>1 DEF Core, Keeps, Multiple
<1>18. Parked'
  <2>1. ASSUME NEW q \in Reqs, status'[q] = "retracted"
        PROVE  status[q] = "retracted" /\ toks'[q] = toks[q] /\ host'[q] = host[q]
    <3>1. q # r
      BY <1>3, <2>1 DEF Types
    <3> QED
      BY <1>3, <2>1, <3>1 DEF Types
  <2> QED
    BY <1>4, <2>1 DEF Core, Parked
<1>19. Chunked'
  <2>1. ASSUME NEW q \in Reqs, status'[q] = "prefill" PROVE Multiple(Len(toks'[q]))
    <3>1. CASE q = r
      BY <1>3, <1>6, <2>1, <3>1 DEF Types
    <3>2. CASE q # r
      <4>1. status[q] = "prefill" /\ toks'[q] = toks[q]
        BY <1>3, <2>1, <3>2 DEF Types
      <4> QED
        BY <4>1 DEF Core, Chunked, Of
    <3> QED
      BY <3>1, <3>2
  <2> QED
    BY <2>1 DEF Chunked, Of, Multiple
<1> QED
  BY <1>10, <1>11, <1>12, <1>14, <1>15, <1>16, <1>17, <1>18, <1>19 DEF Core

LEMMA AdmitHolds ==
  ASSUME Core, NEW r \in Reqs, NEW w \in PoolRows, NEW src \in Slots \cup {Dummy}, Admit(r, w, src)
  PROVE  Core'
<1> DEFINE s == IF src = Dummy THEN <<>> ELSE cached[src]
           state == IF src = Dummy THEN Cleared ELSE Read(src)
<1>1. /\ status[r] = "new" /\ w \in FreeRows /\ Take(r, w, state)
      /\ src # Dummy => Len(cached[src]) \in 1..Prompt - 1
      /\ toks' = [toks EXCEPT ![r] = s] /\ status' = [status EXCEPT ![r] = "prefill"]
      /\ UNCHANGED <<mode, cached, scratch, round, host, retracts>>
  BY DEF Admit
<1>2. r \notin Active
  BY <1>1 DEF Active, Of
<1>3. s \in Seq(Toks) /\ Multiple(Len(s)) /\ \A b \in Buffers : state[b] = After(b, s)
  <2>1. CASE src = Dummy
    <3>1. s = <<>> /\ <<>> \in Seq(Toks) /\ Len(<<>>) = 0 /\ state = Cleared
      BY <2>1
    <3>2. 0 = 0 * Interval
      BY Constants
    <3>3. Multiple(0)
      BY <3>2 DEF Multiple
    <3>4. \A b \in Buffers : Cleared[b] = After(b, <<>>)
      BY DEF Cleared
    <3> HIDE DEF s, state
    <3> QED
      BY <3>1, <3>3, <3>4
  <2>2. CASE src # Dummy
    <3>1. src \in Slots /\ s = cached[src] /\ state = Read(src)
      BY <2>2
    <3>2. cached[src] \in Seq(Toks)
      BY <3>1 DEF Core, Types
    <3>3. cached[src] # <<>>
      BY <1>1, <2>2
    <3>4. Multiple(Len(cached[src])) /\ \A b \in Buffers : slot[b][src] = After(b, cached[src])
      BY <3>1, <3>3 DEF Core, Keeps
    <3>5. \A b \in Buffers : Read(src)[b] = slot[b][src]
      BY DEF Read
    <3> HIDE DEF s, state
    <3> QED
      BY <3>1, <3>2, <3>4, <3>5
  <2> QED
    BY <2>1, <2>2
<1>4. DOMAIN host' = Reqs /\ \A q \in Reqs : host'[q] = host[q]
  BY <1>1 DEF Core, Types
<1> HIDE DEF s, state
<1>5. Starts(r, w, state, s, "prefill")
  BY <1>1, <1>3, <1>4 DEF Starts
<1> QED
  BY <1>2, <1>5, TakeHolds

LEMMA ResumeHolds ==
  ASSUME Core, NEW r \in Reqs, NEW w \in PoolRows, Resume(r, w)
  PROVE  Core'
<1> DEFINE s == toks[r]
           state == host[r]
<1>1. /\ status[r] = "retracted" /\ w \in FreeRows /\ Take(r, w, state)
      /\ host' = [host EXCEPT ![r] = <<>>] /\ status' = [status EXCEPT ![r] = "running"]
      /\ UNCHANGED <<mode, toks, cached, scratch, round, retracts>>
  BY DEF Resume
<1>2. r \notin Active
  BY <1>1 DEF Active, Of
<1>3. s \in Seq(Toks) /\ toks' = [toks EXCEPT ![r] = s] /\ \A b \in Buffers : state[b] = After(b, s)
  <2>1. toks \in [Reqs -> Seq(Toks)]
    BY DEF Core, Types
  <2>2. \A b \in Buffers : host[r][b] = After(b, toks[r])
    BY <1>1 DEF Core, Parked
  <2> QED
    BY <1>1, <2>1, <2>2
<1>4. DOMAIN host' = Reqs /\ \A q \in Reqs : q # r => host'[q] = host[q]
  BY <1>1 DEF Core, Types
<1> HIDE DEF s, state
<1>5. Starts(r, w, state, s, "running")
  BY <1>1, <1>3, <1>4 DEF Starts
<1> QED
  BY <1>2, <1>5, TakeHolds

\* A request leaves: its slots keep what they hold.
LEMMA LeaveHolds ==
  ASSUME Core, NEW r \in Active, NEW st \in {"done", "retracted"}, status' = [status EXCEPT ![r] = st],
         UNCHANGED <<mode, slot, index, row, track, tracked, toks>>,
         Unshared', Keeps', Parked', cached' \in [Slots -> Seq(Toks)], DOMAIN host' = Reqs
  PROVE  Core'
<1>1. Buffers' = Buffers /\ \A q : main(q)' = main(q)
  BY DEF Buffers, Sides, main
<1>2. Active' \in SUBSET Active /\ Of("prefill")' \in SUBSET Of("prefill")
  BY DEF Active, Of, Core, Types
<1>3. Types'
  <2>1. status' \in [Reqs -> Statuses]
    BY DEF Core, Types, Statuses
  <2> QED
    BY <1>1, <2>1 DEF Core, Types
<1>4. Homes' /\ Apart'
  BY <1>1, <1>2 DEF Core, Homes, Apart
<1>5. Mains' /\ Tracks'
  BY <1>1, <1>2 DEF Core, Mains, Tracks, Multiple
<1>6. Chunked'
  BY <1>2 DEF Core, Chunked, Multiple
<1> QED
  BY <1>3, <1>4, <1>5, <1>6 DEF Core

LEMMA FinishHolds ==
  ASSUME Core, NEW r \in Reqs, NEW keep \in BOOLEAN, Finish(r, keep)
  PROVE  Core'
<1> DEFINE v == SubSeq(toks[r], 1, tracked[r])
<1>1. /\ status[r] = "running" /\ (keep => tracked[r] > 0)
      /\ status' = [status EXCEPT ![r] = "done"]
      /\ cached' = IF keep THEN [cached EXCEPT ![track[r]] = v] ELSE cached
      /\ UNCHANGED <<mode, slot, index, row, track, tracked, toks, scratch, round, host, retracts>>
  BY DEF Finish
<1>2. r \in Active
  BY <1>1 DEF Active, Of
<1>3. track[r] \in Slots /\ toks[r] \in Seq(Toks) /\ tracked[r] \in 0..Len(toks[r])
  BY <1>2, ActiveIs
<1>4. v \in Seq(Toks) /\ Len(v) = tracked[r]
  BY <1>3, FirstOf
<1> HIDE DEF v
<1>5. Buffers' = Buffers /\ \A q : main(q)' = main(q)
  BY <1>1 DEF Buffers, Sides, main
<1>6. cached \in [Slots -> Seq(Toks)] /\ cached' \in [Slots -> Seq(Toks)] /\ DOMAIN host' = Reqs
  BY <1>1, <1>3, <1>4 DEF Core, Types
<1>7. ASSUME NEW q \in Active' PROVE q \in Active /\ q # r
  BY <1>1 DEF Active, Of, Core, Types
<1>8. ASSUME NEW s \in Slots, cached'[s] # <<>> PROVE cached[s] # <<>> \/ (keep /\ s = track[r])
  BY <1>1, <1>6, <1>8
<1>9. Unshared'
  <2>1. ASSUME NEW s \in Slots, cached'[s] # <<>>, NEW q \in Active'
        PROVE  s # track[q] /\ s # main(q)
    <3>1. CASE cached[s] # <<>>
      BY <1>7, <3>1 DEF Core, Unshared, Owned
    <3>2. CASE s = track[r]
      BY <1>2, <1>7, <3>2 DEF Core, Apart
    <3> QED
      BY <1>8, <2>1, <3>1, <3>2
  <2> QED
    BY <1>1, <1>5, <2>1 DEF Unshared, Owned
<1>10. Keeps'
  <2>1. ASSUME NEW s \in Slots, cached'[s] # <<>>
        PROVE  Multiple(Len(cached'[s])) /\ \A b \in Buffers : slot[b][s] = After(b, cached'[s])
    <3>1. CASE keep /\ s = track[r]
      <4>1. cached'[s] = v
        BY <1>1, <1>3, <1>6, <3>1
      <4>2. tracked[r] > 0
        BY <1>1, <3>1
      <4>3. Multiple(tracked[r]) /\ \A b \in Buffers : slot[b][track[r]] = After(b, v)
        BY <1>2, <4>2 DEF Core, Tracks, v
      <4> QED
        BY <1>4, <3>1, <4>1, <4>3
    <3>2. CASE ~(keep /\ s = track[r])
      <4>1. cached'[s] = cached[s]
        BY <1>1, <1>6, <3>2
      <4> QED
        BY <2>1, <4>1 DEF Core, Keeps
    <3> QED
      BY <3>1, <3>2
  <2> QED
    BY <1>1, <1>5, <2>1 DEF Keeps, Multiple
<1>11. Parked'
  <2>1. \A q \in Reqs : status'[q] = "retracted" => status[q] = "retracted"
    BY <1>1 DEF Core, Types
  <2> QED
    BY <1>1, <1>5, <2>1 DEF Core, Parked
<1> QED
  BY <1>1, <1>2, <1>6, <1>9, <1>10, <1>11, LeaveHolds

LEMMA RetractHolds ==
  ASSUME Core, NEW r \in Reqs, Retract(r)
  PROVE  Core'
<1>1. /\ status[r] = "running" /\ host' = [host EXCEPT ![r] = HostCopy(main(r))]
      /\ status' = [status EXCEPT ![r] = "retracted"]
      /\ UNCHANGED <<mode, slot, index, row, track, tracked, toks, cached, scratch, round>>
  BY DEF Retract
<1>2. r \in Active
  BY <1>1 DEF Active, Of
<1>3. Buffers' = Buffers /\ \A q : main(q)' = main(q)
  BY <1>1 DEF Buffers, Sides, main
<1>4. Active' \in SUBSET Active
  BY <1>1 DEF Active, Of, Core, Types
<1>5. Unshared'
  BY <1>1, <1>3, <1>4 DEF Core, Unshared, Owned
<1>6. Keeps'
  BY <1>1, <1>3 DEF Core, Keeps, Multiple
<1>7. Parked'
  <2>1. ASSUME NEW q \in Reqs, status'[q] = "retracted", NEW b \in Buffers
        PROVE  host'[q][b] = After(b, toks[q])
    <3>1. CASE q = r
      <4>1. host'[q] = Read(main(r))
        BY <1>1, <3>1 DEF Core, Types, HostCopy
      <4>2. Read(main(r))[b] = slot[b][main(r)]
        BY DEF Read
      <4>3. slot[b][main(r)] = After(b, toks[r])
        BY <1>2, ActiveIs
      <4> QED
        BY <3>1, <4>1, <4>2, <4>3
    <3>2. CASE q # r
      <4>1. host'[q] = host[q] /\ status[q] = "retracted"
        BY <1>1, <2>1, <3>2 DEF Core, Types
      <4> QED
        BY <4>1 DEF Core, Parked
    <3> QED
      BY <3>1, <3>2
  <2> QED
    BY <1>1, <1>3, <2>1 DEF Parked
<1>8. cached' \in [Slots -> Seq(Toks)] /\ DOMAIN host' = Reqs
  BY <1>1 DEF Core, Types
<1> QED
  BY <1>1, <1>2, <1>5, <1>6, <1>7, <1>8, LeaveHolds

LEMMA EvictHolds ==
  ASSUME Core, NEW s \in Slots, Evict(s)
  PROVE  Core'
<1>1. /\ cached' = [cached EXCEPT ![s] = <<>>]
      /\ UNCHANGED <<mode, slot, index, row, track, tracked, toks, status, scratch, round, host, retracts>>
  BY DEF Evict
<1>2. Buffers' = Buffers /\ Active' = Active /\ Owned' = Owned /\ \A r : main(r)' = main(r)
  BY <1>1 DEF Buffers, Sides, Active, Of, Owned, main
<1>3. /\ cached \in [Slots -> Seq(Toks)] /\ cached' \in [Slots -> Seq(Toks)]
      /\ \A x \in Slots : cached'[x] # <<>> => cached'[x] = cached[x] /\ cached[x] # <<>>
  <2>1. cached \in [Slots -> Seq(Toks)] /\ <<>> \in Seq(Toks)
    BY DEF Core, Types
  <2> QED
    BY <1>1, <2>1
<1>4. Types'
  BY <1>1, <1>2, <1>3 DEF Core, Types
<1>5. Homes' /\ Apart' /\ Mains' /\ Tracks'
  BY <1>1, <1>2 DEF Core, Homes, Apart, Mains, Tracks, Multiple
<1>6. Unshared' /\ Keeps'
  BY <1>1, <1>2, <1>3 DEF Core, Unshared, Keeps, Multiple
<1>7. Parked' /\ Chunked'
  BY <1>1, <1>2 DEF Core, Parked, Chunked, Of, Multiple
<1> QED
  BY <1>4, <1>5, <1>6, <1>7 DEF Core

-----------------------------------------------------------------------------
(* The invariant holds                                                       *)

LEMMA InitHolds ==
  ASSUME Init
  PROVE  IInv
<1>1. Active = {} /\ Of("prefill") = {}
  BY DEF Init, Active, Of
<1>2. Types
  <2>1. <<>> \in Seq(Toks)
    OBVIOUS
  <2> QED
    BY <2>1, Constants DEF Init, Types, NoRow, Statuses
<1>3. Homes /\ Apart /\ Mains /\ Tracks /\ Chunked
  BY <1>1 DEF Homes, Apart, Mains, Tracks, Chunked
<1>4. Unshared /\ Keeps /\ Parked
  BY DEF Init, Unshared, Keeps, Parked
<1>5. Pending
  BY DEF Init, Pending, Idle
<1> QED
  BY <1>2, <1>3, <1>4, <1>5 DEF IInv, Core

LEMMA NextHolds ==
  ASSUME IInv, [Next]_vars
  PROVE  IInv'
<1>1. Core
  BY DEF IInv
\* Every action but the verify leaves no round pending.
<1>2. ASSUME Core', round' = <<>> PROVE IInv'
  BY <1>2 DEF IInv, Pending, Idle
<1>3. ASSUME NEW r \in Reqs, NEW w \in PoolRows, NEW src \in Slots \cup {Dummy}, Admit(r, w, src)
      PROVE  IInv'
  <2>1. round' = <<>>
    BY <1>3 DEF Admit, Idle
  <2> QED
    BY <1>1, <1>2, <1>3, <2>1, AdmitHolds
<1>4. ASSUME NEW S \in SUBSET Of("prefill"), NEW B \in SetToSeqs(S), NEW n \in [S -> Chunks], Extend(B, n)
      PROVE  IInv'
  <2>1. round' = <<>>
    BY <1>4 DEF Extend, Idle
  <2> QED
    BY <1>1, <1>2, <1>4, <2>1, ExtendHolds
<1>5. ASSUME NEW B \in SetToSeqs(Of("running")), Decode(B) PROVE IInv'
  <2>1. round' = <<>>
    BY <1>5 DEF Decode, IInv, Pending, Idle
  <2> QED
    BY <1>1, <1>2, <1>5, <2>1, DecodeHolds
<1>6. ASSUME NEW order \in SetToSeqs(Of("running")), NEW d \in Drafts, NEW p \in Trees(d),
             Verify(order, d, p)
      PROVE  IInv'
  BY <1>1, <1>6, VerifyHolds
<1>7. ASSUME ~Idle, NEW path \in [Of("running") -> Paths(round.width, round.parent)], Commit(path)
      PROVE  IInv'
  <2>1. round' = <<>>
    BY <1>7 DEF Commit
  <2> QED
    BY <1>2, <1>7, <2>1, CommitHolds
<1>8. ASSUME NEW r \in Reqs, NEW keep \in BOOLEAN, Finish(r, keep) PROVE IInv'
  <2>1. round' = <<>>
    BY <1>8 DEF Finish, Idle
  <2> QED
    BY <1>1, <1>2, <1>8, <2>1, FinishHolds
<1>9. ASSUME NEW r \in Reqs, Retract(r) PROVE IInv'
  <2>1. round' = <<>>
    BY <1>9 DEF Retract, Idle
  <2> QED
    BY <1>1, <1>2, <1>9, <2>1, RetractHolds
<1>10. ASSUME NEW r \in Reqs, NEW w \in PoolRows, Resume(r, w) PROVE IInv'
  <2>1. round' = <<>>
    BY <1>10 DEF Resume, Idle
  <2> QED
    BY <1>1, <1>2, <1>10, <2>1, ResumeHolds
<1>11. ASSUME NEW s \in Slots, Evict(s) PROVE IInv'
  <2>1. round' = <<>>
    BY <1>11 DEF Evict, Idle
  <2> QED
    BY <1>1, <1>2, <1>11, <2>1, EvictHolds
<1>12. ASSUME UNCHANGED vars PROVE IInv'
  <2>1. UNCHANGED <<mode, slot, index, row, track, tracked, toks, status, cached, host, scratch, round>>
    BY <1>12 DEF vars
  <2>2. Core'
    BY <1>1, <2>1, CoreSame
  <2>3. CASE Idle
    BY <1>2, <2>1, <2>2, <2>3 DEF Idle
  <2>4. CASE ~Idle
    <3>1. /\ mode' = mode /\ toks' = toks /\ scratch' = scratch /\ round' = round /\ ~Idle'
          /\ Of("running")' = Of("running") /\ \A r : len(r)' = len(r)
          /\ \A d : Trees(d)' = Trees(d)
          /\ \A j, w : Element(j, w)' = Element(j, w)
          /\ \A r, j : Draft(r, j)' = Draft(r, j)
      BY <2>1, <2>4 DEF Idle, Of, len, Trees, Element, Dedup, Draft
    <3>2. ASSUME NEW i, NEW r, NEW p, NEW j, NEW s, NodeOK(i, r, p, j, s) PROVE NodeOK(i, r, p, j, s)'
      BY <3>1, <3>2 DEF NodeOK
    <3>3. Pending
      BY DEF IInv
    <3>4. Pending'
      BY <2>4, <3>1, <3>2, <3>3 DEF Pending
    <3> QED
      BY <2>2, <3>4 DEF IInv
  <2> QED
    BY <2>3, <2>4
<1> QED
  BY <1>3, <1>4, <1>5, <1>6, <1>7, <1>8, <1>9, <1>10, <1>11, <1>12, Zenon DEF Next

LEMMA Invariance == Spec => []IInv
<1>1. Init => IInv
  BY InitHolds
<1>2. IInv /\ [Next]_vars => IInv'
  BY NextHolds
<1> QED
  BY <1>1, <1>2, PTL DEF Spec

\* A window over a side state reads the text up to its last token.
LEMMA WindowReads ==
  ASSUME NEW s \in Seq(Toks), NEW t \in Seq(Toks), NEW width \in Int, NEW j \in 1..Len(t),
         NEW i \in 1..Win + 1
  PROVE  SubSeq(Context(Window(s), t, width), j, j + Win)[i]
           = Text(s \o SubSeq(t, 1, j))[Len(s \o SubSeq(t, 1, j)) + i - 1]
<1> DEFINE c == Context(Window(s), t, width)
           f == SubSeq(t, 1, j)
<1>1. /\ c \in Seq(Toks) /\ Len(c) >= Win + Len(t)
      /\ \A x \in 1..Win + Len(t) : c[x] = Text(s \o t)[Len(s) + x]
  BY ContextIs
<1>2. Len(t) \in Nat /\ Len(s) \in Nat /\ Len(c) \in Nat /\ Win \in Nat \ {0} /\ j \in Nat
  BY <1>1, Constants
<1>3. f \in Seq(Toks) /\ Len(f) = j /\ \A x \in 1..j : f[x] = t[x]
  <2>1. j \in 0..Len(t)
    BY <1>2
  <2> QED
    BY <2>1, FirstOf
<1> HIDE DEF c, f
<1>4. \A x \in j..j + Win : c[x] \in Toks
  BY <1>1, <1>2
<1>5. \A x \in 1..j + Win - j + 1 : SubSeq(c, j, j + Win)[x] = c[j + x - 1]
  BY <1>2, <1>4, SubSeqProperties
<1>6. i \in 1..j + Win - j + 1 /\ j + i - 1 \in 1..Win + Len(t)
  BY <1>2
<1>7. SubSeq(c, j, j + Win)[i] = Text(s \o t)[Len(s) + (j + i - 1)]
  BY <1>1, <1>5, <1>6
<1>8. Len(s \o f) = Len(s) + j
  BY <1>3, ConcatProperties
<1> DEFINE x == Len(s) + (j + i - 1)
<1>9. x = Len(s \o f) + i - 1 /\ x \in Nat
  BY <1>2, <1>8
<1>10. Text(s \o t)[x] = Text(s \o f)[x]
  <2>1. CASE j + i - 1 <= Win
    <3>1. x \in 1..Win + Len(s)
      BY <1>2, <2>1
    <3> QED
      BY <1>3, <3>1, TextJoins
  <2>2. CASE j + i - 1 > Win
    <3> DEFINE y == j + i - 1 - Win
    <3>1. y \in 1..j /\ y \in 1..Len(t) /\ Win + Len(s) + y = x
      BY <1>2, <2>2
    <3> HIDE DEF y, x
    <3>2. Text(s \o t)[Win + Len(s) + y] = t[y]
      BY <3>1, TextJoins
    <3>3. Text(s \o f)[Win + Len(s) + y] = f[y]
      BY <1>3, <3>1, TextJoins
    <3> QED
      BY <1>3, <3>1, <3>2, <3>3
  <2> QED
    BY <1>2, <2>1, <2>2
<1> HIDE DEF x
<1>11. SubSeq(c, j, j + Win)[i] = Text(s \o f)[x]
  BY <1>7, <1>10, Zenon DEF x
<1> QED
  BY <1>9, <1>11 DEF c, f

LEMMA GramsHold ==
  ASSUME Core
  PROVE  GramsExact
<1> SUFFICES ASSUME NEW r \in Active, mode # "tree", NEW j \in 1..MaxDraft, NEW k \in 1..Win
             PROVE  LET next == [x \in 1..MaxDraft |-> Draft(r, x - 1)]
                    IN  Shifted(SubSeq(Context(slot.side[main(r)], next, MaxDraft), j, j + Win), k)
                          = Reference(toks[r] \o SubSeq(next, 1, j), k)
  BY DEF GramsExact
<1> DEFINE next == [x \in 1..MaxDraft |-> Draft(r, x - 1)]
           s == toks[r]
           t == Chain(r, len(r), MaxDraft)
<1>1. r \in Reqs /\ len(r) \in Nat /\ s \in Seq(Toks) /\ MaxDraft \in Nat \ {0} /\ MaxDraft \in Int
  BY ActiveIs, Constants
<1>2. t \in Seq(Toks) /\ Len(t) = MaxDraft /\ next = t
  <2>1. t \in Seq(Toks) /\ Len(t) = MaxDraft
    BY <1>1, ChainIs
  <2> QED
    BY <2>1 DEF Chain, Draft
<1>3. slot.side[main(r)] = Window(s)
  <2>1. "side" \in Buffers
    BY DEF Buffers, Sides
  <2>2. slot["side"][main(r)] = After("side", s)
    BY <2>1, ActiveIs
  <2> QED
    BY <2>2, AfterIs
<1> HIDE DEF next, s, t
<1> DEFINE window == SubSeq(Context(Window(s), t, MaxDraft), j, j + Win)
           u == s \o SubSeq(t, 1, j)
<1>4. u \in Seq(Toks) /\ Len(u) > 0
  <2> DEFINE f == SubSeq(t, 1, j)
  <2>1. j \in 0..Len(t) /\ j > 0
    BY <1>1, <1>2
  <2>2. f \in Seq(Toks) /\ Len(f) = j
    BY <1>2, <2>1, FirstOf
  <2> HIDE DEF f
  <2>3. s \o f \in Seq(Toks) /\ Len(s \o f) = Len(s) + Len(f)
    BY <1>1, <2>2, ConcatProperties, Zenon
  <2>4. Len(s) \in Nat
    BY <1>1, LenProperties, Zenon
  <2>5. Len(s \o f) > 0
    BY <2>1, <2>2, <2>3, <2>4
  <2> QED
    BY <2>3, <2>5 DEF f
<1>5. \A i \in 1..Win + 1 : window[i] = Text(u)[Len(u) + i - 1]
  <2>1. j \in 1..Len(t)
    BY <1>2
  <2> QED
    BY <1>1, <1>2, <2>1, WindowReads
<1> HIDE DEF u, window
<1>6. Shifted(window, k) = Reference(u, k)
  BY <1>4, <1>5, GramIs
<1>7. Shifted(SubSeq(Context(slot.side[main(r)], next, MaxDraft), j, j + Win), k)
        = Reference(s \o SubSeq(next, 1, j), k)
  BY <1>2, <1>3, <1>6, Zenon DEF window, u
<1> QED
  BY <1>7 DEF next, s

-----------------------------------------------------------------------------
\* Whatever the batch order, the window, the tree and the accepted path, and
\* whichever slots and rows a request had before: between rounds every buffer
\* of its main slot is that of exactly the tokens prefilled and accepted.  A
\* rejected draft, a padding row, another request's commit, a slot's last owner
\* and a retraction leave no trace.
THEOREM StatesExact == Spec => []StateExact
<1>1. IInv => StateExact
  BY DEF IInv, Core, Mains, StateExact
<1> QED
  BY <1>1, Invariance, PTL

\* A snapshot and the prefix cache entry made of it are those of exactly the
\* tokens up to the multiple of the interval they stand for, in every buffer,
\* while the snapshot is made, kept, copied from and overwritten.
THEOREM TracksExact == Spec => []TrackExact
<1>1. IInv => TrackExact
  BY DEF IInv, Core, Tracks, Keeps, TrackExact
<1> QED
  BY <1>1, Invariance, PTL

\* The n-grams of every token decoded or drafted next are those of the whole
\* text up to the last EOS, for every n-gram size, batch and history.
THEOREM GramsAreExact == Spec => []GramsExact
<1>1. IInv => GramsExact
  BY GramsHold DEF IInv
<1> QED
  BY <1>1, Invariance, PTL

=============================================================================
