------------------------------ MODULE SpecRelay -----------------------------
(***************************************************************************)
(* What the overlap scheduler's relay of draft inputs promises.            *)
(*                                                                         *)
(* A forward leaves, for every request row it served, the inputs of the    *)
(* row's next draft: the bonus token and the extras (top-k, hidden state,  *)
(* proposal distribution).  The next forward of the row is given exactly   *)
(* them, once.  Rows come and go between the two: batches are filtered,    *)
(* merged and interrupted by other forwards.                               *)
(***************************************************************************)
EXTENDS Naturals

CONSTANTS Rows,     \* request pool rows
          NoRow,    \* none of them
          MaxClock  \* bound: the versions

VARIABLES relay,    \* relay[r]: what waits for row r's next forward
          given     \* what the last forward was given, by row

relayVars == <<relay, given>>

Versions == 1..MaxClock

\* The value a forward of version v leaves for row r; 0 stands for none.
Val(v, r) == [ver |-> v, row |-> r]
None      == [ver |-> 0, row |-> NoRow]

\* Nothing waits for the row: it is free, or its forward is under way.
Idle == [bonus |-> None, extra |-> None]

RelayInit == /\ relay = [r \in Rows |-> Idle]
             /\ given = [r \in {} |-> Idle]

\* The forward of version v leaves inputs for the rows in S, none of which
\* had any waiting.
Leave(S, v) ==
  /\ given' = [r \in {} |-> Idle]
  /\ \A r \in S : relay[r] = Idle
  /\ relay' = [r \in Rows |-> IF r \in S
                              THEN [bonus |-> Val(v, r), extra |-> Val(v, r)]
                              ELSE relay[r]]

\* Only the bonus tokens of the rows in S are replaced.
LeaveBonus(S, v) ==
  /\ UNCHANGED given
  /\ \A r \in S : relay[r] # Idle
  /\ relay' = [r \in Rows |-> IF r \in S THEN [relay[r] EXCEPT !.bonus = Val(v, r)]
                              ELSE relay[r]]

\* The rows in S are given what waits for them; those in T, the decode tails
\* of a mixed prefill, only their bonus tokens.
Take(S, T) ==
  /\ DOMAIN given' = S
  /\ \A r \in S : relay[r] # Idle
  /\ given' = [r \in S |-> IF r \in T THEN [relay[r] EXCEPT !.extra = None] ELSE relay[r]]
  /\ relay' = [r \in Rows |-> IF r \in S THEN Idle ELSE relay[r]]

\* Requests end; what waits for them is forgotten.
Forget(S) ==
  /\ UNCHANGED given
  /\ relay' = [r \in Rows |-> IF r \in S THEN Idle ELSE relay[r]]

RelayNext ==
  \E S \in SUBSET Rows :
    \/ \E v \in Versions : Leave(S, v) \/ LeaveBonus(S, v)
    \/ Take(S, {})
    \/ Take(S, S)
    \/ Forget(S)

RelaySpec == RelayInit /\ [][RelayNext]_relayVars
=============================================================================
