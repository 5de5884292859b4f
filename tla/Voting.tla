------------------------------- MODULE Voting -------------------------------
(***************************************************************************)
(* What the voting side of a Raft peer promises, without messages, logs or *)
(* crashes: a voter has a term that only grows and at most one ballot in   *)
(* it.  Raft.tla is shown to implement this specification.                 *)
(***************************************************************************)
EXTENDS Naturals

CONSTANTS Voter, Nil

VARIABLES term,                 \* the current term of each voter
          ballot,               \* its vote in that term, or Nil
          cast                  \* all votes ever given: [voter, term, cand]

votes == <<term, ballot, cast>>

Init ==
  /\ term = [v \in Voter |-> 0]
  /\ ballot = [v \in Voter |-> Nil]
  /\ cast = {}

\* a voter moves to a later term, in which it has not voted
Advance(v, t) ==
  /\ t > term[v]
  /\ term' = [term EXCEPT ![v] = t]
  /\ ballot' = [ballot EXCEPT ![v] = Nil]
  /\ UNCHANGED cast

\* a voter votes for c in its own term or in a later one
Vote(v, t, c) ==
  /\ t > term[v] \/ (t = term[v] /\ ballot[v] \in {Nil, c})
  /\ term' = [term EXCEPT ![v] = t]
  /\ ballot' = [ballot EXCEPT ![v] = c]
  /\ cast' = cast \cup {[voter |-> v, term |-> t, cand |-> c]}

\* t is whatever term the step takes the voter to
Next ==
  \E v \in Voter :
    LET t == term'[v] IN
    /\ t \in Nat
    /\ Advance(v, t) \/ \E c \in Voter : Vote(v, t, c)

Spec == Init /\ [][Next]_votes
============================================================================
