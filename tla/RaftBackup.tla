----------------------------- MODULE RaftBackup -----------------------------
(***************************************************************************)
(* One leader bringing one follower up to date: the exchange of            *)
(* AppendEntries with the fast backup of the code, over every pair of logs *)
(* a Raft history can give them and every nextIndex the leader may start   *)
(* from.  A round is a heartbeat, the handler and the reply, in one term.  *)
(***************************************************************************)
EXTENDS RaftLog, SequencesExt

CONSTANTS MaxLen,               \* bound: length of the logs
          MaxTerm               \* bound: terms in the logs

ASSUME CommandAssumption == "cmd" \in Command
ASSUME BoundsAssumption == MaxLen \in Nat /\ MaxTerm \in Nat

VARIABLES leader,               \* rf.log of the leader
          follower,             \* rf.log of the follower
          next,                 \* the leader's nextIndex for the follower
          matched,              \* the last round succeeded
          rounds,               \* rejected rounds so far, counted up to MaxRounds
          origin                \* the follower's log at the start

vars == <<leader, follower, next, matched, rounds, origin>>

\* the logs whose terms are ts: in a Raft history the term and the position of
\* an entry identify it, so the command plays no part
LogOf(ts) == [k \in DOMAIN ts |-> [Term |-> ts[k], Command |-> "cmd", Index |-> k]]

TermSeqs == {ts \in SeqOf(1..MaxTerm, MaxLen) :
               \A j, k \in DOMAIN ts : j < k => ts[j] <= ts[k]}

\* equal term at a position means equal prefixes (the Log Matching Property)
Matching(s, t) ==
  \A k \in DOMAIN s \cap DOMAIN t :
    s[k] = t[k] => SubSeq(s, 1, k) = SubSeq(t, 1, k)

Init ==
  \E s, t \in TermSeqs :
    /\ Matching(s, t)
    /\ leader = LogOf(s)
    /\ follower = LogOf(t)
    /\ next \in 1..(Len(s) + 1)
    /\ matched = FALSE
    /\ rounds = 0
    /\ origin = LogOf(t)

Args == [PrevLogIndex |-> next - 1, PrevLogTerm |-> LogTerm(leader, next - 1)]
Entries == SubSeq(leader, next, Len(leader))

\* bound of the round counter, above what FewRounds allows for any log
MaxRounds == MaxLen + 2

\* the follower rejects, the leader backs off
Reject ==
  /\ ~matched /\ ~PrevMatches(follower, Args)
  /\ next' = Backoff(leader, next - 1, Conflict(follower, Args))
  /\ rounds' = IF rounds < MaxRounds THEN rounds + 1 ELSE rounds
  /\ UNCHANGED <<leader, follower, matched, origin>>

\* the follower merges the entries, the leader records the success
Accept ==
  /\ ~matched /\ PrevMatches(follower, Args)
  /\ follower' = MergeEntries(follower, Entries)
  /\ next' = next - 1 + Len(Entries) + 1
  /\ matched' = TRUE
  /\ UNCHANGED <<leader, rounds, origin>>

Next == Reject \/ Accept
Spec == Init /\ [][Next]_vars
FairSpec == Spec /\ WF_vars(Next)

----------------------------------------------------------------------------
(* Properties.                                                             *)

\* The merge loop as the code runs it, entry by entry.
MergeStep(l, e) ==
  IF e.Index <= Len(l)
  THEN IF LogTerm(l, e.Index) # e.Term
       THEN Append(SubSeq(l, 1, e.Index - 1), e) ELSE l
  ELSE Append(l, e)
MergeIsTheLoop ==
  PrevMatches(follower, Args) =>
    MergeEntries(follower, Entries) = FoldLeft(MergeStep, follower, Entries)

\* Every heartbeat the backed-off leader sends names an entry it has: nextIndex
\* stays between 1 and the end of its log.
NextInLog == next \in 1..(Len(leader) + 1)

\* A rejection always moves nextIndex down, so the backup cannot go round in
\* circles.
BackoffDescends == [][matched' = FALSE => next' < next]_vars

\* The backup skips whole terms: each rejection but the first disposes of a term
\* of the follower's log.
FewRounds == rounds <= Cardinality({origin[k].Term : k \in DOMAIN origin}) + 1

\* After the success the follower's log starts with the leader's, and what it
\* had in common with the leader is still there.
Agreement ==
  matched => /\ Len(leader) <= Len(follower)
             /\ SubSeq(follower, 1, Len(leader)) = leader

\* A follower that holds all of the leader's log loses nothing: an old heartbeat
\* with fewer entries does not cut the log.
NothingCut ==
  IsPrefix(leader, origin) => follower = origin

\* The follower is brought up to date.
EventuallyMatched == <>matched
============================================================================
