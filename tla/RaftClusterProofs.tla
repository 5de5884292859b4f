------------------------- MODULE RaftClusterProofs -------------------------
(***************************************************************************)
(* Proofs about the peers of Raft.tla together.  The terms of entries are  *)
(* between 1 and the peer's own.  As long as no second term is opened      *)
(* there is one leader and one log, matchIndex counts what is on disk,     *)
(* what is committed stays on a majority and the services never differ;    *)
(* with a second term these are false of the code, and the runs that check *)
(* them make the hypothesis OneTerm too.                                   *)
(***************************************************************************)
EXTENDS RaftProofs, FiniteSetTheorems

----------------------------------------------------------------------------
(* The first term.                                                         *)

\* the elections that may be started are all for the first term
OneTerm == \A e \in Elections : e[2] = 1

\* no peer and no message is in a later term
FirstTerms ==
  /\ \A i \in Server : currentTerm[i] <= 1
  /\ \A m \in voteReq \cup voteRep : m.Term = 1
  /\ \A m \in appendReq \cup appendRep : m.Term <= 1

\* A new reply to AppendEntries carries the term of its sender.
LEMMA AnswerTerm ==
  ASSUME NEW m \in appendReq, NEW success, NEW x, Answer(m, success, x),
         NEW n \in appendReq' \cup appendRep'
  PROVE  n \in appendReq \cup appendRep \/ n.Term = currentTerm'[m.dst]
<1>1. n \in appendReq \cup appendRep \cup
          {[src |-> m.src, dst |-> m.dst, Term |-> currentTerm'[m.dst],
              Success |-> success, XTerm |-> x.XTerm, XIndex |-> x.XIndex,
              prev |-> m.PrevLogIndex, sent |-> Len(m.Entries)]}
  BY DEF Answer
<1> QED
  BY <1>1

\* No step leaves the first term.
LEMMA FirstTermsStep ==
  ASSUME OneTerm, IndInv, Campaigns, FirstTerms, [Next]_vars PROVE FirstTerms'
<1>0. TypeOK /\ PersistedIsCurrent /\ Campaigns
  BY DEF IndInv
<1>1. /\ currentTerm \in [Server -> Nat]
      /\ asking \subseteq VoteCall
      /\ voteReq \subseteq VoteRequest /\ voteRep \subseteq VoteReply
      /\ appendReq \subseteq AppendRequest /\ appendRep \subseteq AppendReply
  BY <1>0 DEF TypeOK
<1>a. /\ \A m \in asking \cup voteReq \cup voteRep : m.src \in Server
      /\ \A m \in voteReq \cup voteRep \cup appendReq \cup appendRep :
           m.src \in Server /\ m.dst \in Server /\ m.Term \in Nat
  BY <1>1 DEF VoteCall, VoteRequest, VoteReply, AppendRequest, AppendReply
<1>b. \A m \in asking \cup voteReq \cup voteRep : currentTerm[m.src] = 1
  BY <1>0, <1>1, <1>a DEF Campaigns, FirstTerms
<1>2. CASE UNCHANGED <<currentTerm, voteReq, voteRep, appendReq, appendRep>>
  BY <1>2 DEF FirstTerms
<1>3. ASSUME NEW i \in Server, NEW t \in Nat, t <= 1, StepDown(i, t)
      PROVE  \A j \in Server : currentTerm'[j] <= 1
  BY <1>1, <1>3 DEF StepDown, FirstTerms
<1>4. ASSUME NEW i \in Server, PeerStep(i) PROVE FirstTerms'
  <2>1. CASE startElection(i)
    <3>1. currentTerm[i] + 1 = 1 /\ currentTerm' = [currentTerm EXCEPT ![i] = currentTerm[i] + 1]
      BY <2>1 DEF startElection, OneTerm
    <3>2. UNCHANGED <<voteReq, voteRep, appendReq, appendRep>>
      BY <2>1 DEF startElection, network
    <3> QED
      BY <1>1, <3>1, <3>2 DEF FirstTerms
  <2>2. CASE Restart(i)
    <3>1. UNCHANGED currentTerm
      <4>1. raftstate[i] = [log |-> log[i], currentTerm |-> currentTerm[i],
                            votedFor |-> votedFor[i]]
        BY <1>0 DEF PersistedIsCurrent
      <4>2. raftstate[i].currentTerm = currentTerm[i]
        BY <4>1
      <4>3. currentTerm' = [currentTerm EXCEPT ![i] = raftstate[i].currentTerm]
        BY <2>2, Zenon DEF Restart
      <4> QED
        BY <1>1, <4>2, <4>3
    <3>2. \A m \in voteReq' : \E n \in voteReq : m.Term = n.Term
      BY <1>1, <2>2 DEF Restart, Orphaned, VoteRequest
    <3>3. \A m \in appendReq' : \E n \in appendReq : m.Term = n.Term
      BY <1>1, <2>2 DEF Restart, Orphaned, AppendRequest
    <3>4. voteRep' \subseteq voteRep /\ appendRep' \subseteq appendRep
      BY <2>2 DEF Restart
    <3> QED
      BY <3>1, <3>2, <3>3, <3>4 DEF FirstTerms
  <2>3. ASSUME NEW j \in Server, sendAppendEntries(i, j) PROVE FirstTerms'
    <3>1. \A m \in appendReq' : m \in appendReq \/ m.Term = currentTerm[i]
      <4>1. \E p, t, e : appendReq' = appendReq \cup
              {[src |-> i, dst |-> j, live |-> TRUE, Term |-> currentTerm[i],
                PrevLogIndex |-> p, PrevLogTerm |-> t, LeaderCommit |-> commitIndex[i],
                Entries |-> e]}
        BY <2>3, Zenon DEF sendAppendEntries
      <4> QED
        BY <4>1
    <3>2. UNCHANGED <<currentTerm, voteReq, voteRep, appendRep>>
      BY <2>3, Zenon DEF sendAppendEntries, election
    <3> QED
      BY <3>1, <3>2 DEF FirstTerms
  <2>4. CASE UNCHANGED <<currentTerm, voteReq, voteRep, appendReq, appendRep>>
    BY <1>2, <2>4
  <2> QED
    BY <1>4, <2>1, <2>2, <2>3, <2>4, Zenon
       DEF PeerStep, Run, runFollower, runCandidate, sendHearbeat, GetState, Start, ApplySend,
           ApplyDone, election, network
<1>5. ASSUME NEW g \in asking, sendRequestVote(g) PROVE FirstTerms'
  <2>1. \A m \in voteReq' : m \in voteReq \/ m.Term = currentTerm[g.src]
    BY <1>5 DEF sendRequestVote
  <2>2. UNCHANGED <<currentTerm, voteRep, appendReq, appendRep>>
    BY <1>5 DEF sendRequestVote, election
  <2> QED
    BY <1>b, <2>1, <2>2 DEF FirstTerms
<1>6. ASSUME NEW m \in voteReq, RequestVote(m) PROVE FirstTerms'
  <2>1. m.Term = 1 /\ m.dst \in Server /\ currentTerm[m.dst] \in Nat /\ currentTerm[m.dst] <= 1
    BY <1>1, <1>a DEF FirstTerms
  <2>2. currentTerm' = [currentTerm EXCEPT ![m.dst] =
                           IF m.Term > currentTerm[m.dst] THEN m.Term ELSE @]
    BY <1>6 DEF RequestVote
  <2>3. currentTerm'[m.dst] = 1 /\ \A j \in Server : currentTerm'[j] <= 1
    BY <1>1, <2>1, <2>2 DEF FirstTerms
  <2>4. \A r \in voteRep' : r \in voteRep \/ r.Term = currentTerm'[m.dst]
    <3>1. \E b : voteRep' = IF ~m.live THEN voteRep
                            ELSE voteRep \cup {[src |-> m.src, dst |-> m.dst, elect |-> m.elect,
                                                Term |-> currentTerm'[m.dst], VoteGranted |-> b]}
      BY <1>6, Zenon DEF RequestVote
    <3> QED
      BY <3>1
  <2>5. voteReq' \subseteq voteReq /\ UNCHANGED <<appendReq, appendRep>>
    BY <1>6, Zenon DEF RequestVote
  <2> QED
    BY <2>3, <2>4, <2>5 DEF FirstTerms
<1>7. ASSUME NEW r \in voteRep, VoteReplied(r) PROVE FirstTerms'
  <2>1. ~(r.Term > currentTerm[r.src])
    BY <1>b DEF FirstTerms
  <2>2. UNCHANGED currentTerm
    BY <1>7, <2>1 DEF VoteReplied
  <2>3. voteRep' \subseteq voteRep /\ UNCHANGED <<voteReq, appendReq, appendRep>>
    BY <1>7 DEF VoteReplied
  <2> QED
    BY <2>2, <2>3 DEF FirstTerms
<1>8. ASSUME NEW m \in appendReq, AppendEntries(m) PROVE FirstTerms'
  <2>1. m.Term \in Nat /\ m.Term <= 1 /\ m.dst \in Server
    BY <1>a DEF FirstTerms
  <2>2. \A j \in Server : currentTerm'[j] <= 1
    <3>1. UNCHANGED currentTerm \/ AdoptTerm(m)
      BY <1>8, Zenon DEF AppendEntries, AppendStale, AppendConflict, AppendMatch
    <3> QED
      BY <1>3, <2>1, <3>1 DEF AdoptTerm, FirstTerms
  <2>3. \E b, x : Answer(m, b, x)
    BY <1>8, Zenon DEF AppendEntries, AppendStale, AppendConflict, AppendMatch
  <2>4. \A n \in appendReq' \cup appendRep' : n.Term <= 1
    BY <2>1, <2>2, <2>3, AnswerTerm DEF FirstTerms
  <2>5. UNCHANGED <<voteReq, voteRep>>
    BY <1>8, Zenon DEF AppendEntries, AppendStale, AppendConflict, AppendMatch
  <2> QED
    BY <2>2, <2>4, <2>5 DEF FirstTerms
<1>9. ASSUME NEW r \in appendRep, AppendReplied(r) PROVE FirstTerms'
  <2>1. r.Term \in Nat /\ r.Term <= 1 /\ r.src \in Server
    BY <1>a DEF FirstTerms
  <2>2. \A j \in Server : currentTerm'[j] <= 1
    BY <1>3, <1>9, <2>1 DEF AppendReplied, FirstTerms
  <2>3. appendRep' \subseteq appendRep /\ UNCHANGED <<voteReq, voteRep, appendReq>>
    BY <1>9 DEF AppendReplied
  <2> QED
    BY <2>2, <2>3 DEF FirstTerms
<1>10. ASSUME NEW m \in appendReq \cup appendRep, LoseAppend(m) PROVE FirstTerms'
  BY <1>10 DEF LoseAppend, FirstTerms, election
<1>11. CASE UNCHANGED vars
  BY <1>2, <1>11 DEF vars, election, network
<1> QED
  BY <1>4, <1>5, <1>6, <1>7, <1>8, <1>9, <1>10, <1>11 DEF Next, NetworkStep

----------------------------------------------------------------------------
(* Ballots.                                                                *)

\* a majority has voted for the peer
Winner(i) == IsMajority(Cardinality(Voters(i, 1)))

\* voteCount stands for voters whose replies are not on their way any more
Counted(i) ==
  \E C \in SUBSET Voters(i, 1) :
    /\ Cardinality(C) = voteCount[i]
    /\ \A r \in voteRep : r.src = i /\ r.VoteGranted => r.dst \notin C

\* a candidate asks each peer once, and counts a vote once
Ballots ==
  /\ \A m \in asking \cup voteReq \cup voteRep : m.elect = 1
  /\ \A m \in asking \cup voteReq : m.dst \notin Voters(m.src, 1)
  /\ \A g \in asking : \A m \in voteReq : ~(g.src = m.src /\ g.dst = m.dst)
  /\ \A m, n \in voteReq : m.src = n.src /\ m.dst = n.dst => m = n
  /\ \A r \in voteRep : r.VoteGranted => r.dst \in Voters(r.src, 1)
  /\ \A i \in Server : currentTerm[i] = 0 => Voters(i, 1) = {}
  /\ \A i \in Server : Counted(i)

\* a leader has won the election
LeadersWon == \A i \in Server : state[i] = Leader => Winner(i)

\* The voters of a candidate are peers.
LEMMA VotersFinite ==
  ASSUME TypeOK, NEW i
  PROVE  /\ Voters(i, 1) \subseteq Server /\ IsFiniteSet(Voters(i, 1))
         /\ Cardinality(Voters(i, 1)) \in Nat
<1>1. grants \subseteq Grant
  BY DEF TypeOK
<1>2. \A x \in grants : x.voter \in Server
  BY <1>1 DEF Grant
<1>3. Voters(i, 1) \subseteq Server
  BY <1>2 DEF Voters
<1> QED
  BY <1>3, ServerAssumption, FS_Subset, FS_CardinalityType

\* A vote is one more voter for its candidate and no other.
LEMMA VotersGrow ==
  ASSUME NEW v, NEW c, grants' = grants \cup {[voter |-> v, term |-> 1, cand |-> c]}
  PROVE  /\ Voters(c, 1)' = Voters(c, 1) \cup {v}
         /\ \A i : i # c => Voters(i, 1)' = Voters(i, 1)
<1> DEFINE h == [voter |-> v, term |-> 1, cand |-> c]
<1>1. h.voter = v /\ h.term = 1 /\ h.cand = c /\ grants' = grants \cup {h}
  OBVIOUS
<1> HIDE DEF h
<1> QED
  BY <1>1 DEF Voters

\* A majority is not lost when votes are added.
LEMMA MajorityGrows ==
  ASSUME NEW A, NEW B, A \subseteq B, B \subseteq Server, IsMajority(Cardinality(A))
  PROVE  IsMajority(Cardinality(B))
<1>1. /\ IsFiniteSet(A) /\ IsFiniteSet(B) /\ Cardinality(A) <= Cardinality(B)
      /\ Cardinality(A) \in Nat /\ Cardinality(B) \in Nat /\ Cardinality(Server) \in Nat
  <2>1. IsFiniteSet(B)
    BY ServerAssumption, FS_Subset
  <2> QED
    BY <2>1, ServerAssumption, FS_Subset, FS_CardinalityType
<1>2. \A a, b, c \in Nat : a <= b /\ a > c \div 2 => b > c \div 2
  OBVIOUS
<1> QED
  BY <1>1, <1>2, Zenon DEF IsMajority

\* No step takes votes back.
LEMMA GrantsGrow == ASSUME [Next]_vars PROVE grants \subseteq grants'
<1>1. ASSUME NEW m \in voteReq, RequestVote(m) PROVE grants \subseteq grants'
  <2>1. \E g, b : grants' = IF b THEN grants ELSE grants \cup {g}
    BY <1>1, Zenon DEF RequestVote
  <2> QED
    BY <2>1
<1>2. ASSUME NEW i \in Server, startElection(i) PROVE grants \subseteq grants'
  <2>1. \E g : grants' = grants \cup {g}
    BY <1>2, Zenon DEF startElection
  <2> QED
    BY <2>1
<1>3. CASE UNCHANGED grants
  BY <1>3
<1> QED
  BY <1>1, <1>2, <1>3, ElectionStep, Zenon
     DEF Restart, sendRequestVote, VoteReplied, history

\* So a winner stays the winner.
LEMMA WinnerStays ==
  ASSUME IndInv, [Next]_vars, NEW i, Winner(i) PROVE Winner(i)'
<1>1. TypeOK'
  BY NextInv DEF IndInv
<1>2. Voters(i, 1)' \subseteq Server
  <2>1. grants' \subseteq Grant
    BY <1>1 DEF TypeOK
  <2>2. \A x \in grants' : x.voter \in Server
    BY <2>1 DEF Grant
  <2> QED
    BY <2>2 DEF Voters
<1>3. Voters(i, 1) \subseteq Voters(i, 1)'
  BY GrantsGrow DEF Voters
<1> QED
  BY <1>2, <1>3, MajorityGrows DEF Winner

\* Types and terms of the senders and receivers of votes, for the steps below.
LEMMA VoteTypes ==
  ASSUME TypeOK, Campaigns, FirstTerms
  PROVE  /\ currentTerm \in [Server -> Nat] /\ voteCount \in [Server -> Nat]
         /\ \A m \in asking \cup voteReq \cup voteRep :
              m.src \in Server /\ m.dst \in Server /\ currentTerm[m.src] = 1
<1>1. /\ currentTerm \in [Server -> Nat] /\ voteCount \in [Server -> Nat]
      /\ asking \subseteq VoteCall
      /\ voteReq \subseteq VoteRequest /\ voteRep \subseteq VoteReply
  BY DEF TypeOK
<1>2. \A m \in asking \cup voteReq \cup voteRep : m.src \in Server /\ m.dst \in Server
  BY <1>1 DEF VoteCall, VoteRequest, VoteReply
<1> QED
  BY <1>1, <1>2 DEF Campaigns, FirstTerms

\* startElection opens the campaign of a peer that has no votes yet: its own vote
\* is the first, and each other peer is asked once.
LEMMA StartElectionBallots ==
  ASSUME OneTerm, TypeOK, Campaigns, FirstTerms, Ballots, NEW i \in Server, startElection(i)
  PROVE  Ballots'
<1>1. /\ currentTerm \in [Server -> Nat] /\ voteCount \in [Server -> Nat]
      /\ \A m \in asking \cup voteReq \cup voteRep :
           m.src \in Server /\ m.dst \in Server /\ currentTerm[m.src] = 1
  BY VoteTypes
<1>2. /\ currentTerm[i] + 1 = 1
      /\ currentTerm' = [currentTerm EXCEPT ![i] = currentTerm[i] + 1]
      /\ voteCount' = [voteCount EXCEPT ![i] = 1]
      /\ grants' = grants \cup {[voter |-> i, term |-> currentTerm[i] + 1, cand |-> i]}
      /\ asking' \subseteq asking \cup {[src |-> i, dst |-> j, elect |-> currentTerm[i] + 1] :
                                          j \in Server \ {i}}
      /\ UNCHANGED <<voteReq, voteRep>>
  <2>1. currentTerm[i] + 1 = 1
    <3>1. <<i, currentTerm[i] + 1>> \in Elections
      BY Zenon DEF startElection
    <3> QED
      BY <3>1 DEF OneTerm
  <2>2. /\ currentTerm' = [currentTerm EXCEPT ![i] = currentTerm[i] + 1]
        /\ voteCount' = [voteCount EXCEPT ![i] = 1]
        /\ grants' = grants \cup {[voter |-> i, term |-> currentTerm[i] + 1, cand |-> i]}
        /\ UNCHANGED <<voteReq, voteRep>>
    BY Zenon DEF startElection, network
  <2>3. \/ asking' = asking
        \/ asking' = asking \cup {[src |-> i, dst |-> j, elect |-> currentTerm[i] + 1] :
                                    j \in Server \ {i}}
    BY Zenon DEF startElection
  <2> QED
    BY <2>1, <2>2, <2>3, Zenon
<1>3. currentTerm[i] = 0 /\ currentTerm'[i] = 1 /\ Voters(i, 1) = {}
  <2>1. currentTerm[i] \in Nat /\ currentTerm[i] + 1 = 1
    BY <1>1, <1>2
  <2>2. currentTerm[i] = 0
    BY <2>1
  <2>3. currentTerm'[i] = currentTerm[i] + 1
    BY <1>1, <1>2, Zenon
  <2>4. Voters(i, 1) = {}
    BY <2>2, Zenon DEF Ballots
  <2> QED
    BY <2>1, <2>2, <2>3, <2>4
<1>4. Voters(i, 1)' = {i} /\ \A k : k # i => Voters(k, 1)' = Voters(k, 1)
  BY SMTT(30), <1>2, <1>3, VotersGrow
<1>5. \A m \in asking \cup voteReq \cup voteRep : m.src # i
  BY <1>1, <1>3
<1>6. \A g \in asking' : g \in asking \/ (g.src = i /\ g.dst \in Server \ {i} /\ g.elect = 1)
  BY <1>2
<1>7. ASSUME NEW k \in Server PROVE Counted(k)'
  <2>1. CASE k = i
    <3>1. Cardinality({i}) = 1 /\ voteCount'[i] = 1
      BY <1>1, <1>2, FS_Singleton, Zenon
    <3>2. \A r \in voteRep' : r.src # i
      BY <1>2, <1>5
    <3> QED
      BY <1>4, <2>1, <3>1, <3>2 DEF Counted
  <2>2. CASE k # i
    <3>1. Voters(k, 1)' = Voters(k, 1) /\ voteCount'[k] = voteCount[k] /\ voteRep' = voteRep
      BY <1>1, <1>2, <1>4, <2>2
    <3>2. Counted(k)
      BY DEF Ballots
    <3> QED
      BY <3>1, <3>2, Zenon DEF Counted
  <2> QED
    BY <2>1, <2>2
<1>8. \A m \in asking' \cup voteReq' \cup voteRep' : m.elect = 1
  BY <1>2, <1>6 DEF Ballots
<1>9. \A m \in asking' \cup voteReq' : m.dst \notin Voters(m.src, 1)'
  BY <1>2, <1>4, <1>5, <1>6 DEF Ballots
<1>10. \A g \in asking' : \A m \in voteReq' : ~(g.src = m.src /\ g.dst = m.dst)
  BY <1>2, <1>5, <1>6 DEF Ballots
<1>11. \A r \in voteRep' : r.VoteGranted => r.dst \in Voters(r.src, 1)'
  BY <1>2, <1>4, <1>5 DEF Ballots
<1>12. \A k \in Server : currentTerm'[k] = 0 => Voters(k, 1)' = {}
  BY <1>1, <1>2, <1>3, <1>4 DEF Ballots
<1>13. \A m, n \in voteReq' : m.src = n.src /\ m.dst = n.dst => m = n
  BY <1>2 DEF Ballots
<1> QED
  BY <1>7, <1>8, <1>9, <1>10, <1>11, <1>12, <1>13 DEF Ballots

\* A vote goroutine turns into one RequestVote call.
LEMMA SendVoteBallots ==
  ASSUME TypeOK, Ballots, NEW g \in asking, sendRequestVote(g) PROVE Ballots'
<1>1. /\ asking' = asking \ {g}
      /\ \A m \in voteReq' : m \in voteReq \/ (m.src = g.src /\ m.dst = g.dst /\ m.elect = g.elect)
      /\ UNCHANGED <<currentTerm, voteCount, voteRep, grants>>
  <2>1. /\ asking' = asking \ {g}
        /\ UNCHANGED <<currentTerm, voteCount, voteRep, grants>>
    BY Zenon DEF sendRequestVote, election, history
  <2>2. \E t, k, u : voteReq' = voteReq \cup
          {[src |-> g.src, dst |-> g.dst, elect |-> g.elect, live |-> TRUE, Term |-> t,
            LastLogIndex |-> k, LastLogTerm |-> u]}
    BY Zenon DEF sendRequestVote
  <2>3. \A m \in voteReq' : m \in voteReq \/ (m.src = g.src /\ m.dst = g.dst /\ m.elect = g.elect)
    BY <2>2
  <2> QED
    BY <2>1, <2>3, Zenon
<1>2. \A m, n \in voteReq' : m \notin voteReq /\ n \notin voteReq => m = n
  BY Zenon DEF sendRequestVote
<1>3. \A k : Voters(k, 1)' = Voters(k, 1)
  BY <1>1, Zenon DEF Voters
<1>4. ASSUME NEW k \in Server PROVE Counted(k)'
  <2>1. Counted(k)
    BY Zenon DEF Ballots
  <2>2. voteCount' = voteCount /\ voteRep' = voteRep /\ Voters(k, 1)' = Voters(k, 1)
    BY <1>1, <1>3, Zenon
  <2> QED
    BY <2>1, <2>2 DEF Counted
<1>5. \A m \in asking' \cup voteReq' \cup voteRep' : m.elect = 1
  BY <1>1 DEF Ballots
<1>6. \A m \in asking' \cup voteReq' : m.dst \notin Voters(m.src, 1)'
  BY <1>1, <1>3 DEF Ballots
<1>7. \A h \in asking' : \A m \in voteReq' : ~(h.src = m.src /\ h.dst = m.dst)
  <2> SUFFICES ASSUME NEW h \in asking', NEW m \in voteReq', h.src = m.src, h.dst = m.dst
               PROVE  FALSE
    OBVIOUS
  <2>1. CASE m \in voteReq
    BY <1>1, <2>1 DEF Ballots
  <2>2. CASE m \notin voteReq
    <3>1. h \in VoteCall /\ g \in VoteCall /\ h.elect = g.elect
      BY <1>1 DEF Ballots, TypeOK
    <3>2. m.src = g.src /\ m.dst = g.dst
      BY <1>1, <2>2
    <3>3. h = g
      BY <3>1, <3>2 DEF VoteCall
    <3> QED
      BY <1>1, <3>3
  <2> QED
    BY <2>1, <2>2
<1>8. \A m, n \in voteReq' : m.src = n.src /\ m.dst = n.dst => m = n
  BY <1>1, <1>2 DEF Ballots
<1> QED
  BY <1>1, <1>3, <1>4, <1>5, <1>6, <1>7, <1>8, ZenonT(30) DEF Ballots

\* The handler gives a vote the candidate does not have yet; its reply is the
\* only one from this voter.
LEMMA RequestVoteBallots ==
  ASSUME TypeOK, Campaigns, FirstTerms, Ballots, NEW m \in voteReq, RequestVote(m)
  PROVE  Ballots'
<1> DEFINE i == m.dst
           c == m.src
           grant == FreeToVote(i, m) /\ moreUpToDate(m, log[i])
<1>1. /\ currentTerm \in [Server -> Nat] /\ voteCount \in [Server -> Nat]
      /\ \A n \in asking \cup voteReq \cup voteRep :
           n.src \in Server /\ n.dst \in Server /\ currentTerm[n.src] = 1
  BY VoteTypes
<1>2. /\ m.Term = 1 /\ i \in Server /\ c \in Server /\ currentTerm[c] = 1 /\ m.elect = 1
      /\ currentTerm[i] \in Nat /\ currentTerm[i] <= 1 /\ i \notin Voters(c, 1)
  BY <1>1 DEF FirstTerms, Ballots
<1>c. currentTerm' = [currentTerm EXCEPT ![i] = IF m.Term > currentTerm[i] THEN m.Term ELSE @]
  BY Zenon DEF RequestVote
<1>d. grants' = IF ~grant THEN grants
                ELSE grants \cup {[voter |-> i, term |-> currentTerm'[i], cand |-> c]}
  BY Zenon DEF RequestVote
<1>3. voteReq' = voteReq \ {m} /\ UNCHANGED <<voteCount, asking>>
  BY Zenon DEF RequestVote, calls
<1>4. currentTerm'[i] = 1 /\ \A k \in Server : currentTerm'[k] = 0 => currentTerm[k] = 0
  <2> HIDE DEF i, c, grant
  <2>1. \A n \in Nat : n <= 1 => (IF 1 > n THEN 1 ELSE n) = 1
    OBVIOUS
  <2>2. currentTerm' = [currentTerm EXCEPT ![i] = 1]
    BY <1>2, <1>c, <2>1, Zenon
  <2> QED
    BY <1>1, <1>2, <2>2
<1> DEFINE answer == [src |-> c, dst |-> i, elect |-> m.elect, Term |-> currentTerm'[i],
                      VoteGranted |-> grant]
<1>a. voteRep' = IF ~m.live THEN voteRep ELSE voteRep \cup {answer}
  BY Zenon DEF RequestVote
<1> HIDE DEF grant
<1>b. answer.src = c /\ answer.dst = i /\ answer.elect = 1 /\ answer.VoteGranted = grant
  BY <1>2, Zenon
<1> HIDE DEF answer
<1>5. \A r \in voteRep' : \/ r \in voteRep
                          \/ /\ r.src = c /\ r.dst = i /\ r.elect = 1
                             /\ r.VoteGranted => grant
  BY <1>a, <1>b
<1>6. /\ \A k : k # c => Voters(k, 1)' = Voters(k, 1)
      /\ Voters(c, 1)' \subseteq Voters(c, 1) \cup {i} /\ Voters(c, 1) \subseteq Voters(c, 1)'
      /\ grant => i \in Voters(c, 1)'
  <2>1. CASE grant
    <3>1. grants' = grants \cup {[voter |-> i, term |-> 1, cand |-> c]}
      BY <1>d, <1>4, <2>1, Zenon
    <3> HIDE DEF i, c
    <3> QED
      BY <3>1, VotersGrow
  <2>2. CASE ~grant
    BY <1>d, <2>2 DEF Voters
  <2> QED
    BY <2>1, <2>2
<1> HIDE DEF i, c
<1>7. ASSUME NEW k \in Server PROVE Counted(k)'
  <2>1. PICK C \in SUBSET Voters(k, 1) :
          /\ Cardinality(C) = voteCount[k]
          /\ \A r \in voteRep : r.src = k /\ r.VoteGranted => r.dst \notin C
    BY DEF Ballots, Counted
  <2>2. C \in SUBSET (Voters(k, 1)')
    BY <1>6
  <2>3. \A r \in voteRep' : r.src = k /\ r.VoteGranted => r.dst \notin C
    BY <1>2, <1>5, <2>1
  <2>4. voteCount' = voteCount
    BY <1>3
  <2> QED
    BY <2>1, <2>2, <2>3, <2>4, Zenon DEF Counted
<1>8. \A n \in asking' \cup voteReq' \cup voteRep' : n.elect = 1
  BY <1>3, <1>5 DEF Ballots
<1>9. \A n \in asking' \cup voteReq' : n.dst \notin Voters(n.src, 1)'
  <2> SUFFICES ASSUME NEW n \in asking' \cup voteReq', n.dst \in Voters(n.src, 1)'
               PROVE  FALSE
    OBVIOUS
  <2>1. n \in asking \cup voteReq /\ n # m /\ n.dst \notin Voters(n.src, 1)
    BY <1>3 DEF Ballots
  <2>2. n.src = c /\ n.dst = i
    BY <1>6, <2>1
  <2> QED
    BY <2>1, <2>2 DEF Ballots, i, c
<1>10. \A r \in voteRep' : r.VoteGranted => r.dst \in Voters(r.src, 1)'
  BY <1>5, <1>6 DEF Ballots
<1>11. \A k \in Server : currentTerm'[k] = 0 => Voters(k, 1)' = {}
  BY <1>2, <1>4, <1>6 DEF Ballots
<1>12. /\ \A g \in asking' : \A n \in voteReq' : ~(g.src = n.src /\ g.dst = n.dst)
       /\ \A n, p \in voteReq' : n.src = p.src /\ n.dst = p.dst => n = p
  BY <1>3 DEF Ballots
<1> QED
  BY <1>7, <1>8, <1>9, <1>10, <1>11, <1>12 DEF Ballots

\* A vote is counted when its reply is taken, and there is no second reply.
LEMMA VoteRepliedBallots ==
  ASSUME TypeOK, Campaigns, FirstTerms, Ballots, NEW r \in voteRep, VoteReplied(r)
  PROVE  Ballots'
<1>1. /\ currentTerm \in [Server -> Nat] /\ voteCount \in [Server -> Nat]
      /\ \A n \in asking \cup voteReq \cup voteRep :
           n.src \in Server /\ n.dst \in Server /\ currentTerm[n.src] = 1
      /\ voteRep \subseteq VoteReply
  <2>1. voteRep \subseteq VoteReply
    BY Zenon DEF TypeOK
  <2> QED
    BY <2>1, VoteTypes, Zenon
<1>2. /\ voteRep' = voteRep \ {r}
      /\ voteCount' = [voteCount EXCEPT ![r.src] = IF r.VoteGranted THEN @ + 1 ELSE @]
      /\ UNCHANGED <<asking, voteReq, grants>>
  BY DEF VoteReplied, calls, history
<1>3. UNCHANGED currentTerm
  <2>1. ~(r.Term > currentTerm[r.src])
    BY <1>1 DEF FirstTerms
  <2> QED
    BY <2>1 DEF VoteReplied
<1>4. \A k : Voters(k, 1)' = Voters(k, 1)
  BY <1>2 DEF Voters
<1>5. ASSUME NEW k \in Server PROVE Counted(k)'
  <2>1. PICK C \in SUBSET Voters(k, 1) :
          /\ Cardinality(C) = voteCount[k]
          /\ \A n \in voteRep : n.src = k /\ n.VoteGranted => n.dst \notin C
    BY DEF Ballots, Counted
  <2>2. CASE k = r.src /\ r.VoteGranted
    <3> DEFINE D == C \cup {r.dst}
    <3>1. r.dst \notin C /\ r.dst \in Voters(k, 1)
      BY <2>1, <2>2 DEF Ballots
    <3>2. IsFiniteSet(C)
      BY VotersFinite, FS_Subset
    <3>3. Cardinality(D) = Cardinality(C) + 1
      BY <3>1, <3>2, FS_AddElement, Zenon
    <3>4. voteCount'[k] = voteCount[k] + 1
      BY <1>1, <1>2, <2>2
    <3>5. ASSUME NEW n \in voteRep', n.src = k, n.VoteGranted, n.dst = r.dst PROVE FALSE
      <4>1. n \in voteRep /\ n # r
        BY <1>2, <3>5
      <4>2. n \in VoteReply /\ r \in VoteReply
        BY <1>1, <4>1
      <4>3. n.elect = 1 /\ r.elect = 1 /\ n.Term = 1 /\ r.Term = 1
        BY <4>1 DEF Ballots, FirstTerms
      <4>4. n.VoteGranted = r.VoteGranted
        BY <2>2, <3>5, <4>2 DEF VoteReply
      <4> QED
        BY <2>2, <3>5, <4>1, <4>2, <4>3, <4>4 DEF VoteReply
    <3>6. \A n \in voteRep' : n.src = k /\ n.VoteGranted => n.dst \notin D
      BY <1>2, <2>1, <3>5
    <3>7. D \in SUBSET (Voters(k, 1)')
      BY <1>4, <3>1
    <3> HIDE DEF D
    <3> QED
      BY <2>1, <3>3, <3>4, <3>6, <3>7 DEF Counted
  <2>3. CASE ~(k = r.src /\ r.VoteGranted)
    <3>1. voteCount'[k] = voteCount[k]
      BY <1>1, <1>2, <2>3
    <3> QED
      BY <1>2, <1>4, <2>1, <3>1 DEF Counted
  <2> QED
    BY <2>2, <2>3
<1> QED
  BY <1>2, <1>3, <1>4, <1>5, ZenonT(30) DEF Ballots

\* A restarted peer has lost its count and its vote goroutines, not its term: it
\* does not ask again.
LEMMA RestartBallots ==
  ASSUME TypeOK, PersistedIsCurrent, Campaigns, FirstTerms, Ballots,
         NEW i \in Server, Restart(i)
  PROVE  Ballots'
<1>1. /\ currentTerm \in [Server -> Nat] /\ voteCount \in [Server -> Nat]
      /\ voteReq \subseteq VoteRequest
  BY DEF TypeOK
<1>2. UNCHANGED currentTerm
  <2>1. raftstate[i] = [log |-> log[i], currentTerm |-> currentTerm[i],
                        votedFor |-> votedFor[i]]
    BY DEF PersistedIsCurrent
  <2>2. raftstate[i].currentTerm = currentTerm[i]
    BY <2>1
  <2>3. currentTerm' = [currentTerm EXCEPT ![i] = raftstate[i].currentTerm]
    BY Zenon DEF Restart
  <2> QED
    BY <1>1, <2>2, <2>3
<1>3. /\ asking' \subseteq asking /\ voteRep' \subseteq voteRep
      /\ \A r \in voteRep' : r.src # i
      /\ voteCount' = [voteCount EXCEPT ![i] = 0]
      /\ UNCHANGED grants
      /\ voteReq' = Orphaned(i, voteReq)
  BY Zenon DEF Restart
<1>4. \A k : Voters(k, 1)' = Voters(k, 1)
  BY <1>3 DEF Voters
<1> DEFINE Image(n) == IF n.src = i THEN [n EXCEPT !.live = FALSE] ELSE n
<1>5. \A m \in voteReq' : \E n \in voteReq : m = Image(n)
  BY <1>3, Zenon DEF Orphaned
<1>6. \A n \in voteReq : /\ Image(n).src = n.src /\ Image(n).dst = n.dst
                         /\ Image(n).elect = n.elect
  BY <1>1 DEF VoteRequest
<1> HIDE DEF Image
<1>7. ASSUME NEW k \in Server PROVE Counted(k)'
  <2>1. CASE k = i
    <3>1. Cardinality({}) = 0 /\ voteCount'[k] = 0
      BY <1>1, <1>3, <2>1, FS_EmptySet
    <3> QED
      BY <3>1 DEF Counted
  <2>2. CASE k # i
    <3>1. voteCount'[k] = voteCount[k]
      BY <1>1, <1>3, <2>2
    <3>2. Counted(k)
      BY DEF Ballots
    <3> QED
      BY <1>3, <1>4, <3>1, <3>2 DEF Counted
  <2> QED
    BY <2>1, <2>2
<1>8. \A m \in asking' \cup voteReq' \cup voteRep' : m.elect = 1
  BY <1>3, <1>5, <1>6 DEF Ballots
<1>9. \A m \in asking' \cup voteReq' : m.dst \notin Voters(m.src, 1)'
  BY <1>3, <1>4, <1>5, <1>6 DEF Ballots
<1>10. \A g \in asking' : \A m \in voteReq' : ~(g.src = m.src /\ g.dst = m.dst)
  BY <1>3, <1>5, <1>6 DEF Ballots
<1>11. \A m, n \in voteReq' : m.src = n.src /\ m.dst = n.dst => m = n
  BY <1>5, <1>6 DEF Ballots
<1>12. \A r \in voteRep' : r.VoteGranted => r.dst \in Voters(r.src, 1)'
  BY <1>3, <1>4 DEF Ballots
<1>13. \A k \in Server : currentTerm'[k] = 0 => Voters(k, 1)' = {}
  BY <1>2, <1>4 DEF Ballots
<1> QED
  BY <1>7, <1>8, <1>9, <1>10, <1>11, <1>12, <1>13, Zenon DEF Ballots

\* The election state of the first term, all of it.
ElectionInv == Campaigns /\ FirstTerms /\ Ballots /\ LeadersWon

\* Every step keeps it: a leader has been elected by a majority.
LEMMA ElectionInvStep ==
  ASSUME OneTerm, IndInv, ElectionInv, [Next]_vars PROVE ElectionInv'
<1>0. TypeOK /\ PersistedIsCurrent /\ Campaigns /\ FirstTerms /\ Ballots /\ LeadersWon
  BY DEF IndInv, ElectionInv
<1>1. Campaigns' /\ FirstTerms'
  BY <1>0, CampaignStep, FirstTermsStep
<1>2. Ballots'
  <2>1. CASE UNCHANGED <<asking, voteReq, voteRep, voteCount, grants>>
    <3>1. \A k : Voters(k, 1)' = Voters(k, 1)
      BY <2>1 DEF Voters
    <3>2. \A k \in Server : currentTerm'[k] = 0 => currentTerm[k] = 0
      <4>1. currentTerm \in [Server -> Nat] /\ currentTerm' \in [Server -> Nat]
        BY <1>0, NextInv, Zenon DEF IndInv, TypeOK
      <4> QED
        BY <4>1, TermStep
    <3>3. \A k \in Server : Counted(k)'
      BY <1>0, <2>1, <3>1, ZenonT(30) DEF Counted, Ballots
    <3> QED
      BY <1>0, <2>1, <3>1, <3>2, <3>3 DEF Ballots
  <2> QED
    BY <1>0, <2>1, ElectionStep, StartElectionBallots, SendVoteBallots, RequestVoteBallots,
       VoteRepliedBallots, RestartBallots
<1>3. ASSUME NEW i \in Server, state'[i] = Leader PROVE Winner(i)'
  <2>1. CASE state[i] = Leader
    BY <1>0, <2>1, WinnerStays DEF LeadersWon
  <2>2. CASE IsMajority(voteCount[i])
    <3>1. PICK C \in SUBSET Voters(i, 1) : Cardinality(C) = voteCount[i]
      BY <1>0 DEF Ballots, Counted
    <3>2. Winner(i)
      BY <1>0, <2>2, <3>1, VotersFinite, MajorityGrows DEF Winner
    <3> QED
      BY <3>2, WinnerStays
  <2> QED
    BY <1>0, <1>3, <2>1, <2>2, LeaderStep
<1> QED
  BY <1>1, <1>2, <1>3 DEF ElectionInv, LeadersWon

\* Two winners are the same peer.
LEMMA OneWinner ==
  ASSUME TypeOK, OneMajorityPerTerm, NEW i \in Server, NEW j \in Server, Winner(i), Winner(j)
  PROVE  i = j
<1>1. ASSUME NEW k, Winner(k) PROVE \E g \in grants : g.cand = k /\ g.term = 1
  <2>1. Cardinality(Voters(k, 1)) > 0
    BY <1>1, VotersFinite, MajorityPositive DEF Winner
  <2>2. Voters(k, 1) # {}
    BY <2>1, FS_EmptySet
  <2> QED
    BY <2>2 DEF Voters
<1>2. PICK g \in grants, h \in grants : g.cand = i /\ g.term = 1 /\ h.cand = j /\ h.term = 1
  BY <1>1
<1> QED
  BY <1>2 DEF OneMajorityPerTerm, Winner

\* A leader of the first term has the votes of a majority.
LEMMA ElectionInvariance == ASSUME OneTerm PROVE Spec => []ElectionInv
<1>1. Init => ElectionInv
  <2> SUFFICES ASSUME Init PROVE ElectionInv
    OBVIOUS
  <2>1. \A k : Voters(k, 1) = {}
    BY Zenon DEF Init, Voters
  <2>2. Ballots
    <3>1. \A i \in Server : Counted(i)
      BY <2>1, FS_EmptySet DEF Init, Counted
    <3> QED
      BY <2>1, <3>1 DEF Init, Ballots
  <2>3. /\ asking = {} /\ voteReq = {} /\ voteRep = {} /\ appendReq = {} /\ appendRep = {}
        /\ voteCount = [i \in Server |-> 0] /\ state = [i \in Server |-> Follower]
        /\ currentTerm = [i \in Server |-> Fresh.currentTerm]
    BY Zenon DEF Init
  <2>4. Fresh.currentTerm = 0
    BY DEF Fresh
  <2>5. Campaigns /\ FirstTerms /\ LeadersWon
    BY <2>3, <2>4 DEF Campaigns, FirstTerms, LeadersWon, Follower, Leader
  <2> QED
    BY <2>2, <2>5 DEF ElectionInv
<1>2. IndInv /\ ElectionInv /\ [Next]_vars => ElectionInv'
  BY ElectionInvStep
<1> QED
  BY <1>1, <1>2, Invariance, PTL DEF Spec

\* As long as no second term is opened, no two peers are leader: votes are
\* counted once, by the candidate they were given to, through crashes and
\* delayed calls.
THEOREM OneLeader == ASSUME OneTerm PROVE Spec => []ElectionSafety
<1>1. IndInv /\ ElectionInv /\ OneMajorityPerTerm => ElectionSafety
  BY OneWinner DEF IndInv, ElectionInv, LeadersWon, ElectionSafety
<1> QED
  BY <1>1, ElectionInvariance, Invariance, OneMajority, PTL

----------------------------------------------------------------------------
(* Replication.                                                            *)

----------------------------------------------------------------------------
(* The terms of entries.                                                   *)

\* entries on their way into a log: in a heartbeat they are of terms up to the
\* one it is sent in, in Start of the term GetState has read
TermInv ==
  /\ Campaigns
  /\ EntryTermsBounded
  /\ \A m \in appendReq : \A k \in 1..Len(m.Entries) :
       1 <= m.Entries[k].Term /\ m.Entries[k].Term <= m.Term
  /\ \A i \in Server : \A s \in starting[i] : 1 <= s.term /\ s.term <= currentTerm[i]

\* A handler that merges entries has reached the term of the call.
LEMMA AdoptedTerm ==
  ASSUME TypeOK, NEW m \in appendReq, AppendMatch(m)
  PROVE  currentTerm'[m.dst] = m.Term
<1>1. m.dst \in Server /\ m.Term \in Nat /\ currentTerm \in [Server -> Nat]
  BY Zenon DEF TypeOK, AppendRequest
<1>2. m.Term >= currentTerm[m.dst] /\ AdoptTerm(m)
  BY Zenon DEF AppendMatch
<1> QED
  BY <1>1, <1>2 DEF AdoptTerm, StepDown

\* What the merge of a call leaves in the log of its receiver.
LEMMA MatchContents ==
  ASSUME IndInv, NEW m \in appendReq, AppendMatch(m)
  PROVE  LET i == m.dst
             p == m.PrevLogIndex
             n == Len(m.Entries)
         IN
         /\ \A x \in 1..Len(log'[i]) :
              \/ x <= Len(log[i]) /\ log'[i][x] = log[i][x]
              \/ x - p \in 1..n /\ log'[i][x] = m.Entries[x - p]
         /\ p + n <= Len(log'[i])
         /\ (\A x \in (p + 1)..(p + n) :
               x <= Len(log[i]) => log[i][x].Term = m.Entries[x - p].Term)
            => /\ Len(log[i]) <= Len(log'[i])
               /\ \A x \in 1..Len(log[i]) : log'[i][x] = log[i][x]
<1> DEFINE i == m.dst
           p == m.PrevLogIndex
           l == log[i]
           es == m.Entries
<1>1. /\ i \in Server /\ p \in Nat /\ l \in Seq(Entry) /\ es \in Seq(Entry)
      /\ log \in [Server -> Seq(Entry)]
  BY Zenon DEF IndInv, TypeOK, AppendRequest
<1>2. p \in 0..Len(l)
  <2>1. p <= Len(l)
    BY Zenon DEF AppendMatch, PrevMatches
  <2>2. Len(l) \in Nat
    BY <1>1
  <2> QED
    BY <1>1, <2>1, <2>2
<1>3. \A k \in 1..Len(es) : es[k].Index = p + k
  BY DEF IndInv, LogInv, IndexIsPosition
<1>4. log'[i] = MergeEntries(l, es)
  <2>1. log' = [log EXCEPT ![i] = MergeEntries(l, es)]
    BY Zenon DEF AppendMatch
  <2> QED
    BY <1>1, <2>1
<1> HIDE DEF i, p, l, es
<1>5. LET new == MergeEntries(l, es) IN
      /\ \A x \in 1..Len(new) : \/ x <= Len(l) /\ new[x] = l[x]
                                \/ x - p \in 1..Len(es) /\ new[x] = es[x - p]
      /\ p + Len(es) <= Len(new)
      /\ (\A x \in (p + 1)..(p + Len(es)) : x <= Len(l) => l[x].Term = es[x - p].Term)
         => Len(l) <= Len(new) /\ \A x \in 1..Len(l) : new[x] = l[x]
  BY <1>1, <1>2, <1>3, MergeContents, Zenon
<1> QED
  BY <1>4, <1>5, Zenon DEF i, p, l, es

\* Every step keeps the terms of entries between 1 and the term of the peer.
LEMMA TermInvStep ==
  ASSUME IndInv, TermInv, [Next]_vars PROVE TermInv'
<1>0. TypeOK /\ TypeOK'
  BY NextInv DEF IndInv
<1>1. /\ currentTerm \in [Server -> Nat] /\ log \in [Server -> Seq(Entry)]
      /\ appendReq \subseteq AppendRequest /\ state \in [Server -> States]
      /\ starting \in [Server -> SUBSET [cmd : Command, term : Nat]]
      /\ currentTerm' \in [Server -> Nat] /\ log' \in [Server -> Seq(Entry)]
  BY SMTT(30), <1>0 DEF TypeOK
<1>2. \A i \in Server : currentTerm'[i] >= currentTerm[i]
  BY TermStep, Zenon
<1>a. \A i \in Server : \A k \in 1..Len(log[i]) : log[i][k].Term \in Nat
  <2> TAKE i \in Server
  <2> TAKE k \in 1..Len(log[i])
  <2>1. log[i] \in Seq(Entry)
    BY <1>1
  <2>2. log[i][k] \in Entry
    BY <2>1
  <2> QED
    BY <2>2 DEF Entry
<1>b. \A i \in Server : \A k \in 1..Len(log[i]) :
        1 <= log[i][k].Term /\ log[i][k].Term <= currentTerm'[i]
  BY <1>1, <1>2, <1>a DEF TermInv, EntryTermsBounded
<1>3. EntryTermsBounded'
  <2>1. CASE UNCHANGED log
    BY <1>b, <2>1 DEF EntryTermsBounded
  <2>2. ASSUME NEW i \in Server, NEW s \in starting[i], Start(i, s) PROVE EntryTermsBounded'
    <3>1. /\ s \in [cmd : Command, term : Nat] /\ 1 <= s.term /\ s.term <= currentTerm[i]
          /\ log[i] \in Seq(Entry)
      BY <1>1 DEF TermInv
    <3> DEFINE e == NewEntry(i, s)
    <3>2. e.Term = s.term
      BY DEF NewEntry
    <3> HIDE DEF e
    <3>3. log' = [log EXCEPT ![i] = Append(log[i], e)]
      BY <2>2 DEF Start, e
    <3>4. log'[i] = Append(log[i], e) /\ \A j \in Server \ {i} : log'[j] = log[j]
      BY <1>1, <3>3
    <3>5. ASSUME NEW k \in 1..Len(log'[i])
          PROVE  1 <= log'[i][k].Term /\ log'[i][k].Term <= currentTerm'[i]
      <4>1. CASE k \in 1..Len(log[i])
        <5>1. log'[i][k] = log[i][k]
          BY <3>1, <3>4, <4>1
        <5> QED
          BY <1>b, <4>1, <5>1
      <4>2. CASE k \notin 1..Len(log[i])
        <5>1. log'[i][k] = e
          BY <3>1, <3>4, <4>2
        <5> QED
          BY <1>1, <1>2, <3>1, <3>2, <5>1
      <4> QED
        BY <4>1, <4>2
    <3> QED
      BY SMTT(30), <1>b, <3>4, <3>5 DEF EntryTermsBounded
  <2>3. ASSUME NEW m \in appendReq, AppendMatch(m) PROVE EntryTermsBounded'
    <3> DEFINE i == m.dst
    <3>1. /\ i \in Server
          /\ \A k \in 1..Len(m.Entries) : 1 <= m.Entries[k].Term /\ m.Entries[k].Term <= m.Term
          /\ currentTerm'[i] = m.Term
      BY <1>0, <1>1, <2>3, AdoptedTerm DEF TermInv, AppendRequest
    <3>2. \A x \in 1..Len(log'[i]) :
              \/ x <= Len(log[i]) /\ log'[i][x] = log[i][x]
              \/ x - m.PrevLogIndex \in 1..Len(m.Entries)
                 /\ log'[i][x] = m.Entries[x - m.PrevLogIndex]
      BY <2>3, MatchContents
    <3>3. \A j \in Server \ {i} : log'[j] = log[j]
      BY <1>1, <2>3, Zenon DEF AppendMatch
    <3>4. ASSUME NEW k \in 1..Len(log'[i])
          PROVE  1 <= log'[i][k].Term /\ log'[i][k].Term <= currentTerm'[i]
      <4>1. CASE k <= Len(log[i]) /\ log'[i][k] = log[i][k]
        <5>1. log[i] \in Seq(Entry) /\ log'[i] \in Seq(Entry)
          BY <1>1, <3>1
        <5>2. k \in 1..Len(log[i])
          BY <4>1, <5>1
        <5> QED
          BY <1>b, <3>1, <4>1, <5>2
      <4> QED
        BY SMTT(30), <3>1, <3>2, <4>1
    <3> QED
      BY <1>b, <3>1, <3>3, <3>4 DEF EntryTermsBounded
  <2> QED
    BY <2>1, <2>2, <2>3, LogStep
<1>4. ASSUME NEW m \in appendReq', NEW k \in 1..Len(m.Entries)
      PROVE  1 <= m.Entries[k].Term /\ m.Entries[k].Term <= m.Term
  <2>1. CASE \E n \in appendReq : SameCall(m, n)
    BY <2>1 DEF SameCall, TermInv
  <2>2. CASE Heartbeat(m) /\ m.src \in Server
    <3> DEFINE l == log[m.src]
               p == m.PrevLogIndex
    <3>1. l \in Seq(Entry) /\ p \in 0..Len(l) /\ Len(l) \in Nat
      BY <1>1, <2>2 DEF Heartbeat
    <3>2. m.Entries = SubSeq(l, p + 1, Len(l)) /\ m.Term = currentTerm[m.src]
      BY <2>2 DEF Heartbeat
    <3>3. \A x \in 1..Len(l) : 1 <= l[x].Term /\ l[x].Term <= currentTerm[m.src]
      BY <2>2 DEF TermInv, EntryTermsBounded
    <3> HIDE DEF l, p
    <3>4. m.Entries[k] = l[p + k] /\ p + k \in 1..Len(l)
      BY <3>1, <3>2
    <3> QED
      BY <3>2, <3>3, <3>4, Zenon
  <2> QED
    BY <2>1, <2>2, CallStep
<1>5. ASSUME NEW i \in Server, NEW s \in starting'[i]
      PROVE  1 <= s.term /\ s.term <= currentTerm'[i]
  <2>0. currentTerm[i] \in Nat /\ currentTerm'[i] \in Nat /\ currentTerm'[i] >= currentTerm[i]
    BY <1>1, <1>2
  <2>1. CASE s \in starting[i]
    <3>1. s.term \in Nat /\ 1 <= s.term /\ s.term <= currentTerm[i]
      BY <1>1, <2>1 DEF TermInv
    <3> QED
      BY <2>0, <3>1
  <2>2. CASE state[i] = Leader /\ s.term = currentTerm[i]
    <3>1. currentTerm[i] >= 1
      BY <2>2 DEF TermInv, Campaigns
    <3> QED
      BY <2>0, <2>2, <3>1
  <2> QED
    BY <2>1, <2>2, StartingStep
<1>6. Campaigns'
  BY CampaignStep DEF TermInv
<1> QED
  BY <1>3, <1>4, <1>5, <1>6, Zenon DEF TermInv

\* The terms of entries, and of those on their way into a log, are never later
\* than the one of the peer or call that holds them.
LEMMA TermInvariance == Spec => []TermInv
<1>1. Init => TermInv
  <2> SUFFICES ASSUME Init PROVE TermInv
    BY Zenon
  <2>1. /\ log = [i \in Server |-> Fresh.log] /\ state = [i \in Server |-> Follower]
        /\ voteCount = [i \in Server |-> 0] /\ starting = [i \in Server |-> {}]
        /\ asking = {} /\ voteReq = {} /\ voteRep = {} /\ appendReq = {}
    BY Zenon DEF Init
  <2>2. Fresh.log = <<>>
    BY DEF Fresh
  <2> QED
    BY <2>1, <2>2 DEF TermInv, Campaigns, EntryTermsBounded, Follower, Leader
<1>2. IndInv /\ TermInv /\ [Next]_vars => TermInv'
  BY TermInvStep
<1> QED
  BY <1>1, <1>2, Invariance, PTL DEF Spec

\* The entries of a log are of terms between 1 and the peer's own, for any
\* number of peers, terms and restarts.
THEOREM EntryTerms == Spec => []EntryTermsBounded
<1>1. TermInv => EntryTermsBounded
  BY Zenon DEF TermInv
<1> QED
  BY <1>1, TermInvariance, PTL

----------------------------------------------------------------------------
(* One log.                                                                *)

\* l is a prefix of k
Begins(l, k) == Len(l) <= Len(k) /\ \A x \in 1..Len(l) : l[x] = k[x]

\* an AppendEntries call holds a piece of its sender's log
Carries(m) ==
  /\ m.PrevLogIndex + Len(m.Entries) <= Len(log[m.src])
  /\ \A k \in 1..Len(m.Entries) : m.Entries[k] = log[m.src][m.PrevLogIndex + k]

\* entries come from the winner of the election, and every log is a prefix of its
\* log
OneLog ==
  /\ \A i \in Server : starting[i] # {} => Winner(i)
  /\ \A i \in Server : log[i] # <<>> => \E w \in Server : Winner(w)
  /\ \A i, w \in Server : Winner(w) => Begins(log[i], log[w])
  /\ \A m \in appendReq : Winner(m.src) /\ Carries(m)

\* Prefixes compose.
LEMMA BeginsTransitive ==
  ASSUME NEW a \in Seq(Entry), NEW b \in Seq(Entry), NEW c \in Seq(Entry),
         Begins(a, b), Begins(b, c)
  PROVE  Begins(a, c)
<1>1. Len(a) \in Nat /\ Len(b) \in Nat /\ Len(c) \in Nat
  OBVIOUS
<1>2. Len(a) <= Len(b) /\ Len(b) <= Len(c)
  BY DEF Begins
<1>3. \A x \in 1..Len(a) : x \in 1..Len(b)
  BY <1>1, <1>2
<1>4. Len(a) <= Len(c)
  BY <1>1, <1>2
<1> QED
  BY <1>3, <1>4 DEF Begins

\* A log that is appended to begins with the old one.
LEMMA BeginsAppend ==
  ASSUME NEW l \in Seq(Entry), NEW e \in Entry PROVE Begins(l, l) /\ Begins(l, Append(l, e))
BY DEF Begins

\* The merge of a heartbeat of the winner: the receiver's log grows along the
\* winner's, nothing of it is cut.
LEMMA FirstMerge ==
  ASSUME IndInv, OneLog, NEW m \in appendReq, AppendMatch(m)
  PROVE  /\ m.dst \in Server /\ m.src \in Server /\ m.src # m.dst
         /\ Begins(log[m.dst], log'[m.dst]) /\ Begins(log'[m.dst], log[m.src])
         /\ \A j \in Server \ {m.dst} : log'[j] = log[j]
         /\ m.PrevLogIndex + Len(m.Entries) <= Len(log'[m.dst])
         /\ UNCHANGED <<grants, starting>>
<1> DEFINE l == log[m.dst]
           w == log[m.src]
           new == log'[m.dst]
           p == m.PrevLogIndex
           es == m.Entries
<1>1. /\ m.dst \in Server /\ m.src \in Server /\ m.src # m.dst
      /\ p \in Nat /\ es \in Seq(Entry) /\ l \in Seq(Entry) /\ w \in Seq(Entry)
      /\ log \in [Server -> Seq(Entry)]
  BY Zenon DEF IndInv, TypeOK, AppendRequest, LogInv, NoSelfCalls
<1>2. new \in Seq(Entry) /\ \A j \in Server \ {m.dst} : log'[j] = log[j]
  <2>1. log' = [log EXCEPT ![m.dst] = MergeEntries(l, es)]
    BY Zenon DEF AppendMatch
  <2>2. MergeEntries(l, es) \in Seq(Entry)
    <3>0. PrevMatches(l, m)
      BY Zenon DEF AppendMatch
    <3>1. p <= Len(l) /\ Len(l) \in Nat
      <4>1. \A k \in Seq(Entry) : Len(k) \in Nat
        OBVIOUS
      <4> QED
        BY <1>1, <3>0, <4>1, Zenon DEF PrevMatches
    <3>2. p \in 0..Len(l)
      BY <1>1, <3>1
    <3>3. \A k \in 1..Len(es) : es[k].Index = p + k
      BY DEF IndInv, LogInv, IndexIsPosition
    <3>4. \A k \in 1..Len(l) : l[k].Index = k
      BY <1>1 DEF IndInv, LogInv, IndexIsPosition
    <3> HIDE DEF l, es, p
    <3> QED
      BY <1>1, <3>2, <3>3, <3>4, MergeShape
  <2> QED
    BY <1>1, <2>1, <2>2
<1>3. /\ Begins(l, w) /\ p + Len(es) <= Len(w) /\ \A k \in 1..Len(es) : es[k] = w[p + k]
  BY <1>1 DEF OneLog, Carries
<1>4. /\ \A x \in 1..Len(new) : \/ x <= Len(l) /\ new[x] = l[x]
                                \/ x - p \in 1..Len(es) /\ new[x] = es[x - p]
      /\ p + Len(es) <= Len(new)
      /\ (\A x \in (p + 1)..(p + Len(es)) : x <= Len(l) => l[x].Term = es[x - p].Term)
         => Len(l) <= Len(new) /\ \A x \in 1..Len(l) : new[x] = l[x]
  BY MatchContents, Zenon
<1>5. UNCHANGED <<grants, starting>>
  BY Zenon DEF AppendMatch, history
<1> HIDE DEF l, w, new, p, es
<1>6. Len(l) \in Nat /\ Len(w) \in Nat /\ Len(new) \in Nat /\ Len(es) \in Nat
  BY <1>1, <1>2
<1>7. Len(l) <= Len(w) /\ \A x \in 1..Len(l) : l[x] = w[x]
  BY <1>3 DEF Begins
<1>8. ASSUME NEW x \in (p + 1)..(p + Len(es))
      PROVE  x - p \in 1..Len(es) /\ es[x - p] = w[x]
  <2>1. x - p \in 1..Len(es) /\ p + (x - p) = x
    BY <1>1, <1>6
  <2>2. es[x - p] = w[p + (x - p)]
    BY <1>3, <2>1
  <2> QED
    BY <2>1, <2>2
<1>9. Begins(l, new)
  <2>1. ASSUME NEW x \in (p + 1)..(p + Len(es)), x <= Len(l) PROVE l[x].Term = es[x - p].Term
    <3>1. x \in 1..Len(l)
      BY <1>1, <1>6, <2>1
    <3> QED
      BY <1>7, <1>8, <3>1
  <2> QED
    BY <1>4, <2>1 DEF Begins
<1>10. ASSUME NEW x \in 1..Len(new) PROVE x <= Len(w) /\ new[x] = w[x]
  <2>1. CASE x <= Len(l) /\ new[x] = l[x]
    <3>1. x \in 1..Len(l) /\ x <= Len(w)
      BY <1>6, <1>7, <2>1
    <3> QED
      BY <1>7, <2>1, <3>1
  <2>2. CASE x - p \in 1..Len(es) /\ new[x] = es[x - p]
    <3>1. x \in (p + 1)..(p + Len(es)) /\ x <= Len(w)
      BY SMTT(30), <1>1, <1>3, <1>6, <2>2
    <3> QED
      BY <1>8, <2>2, <3>1
  <2> QED
    BY <1>4, <2>1, <2>2
<1>11. Begins(new, w)
  <2>1. Len(new) <= Len(w)
    <3>1. CASE Len(new) = 0
      BY <1>6, <3>1
    <3>2. CASE Len(new) # 0
      <4>1. Len(new) \in 1..Len(new)
        BY <1>6, <3>2
      <4> QED
        BY <1>10, <4>1
    <3> QED
      BY <3>1, <3>2
  <2> QED
    BY <1>10, <2>1 DEF Begins
<1> QED
  BY <1>1, <1>2, <1>4, <1>5, <1>9, <1>11, Zenon DEF l, w, new, p, es

\* In the first term no step takes an entry out of a log.
LEMMA LogsGrow ==
  ASSUME IndInv, OneLog, [Next]_vars, NEW i \in Server PROVE Begins(log[i], log'[i])
<1>0. TypeOK /\ log \in [Server -> Seq(Entry)]
  BY Zenon DEF IndInv, TypeOK
<1>a. Begins(log[i], log[i])
  BY <1>0 DEF Begins
<1>1. CASE UNCHANGED log
  BY <1>a, <1>1
<1>2. ASSUME NEW j \in Server, NEW s \in starting[j], Start(j, s)
      PROVE  Begins(log[i], log'[i])
  <2>1. CASE i = j
    <3>1. /\ log[j] \in Seq(Entry) /\ NewEntry(j, s) \in Entry
          /\ log'[j] = Append(log[j], NewEntry(j, s))
      BY <1>0, <1>2, StartLog
    <3>2. Begins(log[j], Append(log[j], NewEntry(j, s)))
      BY <3>1, BeginsAppend
    <3> QED
      BY <2>1, <3>1, <3>2
  <2>2. CASE i # j
    BY <1>0, <1>a, <1>2, <2>2, StartLog
  <2> QED
    BY <2>1, <2>2
<1>3. ASSUME NEW m \in appendReq, AppendMatch(m) PROVE Begins(log[i], log'[i])
  BY <1>a, <1>3, FirstMerge
<1> QED
  BY <1>1, <1>2, <1>3, LogStep

\* A call or heartbeat in flight still fits when the sender's log has grown.
LEMMA CarriesStays ==
  ASSUME NEW m \in AppendRequest, log[m.src] \in Seq(Entry), log'[m.src] \in Seq(Entry),
         Carries(m), Begins(log[m.src], log'[m.src])
  PROVE  Carries(m)'
<1> DEFINE l == log[m.src]
           new == log'[m.src]
           p == m.PrevLogIndex
           n == Len(m.Entries)
<1>1. /\ l \in Seq(Entry) /\ new \in Seq(Entry) /\ p \in Nat /\ n \in Nat
      /\ p + n <= Len(l) /\ \A k \in 1..n : m.Entries[k] = l[p + k]
      /\ Len(l) <= Len(new) /\ \A x \in 1..Len(l) : l[x] = new[x]
  BY DEF Carries, Begins, AppendRequest
<1> HIDE DEF l, new, p, n
<1>2. Len(l) \in Nat /\ Len(new) \in Nat
  BY <1>1
<1>3. p + n <= Len(new) /\ \A k \in 1..n : p + k \in 1..Len(l)
  BY <1>1, <1>2
<1>4. \A k \in 1..n : m.Entries[k] = new[p + k]
  BY <1>1, <1>3
<1> QED
  BY <1>3, <1>4 DEF Carries, l, new, p, n

\* Every step keeps one log: Start appends to the winner's, heartbeats carry
\* pieces of it.
LEMMA OneLogStep ==
  ASSUME OneTerm, IndInv, ElectionInv, OneMajorityPerTerm, OneLog, [Next]_vars,
         OneMajorityPerTerm'
  PROVE  OneLog'
<1>0. TypeOK /\ TypeOK' /\ LeadersWon
  BY NextInv DEF IndInv, ElectionInv
<1>1. /\ log \in [Server -> Seq(Entry)] /\ log' \in [Server -> Seq(Entry)]
      /\ appendReq \subseteq AppendRequest /\ appendReq' \subseteq AppendRequest
  BY <1>0 DEF TypeOK
<1>2. \A i \in Server : Winner(i) => Winner(i)'
  BY WinnerStays
<1>3. \A i, j \in Server : Winner(i) /\ Winner(j) => i = j
  BY <1>0, OneWinner
<1>4. \A i, j \in Server : Winner(i)' /\ Winner(j)' => i = j
  <2>1. ASSUME NEW k, Winner(k)' PROVE \E g \in grants' : g.cand = k /\ g.term = 1
    <3>0. grants' \subseteq Grant
      BY <1>0 DEF TypeOK
    <3>1. Voters(k, 1)' \subseteq Server
      <4>1. \A x \in grants' : x.voter \in Server
        BY <3>0 DEF Grant
      <4> QED
        BY <4>1 DEF Voters
    <3>2. IsFiniteSet(Voters(k, 1)') /\ Cardinality(Voters(k, 1)') \in Nat
      BY <3>1, ServerAssumption, FS_Subset, FS_CardinalityType
    <3>3. Cardinality(Voters(k, 1)') > 0
      BY <2>1, <3>2, MajorityPositive DEF Winner
    <3>4. Voters(k, 1)' # {}
      BY <3>3, FS_EmptySet
    <3> QED
      BY <3>4, Zenon DEF Voters
  <2> SUFFICES ASSUME NEW i \in Server, NEW j \in Server, Winner(i)', Winner(j)' PROVE i = j
    OBVIOUS
  <2>2. PICK g \in grants', h \in grants' : g.cand = i /\ g.term = 1 /\ h.cand = j /\ h.term = 1
    BY <2>1
  <2> QED
    BY <2>2 DEF OneMajorityPerTerm, Winner
<1>5. ASSUME NEW i \in Server, starting'[i] # {} PROVE Winner(i)'
  <2>1. starting[i] # {} \/ state[i] = Leader
    BY <1>5, StartingStep
  <2> QED
    BY <1>0, <1>2, <2>1 DEF OneLog, LeadersWon
<1>6. ASSUME NEW m \in appendReq' PROVE Winner(m.src)' /\ Carries(m)'
  <2>0. m.src \in Server /\ m \in AppendRequest
    BY <1>1 DEF AppendRequest
  <2>1. Winner(m.src) /\ Carries(m)
    <3>1. ASSUME NEW n \in appendReq, SameCall(m, n) PROVE Winner(m.src) /\ Carries(m)
      BY <3>1 DEF SameCall, OneLog, Carries
    <3>2. CASE Heartbeat(m)
      <4>1. m.PrevLogIndex \in 0..Len(log[m.src]) /\ log[m.src] \in Seq(Entry)
        BY <1>1, <2>0, <3>2 DEF Heartbeat
      <4>2. m.Entries = SubSeq(log[m.src], m.PrevLogIndex + 1, Len(log[m.src]))
        BY <3>2, Zenon DEF Heartbeat
      <4>3. Carries(m)
        <5> DEFINE l == log[m.src]
                   p == m.PrevLogIndex
        <5>1. l \in Seq(Entry) /\ p \in 0..Len(l) /\ m.Entries = SubSeq(l, p + 1, Len(l))
          BY <4>1, <4>2, Zenon
        <5> HIDE DEF l, p
        <5>2. Len(l) \in Nat /\ p \in Nat /\ p <= Len(l)
          BY <5>1
        <5>3. Len(m.Entries) = Len(l) - p /\ \A k \in 1..(Len(l) - p) : m.Entries[k] = l[p + k]
          BY <5>1, <5>2
        <5>4. p + Len(m.Entries) <= Len(l)
          BY <5>2, <5>3
        <5> QED
          BY <5>3, <5>4, Zenon DEF Carries, l, p
      <4> QED
        BY <1>0, <2>0, <3>2, <4>3 DEF LeadersWon, Heartbeat
    <3> QED
      BY <3>1, <3>2, CallStep
  <2>2. Begins(log[m.src], log'[m.src])
    BY <2>0, LogsGrow
  <2>3. log[m.src] \in Seq(Entry) /\ log'[m.src] \in Seq(Entry)
    BY <1>1, <2>0
  <2> QED
    BY <1>2, <2>0, <2>1, <2>2, <2>3, CarriesStays
<1>7. /\ \A i \in Server : log'[i] # <<>> => \E w \in Server : Winner(w)'
      /\ \A i, w \in Server : Winner(w)' => Begins(log'[i], log'[w])
  <2>1. CASE UNCHANGED log
    <3>1. CASE \E w \in Server : Winner(w)
      BY <1>2, <1>4, <2>1, <3>1 DEF OneLog
    <3>2. CASE ~\E w \in Server : Winner(w)
      <4>1. \A i \in Server : log'[i] = <<>>
        BY <2>1, <3>2 DEF OneLog
      <4> QED
        BY <4>1 DEF Begins
    <3> QED
      BY <3>1, <3>2
  <2>2. ASSUME NEW i \in Server, NEW s \in starting[i], Start(i, s)
        PROVE  /\ \A j \in Server : log'[j] # <<>> => \E w \in Server : Winner(w)'
               /\ \A j, w \in Server : Winner(w)' => Begins(log'[j], log'[w])
    <3>1. Winner(i) /\ Winner(i)'
      BY <1>2, <2>2 DEF OneLog
    <3>2. ASSUME NEW j \in Server PROVE Begins(log'[j], log'[i])
      <4>1. CASE j = i
        BY <1>1, <4>1 DEF Begins
      <4>2. CASE j # i
        <5>1. log'[j] = log[j] /\ Begins(log[j], log[i]) /\ Begins(log[i], log'[i])
          BY <1>0, <2>2, <3>1, <4>2, StartLog, LogsGrow, Zenon DEF OneLog
        <5>2. log[j] \in Seq(Entry) /\ log[i] \in Seq(Entry) /\ log'[i] \in Seq(Entry)
          BY <1>1
        <5> QED
          BY <5>1, <5>2, BeginsTransitive
      <4> QED
        BY <4>1, <4>2
    <3> QED
      BY <1>4, <3>1, <3>2, Zenon
  <2>3. ASSUME NEW m \in appendReq, AppendMatch(m)
        PROVE  /\ \A j \in Server : log'[j] # <<>> => \E w \in Server : Winner(w)'
               /\ \A j, w \in Server : Winner(w)' => Begins(log'[j], log'[w])
    <3>1. /\ m.src \in Server /\ m.dst \in Server /\ m.src # m.dst
          /\ Begins(log'[m.dst], log[m.src])
          /\ \A j \in Server \ {m.dst} : log'[j] = log[j]
      BY <2>3, FirstMerge
    <3>2. Winner(m.src) /\ Winner(m.src)'
      BY <1>2, <3>1 DEF OneLog
    <3>3. ASSUME NEW j \in Server PROVE Begins(log'[j], log'[m.src])
      BY <3>1, <3>2 DEF OneLog
    <3> QED
      BY <1>4, <3>1, <3>2, <3>3, Zenon
  <2> QED
    BY <2>1, <2>2, <2>3, LogStep, Zenon
<1> QED
  BY <1>5, <1>6, <1>7 DEF OneLog

\* In the first term the logs of all peers are prefixes of one log, the winner's.
LEMMA OneLogInvariance == ASSUME OneTerm PROVE Spec => []OneLog
<1>1. Init => OneLog
  <2> SUFFICES ASSUME Init PROVE OneLog
    BY Zenon
  <2>1. /\ log = [i \in Server |-> Fresh.log] /\ starting = [i \in Server |-> {}]
        /\ appendReq = {}
    BY Zenon DEF Init
  <2>2. Fresh.log = <<>>
    BY DEF Fresh
  <2>3. \A i \in Server : log[i] = <<>> /\ starting[i] = {}
    BY <2>1, <2>2, Zenon
  <2>4. Begins(<<>>, <<>>)
    BY DEF Begins
  <2> QED
    BY <2>1, <2>3, <2>4, Zenon DEF OneLog
<1>2. /\ IndInv /\ ElectionInv /\ OneMajorityPerTerm /\ OneLog /\ [Next]_vars
      /\ OneMajorityPerTerm'
      => OneLog'
  BY OneLogStep
<1> QED
  BY <1>1, <1>2, Invariance, ElectionInvariance, OneMajority, PTL DEF Spec

----------------------------------------------------------------------------
(* Replication and commitment.                                             *)

\* a majority of the logs has an entry k
Held(k) == IsMajority(Cardinality({j \in Server : k <= Len(log[j])}))

\* what leaders know of the other logs and what is committed, in replies and in
\* heartbeats too
Progress ==
  /\ \A r \in appendRep : r.Success => r.prev + r.sent <= Len(log[r.dst])
  /\ \A i, j \in Server : matchIndex[i][j] <= Len(log[j])
  /\ \A i \in Server : /\ commitIndex[i] <= Len(log[i])
                       /\ commitIndex[i] > 0 => Held(commitIndex[i])
  /\ \A m \in appendReq : m.LeaderCommit > 0 => Held(m.LeaderCommit)

\* Entries that a majority holds are held when logs have grown, and so are the
\* ones before them.
LEMMA HeldStays ==
  ASSUME log \in [Server -> Seq(Entry)], log' \in [Server -> Seq(Entry)],
         \A j \in Server : Len(log[j]) <= Len(log'[j]),
         NEW k \in Nat, NEW n \in Nat, n <= k, Held(k)
  PROVE  Held(n)'
<1> DEFINE A == {j \in Server : k <= Len(log[j])}
           B == {j \in Server : n <= Len(log'[j])}
<1>1. A \subseteq B
  <2> SUFFICES ASSUME NEW j \in Server, k <= Len(log[j]) PROVE n <= Len(log'[j])
    OBVIOUS
  <2>1. log[j] \in Seq(Entry) /\ log'[j] \in Seq(Entry)
    OBVIOUS
  <2>2. Len(log[j]) \in Nat /\ Len(log'[j]) \in Nat /\ Len(log[j]) <= Len(log'[j])
    BY <2>1
  <2> QED
    BY <2>2
<1>2. IsMajority(Cardinality(A))
  BY DEF Held
<1> HIDE DEF A
<1>3. IsMajority(Cardinality(B))
  BY <1>1, <1>2, MajorityGrows
<1> QED
  BY <1>3 DEF Held

\* The entry the commit rule picks is held by the majority the rule asks for.
LEMMA CommitHeld ==
  ASSUME TypeOK, Progress, NEW i \in Server, NEW n \in Nat, CanCommit(i, n)
  PROVE  Held(n)
<1> DEFINE A == Ahead(i)
           B == {j \in Server : n <= Len(log[j])}
<1>1. /\ matchIndex \in [Server -> [Server -> Nat]] /\ log \in [Server -> Seq(Entry)]
  BY DEF TypeOK
<1>2. A \subseteq B
  <2> SUFFICES ASSUME NEW j \in A PROVE j \in Server /\ n <= Len(log[j])
    OBVIOUS
  <2>1. j \in Server /\ n <= matchIndex[i][j]
    BY DEF CanCommit, Ahead
  <2>2. log[j] \in Seq(Entry) /\ matchIndex[i][j] \in Nat /\ matchIndex[i][j] <= Len(log[j])
    BY <1>1, <2>1 DEF Progress
  <2>3. Len(log[j]) \in Nat
    BY <2>2
  <2>4. \A a, b, c \in Nat : a <= b /\ b <= c => a <= c
    OBVIOUS
  <2> QED
    BY <2>1, <2>2, <2>3, <2>4, Zenon
<1>3. IsMajority(Cardinality(A))
  BY DEF CanCommit
<1> HIDE DEF A
<1>4. IsMajority(Cardinality(B))
  BY <1>2, <1>3, MajorityGrows
<1> QED
  BY <1>4 DEF Held

\* Every step keeps it: a follower acknowledges what it has, a leader commits
\* what a majority has acknowledged.
LEMMA ProgressStep ==
  ASSUME IndInv, OneLog, Progress, [Next]_vars PROVE Progress'
<1>0. TypeOK /\ TypeOK' /\ OwnMatchInLog /\ OwnMatchInLog'
  BY NextInv DEF IndInv, LogInv
<1>1. /\ log \in [Server -> Seq(Entry)] /\ log' \in [Server -> Seq(Entry)]
      /\ matchIndex \in [Server -> [Server -> Nat]]
      /\ commitIndex \in [Server -> Nat] /\ commitIndex' \in [Server -> Nat]
      /\ appendReq \subseteq AppendRequest /\ appendRep \subseteq AppendReply
      /\ appendReq' \subseteq AppendRequest
  BY SMTT(30), <1>0 DEF TypeOK
<1>2. \A j \in Server : /\ Len(log[j]) \in Nat /\ Len(log'[j]) \in Nat
                        /\ Len(log[j]) <= Len(log'[j])
  <2> TAKE j \in Server
  <2>1. log[j] \in Seq(Entry) /\ log'[j] \in Seq(Entry)
    BY <1>1
  <2>2. \A l \in Seq(Entry) : Len(l) \in Nat
    OBVIOUS
  <2>3. Begins(log[j], log'[j])
    BY LogsGrow, Zenon
  <2> QED
    BY <2>1, <2>2, <2>3, Zenon DEF Begins
<1>3. ASSUME NEW k \in Nat, NEW n \in Nat, n <= k, Held(k) PROVE Held(n)'
  BY <1>1, <1>2, <1>3, HeldStays
<1>4. ASSUME NEW r \in appendRep, r.Success
      PROVE  /\ r.dst \in Server /\ r.prev + r.sent \in Nat
             /\ r.prev + r.sent <= Len(log[r.dst]) /\ r.prev + r.sent <= Len(log'[r.dst])
  <2>1. r.dst \in Server /\ r.prev \in Nat /\ r.sent \in Nat
    BY SMTT(30), <1>1 DEF AppendReply
  <2>2. r.prev + r.sent <= Len(log[r.dst])
    BY <1>4 DEF Progress
  <2> QED
    BY <1>2, <2>1, <2>2
<1>5. ASSUME NEW r \in appendRep', r.Success PROVE r.prev + r.sent <= Len(log'[r.dst])
  <2>1. CASE r \in appendRep
    BY <1>4, <1>5, <2>1
  <2>2. ASSUME NEW m \in appendReq, AppendMatch(m), r.dst = m.dst,
               r.prev + r.sent = m.PrevLogIndex + Len(m.Entries)
        PROVE  r.prev + r.sent <= Len(log'[r.dst])
    BY <2>2, FirstMerge
  <2> QED
    BY <1>5, <2>1, <2>2, ReplyStep
<1>6. ASSUME NEW i \in Server, NEW j \in Server PROVE matchIndex'[i][j] <= Len(log'[j])
  <2>1. CASE i = j
    BY <1>0, <2>1 DEF OwnMatchInLog
  <2>2. CASE i # j
    <3>1. CASE matchIndex'[i][j] \in {0, matchIndex[i][j]}
      <4>1. matchIndex[i][j] \in Nat /\ matchIndex[i][j] <= Len(log[j])
        BY <1>1 DEF Progress
      <4> QED
        BY <1>2, <3>1, <4>1
    <3>2. ASSUME NEW r \in appendRep, r.Success, r.dst = j, matchIndex'[i][j] = r.prev + r.sent
          PROVE  matchIndex'[i][j] <= Len(log'[j])
      BY <1>4, <3>2
    <3> QED
      BY <2>2, <3>1, <3>2, MatchStep
  <2> QED
    BY <2>1, <2>2
<1>7. ASSUME NEW i \in Server
      PROVE  /\ commitIndex'[i] <= Len(log'[i])
             /\ (commitIndex[i] > 0 => Held(commitIndex[i]))'
  <2>a. PICK c \in Nat : c = commitIndex'[i]
    BY <1>1
  <2>0. c \in Nat /\ commitIndex[i] \in Nat
    BY <1>1
  <2>b. SUFFICES c <= Len(log'[i]) /\ (c > 0 => Held(c)')
    BY <2>a DEF Held
  <2>1. CASE c = 0
    BY <1>2, <2>1
  <2>2. CASE c = commitIndex[i]
    <3>1. commitIndex[i] <= Len(log[i]) /\ (commitIndex[i] > 0 => Held(commitIndex[i]))
      BY DEF Progress
    <3>2. c <= Len(log'[i])
      BY <1>2, <2>0, <2>2, <3>1
    <3>3. c > 0 => Held(c)'
      BY <1>3, <2>0, <2>2, <3>1
    <3> QED
      BY <3>2, <3>3
  <2>3. ASSUME NEW n \in {matchIndex[i][j] : j \in Ahead(i)}, CanCommit(i, n), c = n
        PROVE  c <= Len(log'[i]) /\ Held(c)'
    <3>1. n \in Nat /\ n <= Len(log[i])
      BY <1>0, <2>3, CommitInLog
    <3>2. Held(n)
      BY <1>0, <2>3, <3>1, CommitHeld
    <3>3. c <= Len(log'[i])
      BY <1>2, <2>3, <3>1
    <3> QED
      BY <1>3, <2>3, <3>1, <3>2, <3>3
  <2>4. ASSUME NEW m \in appendReq, c > 0, c <= m.LeaderCommit, c <= Len(log'[i])
        PROVE  c <= Len(log'[i]) /\ Held(c)'
    <3>1. m.LeaderCommit \in Nat /\ (m.LeaderCommit > 0 => Held(m.LeaderCommit))
      BY <1>1, Zenon DEF Progress, AppendRequest
    <3>2. m.LeaderCommit > 0
      BY <2>0, <2>4, <3>1
    <3> QED
      BY <1>3, <2>0, <2>4, <3>1, <3>2
  <2> QED
    BY <2>a, <2>1, <2>2, <2>3, <2>4, CommitStep
<1>8. ASSUME NEW m \in appendReq', m.LeaderCommit > 0 PROVE Held(m.LeaderCommit)'
  <2>0. m.LeaderCommit \in Nat
    BY <1>1 DEF AppendRequest
  <2>1. Held(m.LeaderCommit)
    <3>1. ASSUME NEW n \in appendReq, SameCall(m, n) PROVE Held(m.LeaderCommit)
      BY <1>8, <3>1 DEF SameCall, Progress
    <3>2. CASE Heartbeat(m) /\ m.src \in Server
      BY <1>8, <3>2 DEF Heartbeat, Progress
    <3> QED
      BY <3>1, <3>2, CallStep
  <2> QED
    BY <1>3, <2>0, <2>1
<1> QED
  BY <1>5, <1>6, <1>7, <1>8 DEF Progress

\* In the first term leaders know what the others hold, and what is committed is
\* held by a majority.
LEMMA ProgressInvariance == ASSUME OneTerm PROVE Spec => []Progress
<1>1. Init => Progress
  <2> SUFFICES ASSUME Init PROVE Progress
    OBVIOUS
  <2>1. \A i \in Server : log[i] = <<>> /\ commitIndex[i] = 0
    BY DEF Init, Fresh
  <2>2. \A i, j \in Server : matchIndex[i][j] = 0
    BY DEF Init, FreshMatch
  <2>3. appendReq = {} /\ appendRep = {}
    BY DEF Init
  <2> QED
    BY <2>1, <2>2, <2>3 DEF Progress
<1>2. IndInv /\ OneLog /\ Progress /\ [Next]_vars => Progress'
  BY ProgressStep
<1> QED
  BY <1>1, <1>2, Invariance, OneLogInvariance, PTL DEF Spec

\* As long as no second term is opened, what a leader believes a peer to have is
\* on that peer's disk.
THEOREM MatchDurable == ASSUME OneTerm PROVE Spec => []MatchIsDurable
<1>1. ASSUME IndInv, ElectionInv, OneLog, Progress PROVE MatchIsDurable
  <2> SUFFICES ASSUME NEW i \in Server, NEW j \in Server, state[i] = Leader
               PROVE  /\ matchIndex[i][j] <= Len(raftstate[j].log)
                      /\ \A k \in 1..matchIndex[i][j] : raftstate[j].log[k] = log[i][k]
    BY DEF MatchIsDurable
  <2>1. raftstate[j].log = log[j]
    <3>1. raftstate[j] = [log |-> log[j], currentTerm |-> currentTerm[j],
                          votedFor |-> votedFor[j]]
      BY <1>1 DEF IndInv, PersistedIsCurrent
    <3> QED
      BY <3>1
  <2>2. /\ log[j] \in Seq(Entry) /\ matchIndex[i][j] \in Nat
        /\ matchIndex[i][j] <= Len(log[j]) /\ Begins(log[j], log[i])
    BY <1>1 DEF IndInv, TypeOK, ElectionInv, LeadersWon, OneLog, Progress
  <2>3. \A k \in 1..matchIndex[i][j] : k \in 1..Len(log[j])
    <3>1. \A m, n \in Nat : m <= n => \A k \in 1..m : k \in 1..n
      OBVIOUS
    <3>2. \A s \in Seq(Entry) : Len(s) \in Nat
      OBVIOUS
    <3> QED
      BY <2>2, <3>1, <3>2, Zenon
  <2> QED
    BY <2>1, <2>2, <2>3 DEF Begins
<1>2. IndInv /\ ElectionInv /\ OneLog /\ Progress => MatchIsDurable
  BY <1>1
<1> QED
  BY <1>2, Invariance, ElectionInvariance, OneLogInvariance, ProgressInvariance, PTL

\* As long as no second term is opened, a committed entry is on the disks of a
\* majority, and stays there through crashes.
THEOREM CommittedDurable == ASSUME OneTerm PROVE Spec => []CommittedOnMajority
<1>1. ASSUME IndInv, OneLog, Progress PROVE CommittedOnMajority
  <2> SUFFICES ASSUME NEW i \in Server, NEW k \in 1..commitIndex[i]
               PROVE  IsMajority(Cardinality({j \in Server : k <= Len(raftstate[j].log)
                                                /\ raftstate[j].log[k] = log[i][k]}))
    BY Zenon DEF CommittedOnMajority
  <2> DEFINE A == {j \in Server : commitIndex[i] <= Len(log[j])}
             B == {j \in Server : k <= Len(raftstate[j].log)
                                  /\ raftstate[j].log[k] = log[i][k]}
  <2>1. /\ commitIndex[i] \in Nat /\ log \in [Server -> Seq(Entry)]
        /\ \A j \in Server : raftstate[j].log = log[j]
        /\ commitIndex[i] <= Len(log[i]) /\ (commitIndex[i] > 0 => Held(commitIndex[i]))
    BY <1>1 DEF IndInv, TypeOK, PersistedIsCurrent, Progress
  <2>2. \A j \in Server : Len(log[j]) \in Nat
    BY <2>1
  <2>3. commitIndex[i] > 0 /\ k \in 1..Len(log[i])
    BY <2>1, <2>2
  <2>4. PICK w \in Server : Winner(w)
    <3>1. log[i] # <<>>
      BY <2>3
    <3> QED
      BY <1>1, <3>1 DEF OneLog
  <2>5. A \subseteq B
    <3> SUFFICES ASSUME NEW j \in Server, commitIndex[i] <= Len(log[j])
                 PROVE  k <= Len(raftstate[j].log) /\ raftstate[j].log[k] = log[i][k]
      OBVIOUS
    <3>1. k \in 1..Len(log[j]) /\ k <= Len(log[j])
      BY <2>1, <2>2
    <3>2. log[j][k] = log[w][k] /\ log[i][k] = log[w][k]
      BY <1>1, <2>3, <2>4, <3>1 DEF OneLog, Begins
    <3> QED
      BY <2>1, <3>1, <3>2
  <2>6. IsMajority(Cardinality(A))
    BY <2>1, <2>3 DEF Held
  <2> HIDE DEF A
  <2>7. IsMajority(Cardinality(B))
    BY <2>5, <2>6, MajorityGrows
  <2> QED
    BY <2>7, Zenon
<1>2. IndInv /\ OneLog /\ Progress => CommittedOnMajority
  BY <1>1
<1> QED
  BY <1>2, Invariance, OneLogInvariance, ProgressInvariance, PTL

----------------------------------------------------------------------------
(* What the services receive.                                              *)

InLog(i, e) == \E x \in 1..Len(log[i]) : e = log[i][x]

\* an ApplyMsg is about an entry of a log
FromLog(p) ==
  \E i \in Server : p[1] \in 1..Len(log[i]) /\ p[2] = log[i][p[1]].Command

\* the appliers hold entries of their peer's log, and have sent no others
Applying ==
  /\ \A i \in Server : \A g \in applying[i] : \A k \in 1..Len(g.entries) : InLog(i, g.entries[k])
  /\ \A p \in delivered : FromLog(p)

\* Every step keeps it, the race on the shared slice included: in the first term
\* what is in the array does not change.
LEMMA ApplyingStep ==
  ASSUME IndInv, OneLog, Applying, [Next]_vars PROVE Applying'
<1>0. TypeOK /\ LogInv /\ TypeOK'
  BY NextInv DEF IndInv
<1>1. /\ log \in [Server -> Seq(Entry)] /\ log' \in [Server -> Seq(Entry)]
      /\ applying \in [Server -> SUBSET Applier] /\ lastApplied \in [Server -> Nat]
      /\ commitIndex' \in [Server -> Nat]
  BY <1>0 DEF TypeOK
<1>2. \A j \in Server : /\ Len(log[j]) \in Nat /\ Len(log'[j]) \in Nat
                        /\ \A x \in 1..Len(log[j]) : x \in 1..Len(log'[j]) /\ log'[j][x] = log[j][x]
  <2> TAKE j \in Server
  <2>1. Len(log[j]) \in Nat /\ Len(log'[j]) \in Nat
    BY <1>1
  <2>2. Len(log[j]) <= Len(log'[j]) /\ \A x \in 1..Len(log[j]) : log[j][x] = log'[j][x]
    BY LogsGrow DEF Begins
  <2> QED
    BY <2>1, <2>2
<1>3. \A j \in Server : \A e : InLog(j, e) => InLog(j, e)'
  BY <1>2 DEF InLog
<1>4. \A p : FromLog(p) => FromLog(p)'
  BY <1>2 DEF FromLog
<1> DEFINE Good(j, g) == \A k \in 1..Len(g.entries) : InLog(j, g.entries[k])'
<1>a. \A j \in Server : \A g \in applying[j] : Good(j, g)
  BY <1>3 DEF Applying
<1>5. SUFFICES /\ \A j \in Server : \A g \in applying'[j] : g \notin applying[j] => Good(j, g)
               /\ \A p \in delivered' : p \notin delivered => FromLog(p)'
  BY <1>4, <1>a DEF Applying
<1>6. CASE UNCHANGED <<applying, delivered>>
  BY <1>6
<1>7. ASSUME NEW i \in Server, Restart(i)
      PROVE  (\A j \in Server : applying'[j] \subseteq applying[j]) /\ UNCHANGED delivered
  <2>1. applying' = [applying EXCEPT ![i] = {}] /\ UNCHANGED delivered
    BY <1>7, Zenon DEF Restart
  <2> QED
    BY <1>1, <2>1
<1>8. ASSUME NEW i \in Server, NEW g \in applying[i]
      PROVE  /\ g \in Applier /\ g.entries \in Seq(Entry) /\ Len(g.entries) >= 1
             /\ Len(g.entries) \in Nat /\ Head(g.entries) = g.entries[1]
  <2>0. Len(g.entries) >= 1 /\ applying[i] \in SUBSET Applier
    BY <1>0, <1>1, Zenon DEF LogInv, AppliersContiguous
  <2>1. g \in Applier /\ g.entries \in Seq(Entry) /\ Len(g.entries) >= 1
    BY <2>0 DEF Applier
  <2> QED
    BY <2>1
<1>9. ASSUME NEW i \in Server, NEW g \in applying[i], ApplySend(i, g)
      PROVE  /\ \A j \in Server : \A f \in applying'[j] : f \notin applying[j] => Good(j, f)
             /\ \A p \in delivered' : p \notin delivered => FromLog(p)'
  <2> DEFINE h == [g EXCEPT !.sent = TRUE]
  <2>1. h.entries = g.entries
    BY <1>8 DEF Applier
  <2>2. Good(i, h)
    BY <1>a, <2>1
  <2> HIDE DEF h
  <2>3. applying' = [applying EXCEPT ![i] = (@ \ {g}) \cup {h}]
    BY <1>9 DEF ApplySend, h
  <2>4. \A j \in Server : \A f \in applying'[j] : f \notin applying[j] => Good(j, f)
    <3>1. \A j \in Server : \A f \in applying'[j] : f \notin applying[j] => j = i /\ f = h
      BY <1>1, <2>3
    <3> QED
      BY <2>2, <3>1
  <2>5. PICK e \in SliceRead(i, Head(g.entries)) : Deliver(i, e)
    BY <1>9 DEF ApplySend
  <2>6. InLog(i, e)
    <3>1. 1 \in 1..Len(g.entries)
      BY <1>8
    <3>2. InLog(i, Head(g.entries))
      BY <1>8, <3>1, Zenon DEF Applying
    <3> QED
      BY <2>5, <3>2 DEF SliceRead, InLog
  <2>7. PICK x \in 1..Len(log[i]) : e = log[i][x]
    BY <2>6 DEF InLog
  <2>8. e.Index = x
    BY <1>0, <2>7, Zenon DEF LogInv, IndexIsPosition
  <2>9. FromLog(<<x, e.Command>>)
    BY <2>7 DEF FromLog
  <2>10. delivered' = delivered \cup {<<x, e.Command>>}
    BY <2>5, <2>8 DEF Deliver
  <2> QED
    BY <1>4, <2>4, <2>9, <2>10
<1>10. ASSUME NEW i \in Server, NEW g \in applying[i], ApplyDone(i, g)
       PROVE  /\ \A j \in Server : \A f \in applying'[j] : f \notin applying[j] => Good(j, f)
              /\ UNCHANGED delivered
  <2> DEFINE es == g.entries
             h == [entries |-> Tail(es), sent |-> FALSE]
  <2>0. es \in Seq(Entry) /\ Len(es) >= 1 /\ Len(es) \in Nat
    BY <1>8
  <2>1. Good(i, h)
    <3>1. h.entries = Tail(es)
      OBVIOUS
    <3>2. /\ Len(Tail(es)) = Len(es) - 1
          /\ \A k \in 1..(Len(es) - 1) : k + 1 \in 1..Len(es) /\ Tail(es)[k] = es[k + 1]
      <4> HIDE DEF es
      <4> QED
        BY <2>0
    <3>3. \A k \in 1..Len(es) : InLog(i, es[k])'
      BY <1>a
    <3> HIDE DEF es, h
    <3> QED
      BY <3>1, <3>2, <3>3
  <2> HIDE DEF h
  <2>2. /\ applying' = [applying EXCEPT ![i] = (@ \ {g}) \cup IF Len(es) = 1 THEN {} ELSE {h}]
        /\ UNCHANGED delivered
    BY <1>10 DEF ApplyDone, h, history
  <2>3. \A j \in Server : \A f \in applying'[j] : f \notin applying[j] => j = i /\ f = h
    BY <1>1, <2>2
  <2> QED
    BY <2>1, <2>2, <2>3
<1>11. ASSUME NEW i \in Server, sendApplyMsg(i),
              commitIndex'[i] > lastApplied[i] => commitIndex'[i] <= Len(log'[i])
       PROVE  \A j \in Server : \A f \in applying'[j] : f \notin applying[j] => Good(j, f)
  <2>0. PICK l \in Seq(Entry), a \in Nat, c \in Nat :
          l = log'[i] /\ a = lastApplied[i] /\ c = commitIndex'[i]
    BY <1>1
  <2> DEFINE es == SubSeq(l, a + 1, c)
             h == [entries |-> es, sent |-> FALSE]
  <2>1. CASE c <= a
    BY <1>11, <2>0, <2>1, Zenon DEF sendApplyMsg
  <2>2. CASE c > a
    <3>0. c <= Len(l)
      BY <1>11, <2>0, <2>2
    <3>1. applying' = [applying EXCEPT ![i] = @ \cup {h}]
      BY <1>11, <2>0, <2>2 DEF sendApplyMsg
    <3>2. h.entries = es
      OBVIOUS
    <3>3. Len(es) = c - a /\ \A k \in 1..(c - a) : a + k \in 1..Len(l) /\ es[k] = l[a + k]
      BY <2>2, <3>0
    <3>4. \A x \in 1..Len(l) : InLog(i, l[x])'
      BY <2>0 DEF InLog
    <3> HIDE DEF es, h
    <3>5. Good(i, h)
      BY <3>2, <3>3, <3>4
    <3>6. \A j \in Server : \A f \in applying'[j] : f \notin applying[j] => j = i /\ f = h
      BY <1>1, <3>1
    <3> HIDE DEF Good
    <3> QED
      BY <3>5, <3>6, Zenon
  <2>3. c <= a \/ c > a
    BY <2>0
  <2> HIDE DEF Good
  <2> QED
    BY <2>1, <2>2, <2>3, Zenon
<1> HIDE DEF Good
<1> QED
  BY <1>6, <1>7, <1>9, <1>10, <1>11, ApplierStep, Zenon

\* As long as no second term is opened, no two services, nor one before and after
\* its restart, receive different commands for an index.
THEOREM SameCommands == ASSUME OneTerm PROVE Spec => []StateMachineSafety
<1>1. Init => Applying
  BY Zenon DEF Init, Applying
<1>2. IndInv /\ OneLog /\ Applying /\ [Next]_vars => Applying'
  BY ApplyingStep
<1>3. ASSUME IndInv, OneLog, Applying PROVE StateMachineSafety
  <2> SUFFICES ASSUME NEW p \in delivered, NEW q \in delivered, p[1] = q[1] PROVE p = q
    BY DEF StateMachineSafety
  <2>1. p \in Nat \X Command /\ q \in Nat \X Command
    BY <1>3 DEF IndInv, TypeOK
  <2>2. PICK i \in Server : p[1] \in 1..Len(log[i]) /\ p[2] = log[i][p[1]].Command
    BY <1>3 DEF Applying, FromLog
  <2>3. PICK j \in Server : q[1] \in 1..Len(log[j]) /\ q[2] = log[j][q[1]].Command
    BY <1>3 DEF Applying, FromLog
  <2>4. PICK w \in Server : Winner(w)
    <3>1. log[i] # <<>>
      BY <2>2
    <3> QED
      BY <1>3, <3>1 DEF OneLog
  <2>5. log[i][p[1]] = log[w][p[1]] /\ log[j][q[1]] = log[w][q[1]]
    BY <1>3, <2>2, <2>3, <2>4 DEF OneLog, Begins
  <2>6. p[2] = q[2]
    BY <2>2, <2>3, <2>5
  <2> QED
    BY <2>1, <2>6
<1>4. IndInv /\ OneLog /\ Applying => StateMachineSafety
  BY <1>3
<1> QED
  BY <1>1, <1>2, <1>4, Invariance, OneLogInvariance, PTL DEF Spec

============================================================================
