---------------------------- MODULE RaftProofs -----------------------------
(***************************************************************************)
(* The inductive invariant of Raft.tla, the proof that every step keeps it,*)
(* and what follows from it: the theorems about types, persistence,        *)
(* indices, matchIndex and the order of delivery, for every set of peers,  *)
(* commands and elections.  Then what a step can do to each part of the    *)
(* state, and the votes: the peers implement Voting, a peer votes once per *)
(* term, and one candidate at most has the votes of a majority in a term.  *)
(***************************************************************************)
EXTENDS Raft, RaftLogProofs, FiniteSetTheorems

\* the applier goroutines hold non-empty slices of consecutive entries
AppliersContiguous ==
  \A i \in Server : \A g \in applying[i] :
    /\ Len(g.entries) >= 1
    /\ \A k \in 1..Len(g.entries) : g.entries[k].Index = g.entries[1].Index + k - 1

\* an AppendEntries whose entries start at index 1 names the dummy entry
HeadersOK ==
  \A m \in appendReq : m.PrevLogIndex = 0 => m.PrevLogTerm = 0

\* the heartbeat loop skips the peer itself
NoSelfCalls ==
  \A m \in appendReq \cup appendRep : m.src # m.dst

\* the invariants about logs and the goroutines that hold parts of them
LogInv ==
  /\ IndexIsPosition /\ OwnMatchInLog /\ AppliersContiguous
  /\ HeadersOK /\ NoSelfCalls

IndInv == TypeOK /\ PersistedIsCurrent /\ LogInv

----------------------------------------------------------------------------
(* Facts used for many actions.                                            *)

\* r is what persist() saves of l, t and v, and what its fields are then
IsPersisted(r, l, t, v) == r = [log |-> l, currentTerm |-> t, votedFor |-> v]
PersistedFields(r, l, t, v) == r.log = l /\ r.currentTerm = t /\ r.votedFor = v

\* The fields of what persist() saves.
LEMMA Persisted ==
  \A r, l, t, v : IsPersisted(r, l, t, v) => PersistedFields(r, l, t, v)
BY DEF IsPersisted, PersistedFields

\* LogInv speaks of five variables only.
LEMMA LogFrame ==
  ASSUME LogInv, UNCHANGED <<log, matchIndex, applying, appendReq, appendRep>>
  PROVE  LogInv'
BY DEF LogInv, IndexIsPosition, OwnMatchInLog, AppliersContiguous, HeadersOK, NoSelfCalls

\* persist() at the end of a critical section of peer i restores
\* PersistedIsCurrent.
LEMMA PersistFrame ==
  ASSUME TypeOK, PersistedIsCurrent, NEW i \in Server, persist(i),
         currentTerm' \in [Server -> Nat], log' \in [Server -> Seq(Entry)],
         votedFor' \in [Server -> Server \cup {Nil}],
         \A j \in Server \ {i} : /\ currentTerm'[j] = currentTerm[j]
                                 /\ log'[j] = log[j]
                                 /\ votedFor'[j] = votedFor[j]
  PROVE  PersistedIsCurrent' /\ raftstate' \in [Server -> Persistent]
<1>1. raftstate \in [Server -> Persistent]
  BY DEF TypeOK
<1>2. [log |-> log'[i], currentTerm |-> currentTerm'[i], votedFor |-> votedFor'[i]]
        \in Persistent
  BY DEF Persistent
<1>3. raftstate' \in [Server -> Persistent]
  BY <1>1, <1>2 DEF persist
<1>4. ASSUME NEW j \in Server
      PROVE  raftstate'[j] = [log |-> log'[j], currentTerm |-> currentTerm'[j],
                              votedFor |-> votedFor'[j]]
  <2>1. CASE j = i
    BY <1>1, <2>1 DEF persist
  <2>2. CASE j # i
    BY <1>1, <2>2, Zenon DEF persist, PersistedIsCurrent
  <2> QED
    BY <2>1, <2>2
<1> QED
  BY <1>3, <1>4 DEF PersistedIsCurrent

----------------------------------------------------------------------------
(* IndInv holds initially and is preserved, action by action.              *)

\* The state Make builds satisfies the invariant.
LEMMA InitInv == Init => IndInv
<1> SUFFICES ASSUME Init PROVE IndInv
  OBVIOUS
<1> USE DEF Init, Fresh, FreshNext, FreshMatch
<1>1. TypeOK
  BY DEF TypeOK, Persistent, States, Follower
<1>2. PersistedIsCurrent
  BY DEF PersistedIsCurrent
<1>3. LogInv
  BY DEF LogInv, IndexIsPosition, OwnMatchInLog, AppliersContiguous, HeadersOK, NoSelfCalls
<1> QED
  BY <1>1, <1>2, <1>3 DEF IndInv

\* A stuttering step preserves it.
LEMMA StutterInv == ASSUME IndInv, UNCHANGED vars PROVE IndInv'
<1> USE DEF IndInv, vars, election, logs, calls, network, history
<1>1. TypeOK'
  BY DEF TypeOK
<1>2. PersistedIsCurrent'
  BY DEF PersistedIsCurrent
<1> QED
  BY <1>1, <1>2, LogFrame

\* Run only moves its own program counter.
LEMMA RunInv ==
  ASSUME IndInv, NEW i \in Server, Run(i) PROVE IndInv'
<1> USE DEF IndInv, Run, election, logs, calls, network, history
<1>1. TypeOK'
  BY Zenon DEF TypeOK
<1>2. PersistedIsCurrent'
  BY DEF PersistedIsCurrent
<1> QED
  BY <1>1, <1>2, LogFrame

\* runFollower and runCandidate change the state of the peer, nothing else.
LEMMA CandidacyInv ==
  ASSUME IndInv, NEW i \in Server, runFollower(i) \/ runCandidate(i) PROVE IndInv'
<1> USE DEF runFollower, runCandidate, logs, calls, network, history
<1>1. TypeOK'
  BY Zenon DEF IndInv, TypeOK, States, Candidate, Leader
<1>2. UNCHANGED <<currentTerm, votedFor, raftstate, log, matchIndex, applying, appendReq,
                  appendRep>>
  OBVIOUS
<1>3. PersistedIsCurrent'
  BY <1>2 DEF IndInv, PersistedIsCurrent
<1> QED
  BY <1>1, <1>2, <1>3, LogFrame DEF IndInv

\* startElection saves the term and the vote it has just set.
LEMMA StartElectionInv ==
  ASSUME IndInv, NEW i \in Server, startElection(i) PROVE IndInv'
<1>0. TypeOK /\ PersistedIsCurrent /\ LogInv
  BY DEF IndInv
<1>1. /\ currentTerm \in [Server -> Nat] /\ votedFor \in [Server -> Server \cup {Nil}]
      /\ voteCount \in [Server -> Nat] /\ grants \subseteq Grant /\ asking \subseteq VoteCall
      /\ pc \in [Server -> {"loop", "elect", "candidate", "tally", "leader"}]
  BY <1>0 DEF TypeOK
<1>2. /\ currentTerm' \in [Server -> Nat]
      /\ votedFor' \in [Server -> Server \cup {Nil}]
      /\ voteCount' \in [Server -> Nat]
      /\ pc' \in [Server -> {"loop", "elect", "candidate", "tally", "leader"}]
  BY <1>1 DEF startElection
<1>3. grants' \subseteq Grant
  BY <1>1 DEF startElection, Grant
<1>4. asking' \subseteq VoteCall
  BY <1>1 DEF startElection, VoteCall
<1>5. UNCHANGED <<state, log, commitIndex, lastApplied, nextIndex, matchIndex, starting,
                  applying, voteReq, voteRep, appendReq, appendRep, submitted, applied, delivered>>
  BY DEF startElection, logs, network
<1>6. PersistedIsCurrent' /\ raftstate' \in [Server -> Persistent]
  <2>1. log' \in [Server -> Seq(Entry)]
    BY <1>0, <1>5 DEF TypeOK
  <2>2. \A j \in Server \ {i} : /\ currentTerm'[j] = currentTerm[j] /\ log'[j] = log[j]
                                /\ votedFor'[j] = votedFor[j]
    BY <1>1, <1>5 DEF startElection
  <2>3. persist(i)
    BY DEF startElection
  <2> QED
    BY <1>0, <1>2, <2>1, <2>2, <2>3, PersistFrame, Zenon
<1>7. TypeOK'
  BY SMTT(30), <1>0, <1>2, <1>3, <1>4, <1>5, <1>6 DEF TypeOK
<1> QED
  BY <1>0, <1>5, <1>6, <1>7, LogFrame DEF IndInv

\* A crash and restart: what the peer reads back is what it had, and its orphaned
\* calls keep their headers.
LEMMA RestartInv ==
  ASSUME IndInv, NEW i \in Server, Restart(i) PROVE IndInv'
<1>0. TypeOK /\ PersistedIsCurrent /\ LogInv
  BY DEF IndInv
<1>1. raftstate[i] = [log |-> log[i], currentTerm |-> currentTerm[i],
                      votedFor |-> votedFor[i]]
  BY <1>0 DEF PersistedIsCurrent
<1>2. UNCHANGED <<log, currentTerm, votedFor, raftstate>>
  <2>1. /\ log \in [Server -> Seq(Entry)] /\ currentTerm \in [Server -> Nat]
        /\ votedFor \in [Server -> Server \cup {Nil}]
    BY <1>0 DEF TypeOK
  <2> QED
    BY <1>1, <2>1 DEF Restart
<1>3. voteReq' \subseteq VoteRequest
  <2>1. \A m \in VoteRequest : [m EXCEPT !.live = FALSE] \in VoteRequest
    BY Zenon DEF VoteRequest
  <2>2. voteReq \subseteq VoteRequest /\ voteReq' = Orphaned(i, voteReq)
    BY <1>0 DEF TypeOK, Restart
  <2> QED
    BY <2>1, <2>2, Zenon DEF Orphaned
<1>4. /\ appendReq' \subseteq AppendRequest
      /\ \A n \in appendReq' : \E m \in appendReq :
           /\ n.PrevLogIndex = m.PrevLogIndex /\ n.PrevLogTerm = m.PrevLogTerm
           /\ n.Entries = m.Entries /\ n.src = m.src /\ n.dst = m.dst
  <2>1. \A m \in AppendRequest :
          /\ [m EXCEPT !.live = FALSE] \in AppendRequest
          /\ [m EXCEPT !.live = FALSE].PrevLogIndex = m.PrevLogIndex
          /\ [m EXCEPT !.live = FALSE].PrevLogTerm = m.PrevLogTerm
          /\ [m EXCEPT !.live = FALSE].Entries = m.Entries
          /\ [m EXCEPT !.live = FALSE].src = m.src
          /\ [m EXCEPT !.live = FALSE].dst = m.dst
    BY Zenon DEF AppendRequest
  <2>2. appendReq \subseteq AppendRequest /\ appendReq' = Orphaned(i, appendReq)
    BY <1>0 DEF TypeOK, Restart
  <2>3. \A n \in appendReq' : \E m \in appendReq :
          n = IF m.src = i THEN [m EXCEPT !.live = FALSE] ELSE m
    BY <2>2, Zenon DEF Orphaned
  <2>4. ASSUME NEW n \in appendReq'
        PROVE  /\ n \in AppendRequest
               /\ \E m \in appendReq :
                    /\ n.PrevLogIndex = m.PrevLogIndex /\ n.PrevLogTerm = m.PrevLogTerm
                    /\ n.Entries = m.Entries /\ n.src = m.src /\ n.dst = m.dst
    <3>1. PICK m \in appendReq : n = IF m.src = i THEN [m EXCEPT !.live = FALSE] ELSE m
      BY <2>3
    <3>2. CASE m.src = i
      <4>1. n = [m EXCEPT !.live = FALSE] /\ m \in AppendRequest
        BY <3>1, <3>2, <2>2, Zenon
      <4> QED
        BY <4>1, <2>1, Zenon
    <3>3. CASE m.src # i
      BY <3>1, <3>3, <2>2, Zenon
    <3> QED
      BY <3>2, <3>3
  <2> QED
    BY <2>4
<1>5. TypeOK'
  <2>1. /\ commitIndex' \in [Server -> Nat] /\ lastApplied' \in [Server -> Nat]
        /\ nextIndex' \in [Server -> [Server -> Nat]]
        /\ matchIndex' \in [Server -> [Server -> Nat]]
        /\ state' \in [Server -> States] /\ voteCount' \in [Server -> Nat]
        /\ pc' \in [Server -> {"loop", "elect", "candidate", "tally", "leader"}]
    BY <1>0, Zenon DEF TypeOK, Restart, FreshNext, FreshMatch, States, Follower
  <2>2. /\ asking' \subseteq VoteCall
        /\ starting' \in [Server -> SUBSET [cmd : Command, term : Nat]]
        /\ applying' \in [Server -> SUBSET Applier]
        /\ voteRep' \subseteq VoteReply /\ appendRep' \subseteq AppendReply
        /\ applied' \in [Server -> SUBSET (Nat \X Command)]
        /\ UNCHANGED <<submitted, delivered, grants>>
    BY <1>0 DEF TypeOK, Restart
  <2> QED
    BY <1>0, <1>2, <1>3, <1>4, <2>1, <2>2, Zenon DEF TypeOK
<1>6. PersistedIsCurrent'
  BY <1>0, <1>2 DEF PersistedIsCurrent
<1>7. (IndexIsPosition /\ HeadersOK /\ NoSelfCalls)'
  <2>1. appendRep' \subseteq appendRep
    BY DEF Restart
  <2> QED
    BY <1>0, <1>2, <1>4, <2>1 DEF LogInv, IndexIsPosition, HeadersOK, NoSelfCalls
<1>8. OwnMatchInLog'
  <2>1. /\ matchIndex \in [Server -> [Server -> Nat]] /\ log \in [Server -> Seq(Entry)]
        /\ matchIndex' = [matchIndex EXCEPT ![i] = [j \in Server |-> 0]]
    BY <1>0 DEF TypeOK, Restart, FreshMatch
  <2> QED
    BY <1>0, <1>2, <2>1 DEF LogInv, OwnMatchInLog
<1>9. AppliersContiguous'
  <2>1. /\ applying \in [Server -> SUBSET Applier]
        /\ applying' = [applying EXCEPT ![i] = {}]
    BY <1>0 DEF TypeOK, Restart
  <2> QED
    BY <1>0, <2>1 DEF LogInv, AppliersContiguous
<1> QED
  BY <1>5, <1>6, <1>7, <1>8, <1>9 DEF IndInv, LogInv

\* The vote goroutine sends the last index and term of the peer's log.
LEMMA SendRequestVoteInv ==
  ASSUME IndInv, NEW g \in asking, sendRequestVote(g) PROVE IndInv'
<1> DEFINE i == g.src
           m == [src |-> i, dst |-> g.dst, elect |-> g.elect, live |-> TRUE,
                 Term |-> currentTerm[i], LastLogIndex |-> Len(log[i]),
                 LastLogTerm |-> LogTerm(log[i], Len(log[i]))]
<1>0. TypeOK /\ PersistedIsCurrent /\ LogInv
  BY DEF IndInv
<1>1. g.src \in Server /\ g.dst \in Server /\ g.elect \in Nat
  BY <1>0, Zenon DEF TypeOK, VoteCall
<1>2. log[i] \in Seq(Entry) /\ currentTerm[i] \in Nat
  BY <1>0, <1>1 DEF TypeOK
<1>3. LogTerm(log[i], Len(log[i])) \in Nat /\ Len(log[i]) \in Nat
  BY <1>2, LogTermType
<1>4. m \in VoteRequest
  BY <1>1, <1>2, <1>3 DEF VoteRequest
<1>5. /\ voteReq' \subseteq VoteRequest /\ asking' \subseteq VoteCall
      /\ UNCHANGED <<election, logs, pc, starting, applying, voteRep, appendReq,
                     appendRep, history>>
  BY <1>0, <1>4, Zenon DEF TypeOK, sendRequestVote
<1>6. TypeOK'
  BY <1>0, <1>5, Zenon DEF TypeOK, election, logs, history
<1>7. PersistedIsCurrent'
  BY <1>0, <1>5 DEF PersistedIsCurrent, election, logs
<1> QED
  BY <1>0, <1>5, <1>6, <1>7, LogFrame DEF IndInv, logs

\* The RequestVote handler saves whatever it changed.
LEMMA RequestVoteInv ==
  ASSUME IndInv, NEW m \in voteReq, RequestVote(m) PROVE IndInv'
<1> DEFINE i == m.dst
           grant == FreeToVote(i, m) /\ moreUpToDate(m, log[i])
           reply == [src |-> m.src, dst |-> i, elect |-> m.elect,
                     Term |-> currentTerm'[i], VoteGranted |-> grant]
           vote == [voter |-> i, term |-> currentTerm'[i], cand |-> m.src]
<1>0. TypeOK /\ PersistedIsCurrent /\ LogInv
  BY DEF IndInv
<1>1. m.dst \in Server /\ m.src \in Server /\ m.Term \in Nat /\ m.elect \in Nat
  BY <1>0, Zenon DEF TypeOK, VoteRequest
<1>2. /\ currentTerm \in [Server -> Nat] /\ votedFor \in [Server -> Server \cup {Nil}]
      /\ state \in [Server -> States] /\ log \in [Server -> Seq(Entry)]
      /\ grants \subseteq Grant /\ voteReq \subseteq VoteRequest /\ voteRep \subseteq VoteReply
  BY <1>0 DEF TypeOK
<1>3. /\ currentTerm' \in [Server -> Nat]
      /\ votedFor' \in [Server -> Server \cup {Nil}]
      /\ state' \in [Server -> States]
      /\ \A j \in Server \ {i} : currentTerm'[j] = currentTerm[j] /\ votedFor'[j] = votedFor[j]
  BY <1>1, <1>2 DEF RequestVote, States, Follower
<1>4. UNCHANGED <<voteCount, logs, pc, calls, appendReq, appendRep, submitted, applied, delivered>>
  BY DEF RequestVote
<1>5. PersistedIsCurrent' /\ raftstate' \in [Server -> Persistent]
  <2>1. log' = log /\ persist(i)
    BY <1>4 DEF RequestVote, logs
  <2> QED
    BY <1>0, <1>1, <1>2, <1>3, <2>1, PersistFrame, Zenon
<1>6. reply \in VoteReply
  <2>1. grant \in BOOLEAN
    BY DEF FreeToVote, moreUpToDate
  <2> QED
    BY <1>1, <1>3, <2>1 DEF VoteReply
<1>7. vote \in Grant
  BY <1>1, <1>3 DEF Grant
<1>8. grants' \subseteq Grant /\ voteReq' \subseteq VoteRequest /\ voteRep' \subseteq VoteReply
  BY <1>2, <1>6, <1>7 DEF RequestVote
<1>9. TypeOK'
  BY <1>0, <1>3, <1>4, <1>5, <1>8 DEF TypeOK, logs, calls
<1> QED
  BY <1>0, <1>4, <1>5, <1>9, LogFrame DEF IndInv, logs, calls

\* A vote reply raises voteCount or makes the peer step down, saved.
LEMMA VoteRepliedInv ==
  ASSUME IndInv, NEW r \in voteRep, VoteReplied(r) PROVE IndInv'
<1> DEFINE i == r.src
<1>0. TypeOK /\ PersistedIsCurrent /\ LogInv
  BY DEF IndInv
<1>1. i \in Server /\ r.Term \in Nat
  BY <1>0, Zenon DEF TypeOK, VoteReply
<1>2. /\ currentTerm \in [Server -> Nat] /\ votedFor \in [Server -> Server \cup {Nil}]
      /\ state \in [Server -> States] /\ log \in [Server -> Seq(Entry)]
      /\ voteCount \in [Server -> Nat] /\ voteRep \subseteq VoteReply
      /\ raftstate \in [Server -> Persistent]
  BY <1>0 DEF TypeOK
<1>3. UNCHANGED <<log, commitIndex, lastApplied, nextIndex, matchIndex, pc, asking, starting,
                  applying, voteReq, appendReq, appendRep, submitted, applied, delivered, grants>>
  BY DEF VoteReplied, calls, history
<1>4. voteCount' \in [Server -> Nat] /\ voteRep' \subseteq VoteReply
  BY <1>1, <1>2 DEF VoteReplied
<1>5. /\ currentTerm' \in [Server -> Nat]
      /\ votedFor' \in [Server -> Server \cup {Nil}]
      /\ state' \in [Server -> States]
      /\ \A j \in Server \ {i} : currentTerm'[j] = currentTerm[j] /\ votedFor'[j] = votedFor[j]
  BY <1>1, <1>2, Zenon DEF VoteReplied, StepDown, States, Follower
<1>6. PersistedIsCurrent' /\ raftstate' \in [Server -> Persistent]
  <2>1. CASE ~r.VoteGranted /\ r.Term > currentTerm[i]
    <3>1. persist(i)
      BY <2>1 DEF VoteReplied
    <3> QED
      BY <1>0, <1>1, <1>2, <1>3, <1>5, <3>1, PersistFrame, Zenon
  <2>2. CASE ~(~r.VoteGranted /\ r.Term > currentTerm[i])
    <3>1. UNCHANGED <<currentTerm, votedFor, raftstate>>
      BY <2>2 DEF VoteReplied
    <3> QED
      BY <1>0, <1>2, <1>3, <3>1 DEF PersistedIsCurrent
  <2> QED
    BY <2>1, <2>2
<1>7. TypeOK'
  BY SMTT(30), <1>0, <1>3, <1>4, <1>5, <1>6 DEF TypeOK
<1> QED
  BY <1>0, <1>3, <1>6, <1>7, LogFrame DEF IndInv

\* The first half of Start only notes the command and the term.
LEMMA GetStateInv ==
  ASSUME IndInv, NEW i \in Server, NEW c \in Command, GetState(i, c) PROVE IndInv'
<1>0. TypeOK /\ PersistedIsCurrent /\ LogInv
  BY DEF IndInv
<1>1. /\ starting' \in [Server -> SUBSET [cmd : Command, term : Nat]]
      /\ submitted' \subseteq Command
      /\ UNCHANGED <<election, logs, pc, asking, applying, network, applied,
                     delivered, grants>>
  <2>1. /\ starting \in [Server -> SUBSET [cmd : Command, term : Nat]]
        /\ submitted \subseteq Command /\ currentTerm[i] \in Nat
    BY <1>0 DEF TypeOK
  <2> QED
    BY <2>1 DEF GetState
<1>2. TypeOK'
  BY <1>0, <1>1, Zenon DEF TypeOK, election, logs, network
<1>3. PersistedIsCurrent'
  BY <1>0, <1>1, Zenon DEF PersistedIsCurrent, election, logs
<1> QED
  BY <1>0, <1>1, <1>2, <1>3, LogFrame DEF IndInv, logs, network

\* Losing a call or a reply leaves a subset of the messages.
LEMMA LoseAppendInv ==
  ASSUME IndInv, NEW m \in appendReq \cup appendRep, LoseAppend(m) PROVE IndInv'
<1>0. TypeOK /\ PersistedIsCurrent /\ LogInv
  BY DEF IndInv
<1>1. /\ appendReq' \subseteq appendReq /\ appendRep' \subseteq appendRep
      /\ UNCHANGED <<election, logs, pc, calls, voteReq, voteRep, history>>
  BY DEF LoseAppend
<1>2. TypeOK'
  BY <1>0, <1>1 DEF TypeOK, election, logs, calls, history
<1>3. PersistedIsCurrent'
  BY <1>0, <1>1 DEF PersistedIsCurrent, election, logs
<1>4. LogInv'
  BY <1>0, <1>1 DEF LogInv, IndexIsPosition, OwnMatchInLog, AppliersContiguous, HeadersOK, NoSelfCalls,
                    logs, calls
<1> QED
  BY <1>2, <1>3, <1>4 DEF IndInv

----------------------------------------------------------------------------
(* The leader and the appliers.                                            *)

\* A peer that sets its own progress to the end of its log.
LEMMA OwnProgressType ==
  ASSUME NEW i \in Server, NEW n \in Nat, OwnProgress(i, n),
         nextIndex \in [Server -> [Server -> Nat]],
         matchIndex \in [Server -> [Server -> Nat]]
  PROVE  /\ nextIndex' \in [Server -> [Server -> Nat]]
         /\ matchIndex' \in [Server -> [Server -> Nat]]
         /\ matchIndex'[i][i] = n
         /\ \A j \in Server \ {i} : matchIndex'[j] = matchIndex[j]
BY DEF OwnProgress

\* The second half of Start appends an entry whose Index is the new length and
\* moves the peer's own matchIndex to it.
LEMMA StartInv ==
  ASSUME IndInv, NEW i \in Server, NEW s \in starting[i], Start(i, s) PROVE IndInv'
<1> DEFINE e == NewEntry(i, s)
<1>0. TypeOK /\ PersistedIsCurrent /\ LogInv
  BY DEF IndInv
<1>1. /\ s \in [cmd : Command, term : Nat] /\ log[i] \in Seq(Entry) /\ Len(log[i]) \in Nat
      /\ log \in [Server -> Seq(Entry)] /\ matchIndex \in [Server -> [Server -> Nat]]
      /\ nextIndex \in [Server -> [Server -> Nat]]
      /\ starting \in [Server -> SUBSET [cmd : Command, term : Nat]]
  BY <1>0 DEF TypeOK
<1>2. e \in Entry /\ e.Index = Len(log[i]) + 1
  BY <1>1 DEF NewEntry, Entry
<1>3. log' = [log EXCEPT ![i] = Append(log[i], e)]
  BY DEF Start
<1> HIDE DEF e
<1>4. /\ log' \in [Server -> Seq(Entry)] /\ log'[i] = Append(log[i], e)
      /\ \A j \in Server \ {i} : log'[j] = log[j]
  BY <1>1, <1>2, <1>3
<1>5. UNCHANGED <<currentTerm, votedFor, state, voteCount, commitIndex,
                  lastApplied, pc, asking, applying, network, history>>
  BY DEF Start
<1>6. /\ nextIndex' \in [Server -> [Server -> Nat]]
      /\ matchIndex' \in [Server -> [Server -> Nat]]
      /\ matchIndex'[i][i] = Len(log[i]) + 1
      /\ \A j \in Server \ {i} : matchIndex'[j] = matchIndex[j]
  <2>1. OwnProgress(i, Len(log[i]) + 1) /\ Len(log[i]) + 1 \in Nat
    BY <1>1 DEF Start
  <2> QED
    BY <1>1, <2>1, OwnProgressType, Zenon
<1>7. PersistedIsCurrent' /\ raftstate' \in [Server -> Persistent]
  <2>1. /\ persist(i)
        /\ currentTerm' \in [Server -> Nat] /\ votedFor' \in [Server -> Server \cup {Nil}]
        /\ UNCHANGED <<currentTerm, votedFor>>
    BY <1>0, <1>5 DEF Start, TypeOK
  <2> QED
    BY <1>0, <1>4, <2>1, PersistFrame, Zenon
<1>8. starting' \in [Server -> SUBSET [cmd : Command, term : Nat]]
  BY <1>1 DEF Start
<1>9. TypeOK'
  BY <1>0, <1>4, <1>5, <1>6, <1>7, <1>8, Zenon DEF TypeOK, network, history
<1>10. IndexIsPosition'
  <2>1. appendReq' = appendReq
    BY <1>5 DEF network
  <2>2. \A k \in 1..Len(log'[i]) : log'[i][k].Index = k
    <3>1. \A k \in 1..Len(log[i]) : log[i][k].Index = k
      BY <1>0 DEF LogInv, IndexIsPosition
    <3> QED
      BY <1>1, <1>2, <1>4, <3>1
  <2> QED
    BY <1>0, <1>4, <2>1, <2>2 DEF LogInv, IndexIsPosition
<1>11. OwnMatchInLog'
  <2>1. Len(log'[i]) = Len(log[i]) + 1
    BY <1>1, <1>2, <1>4
  <2>2. \A j \in Server \ {i} : matchIndex'[j][j] <= Len(log'[j])
    BY <1>0, <1>4, <1>6, Zenon DEF LogInv, OwnMatchInLog
  <2>3. matchIndex'[i][i] <= Len(log'[i])
    BY <1>1, <1>6, <2>1
  <2> QED
    BY <2>2, <2>3 DEF OwnMatchInLog
<1>12. (AppliersContiguous /\ HeadersOK /\ NoSelfCalls)'
  BY <1>0, <1>5 DEF LogInv, AppliersContiguous, HeadersOK, NoSelfCalls, network
<1> QED
  BY <1>7, <1>9, <1>10, <1>11, <1>12 DEF IndInv, LogInv

\* A slice of a log whose entries know their position.
LEMMA SliceShape ==
  ASSUME NEW l \in Seq(Entry), \A k \in 1..Len(l) : l[k].Index = k,
         NEW p \in Nat, NEW q \in Nat, q <= Len(l)
  PROVE  /\ SubSeq(l, p + 1, q) \in Seq(Entry)
         /\ Len(SubSeq(l, p + 1, q)) = IF p < q THEN q - p ELSE 0
         /\ \A k \in 1..Len(SubSeq(l, p + 1, q)) : SubSeq(l, p + 1, q)[k].Index = p + k
<1> DEFINE r == SubSeq(l, p + 1, q)
<1>1. Len(l) \in Nat
  OBVIOUS
<1>2. \A k \in (p + 1)..q : k \in 1..Len(l)
  BY <1>1
<1>3. \A k \in (p + 1)..q : l[k] \in Entry
  BY <1>2
<1>4. /\ r \in Seq(Entry)
      /\ Len(r) = IF p + 1 <= q THEN q - (p + 1) + 1 ELSE 0
      /\ \A k \in 1..(q - (p + 1) + 1) : r[k] = l[(p + 1) + k - 1]
  BY <1>1, <1>2, <1>3
<1> HIDE DEF r
<1>5. Len(r) = IF p < q THEN q - p ELSE 0
  BY <1>4
<1>6. ASSUME NEW k \in 1..Len(r) PROVE r[k].Index = p + k
  <2>1. k \in 1..(q - (p + 1) + 1) /\ (p + 1) + k - 1 = p + k /\ p + k \in (p + 1)..q
    BY <1>5
  <2>2. r[k] = l[p + k]
    BY <1>4, <2>1
  <2>3. l[p + k].Index = p + k
    BY <1>2, <2>1
  <2> QED
    BY <2>2, <2>3
<1> QED
  BY <1>4, <1>5, <1>6, Zenon DEF r

\* sendApplyMsg hands its goroutine the entries after lastApplied.
LEMMA SendApplyMsgInv ==
  ASSUME NEW i \in Server, TypeOK, AppliersContiguous, sendApplyMsg(i),
         log'[i] \in Seq(Entry), \A k \in 1..Len(log'[i]) : log'[i][k].Index = k,
         commitIndex'[i] \in Nat,
         commitIndex'[i] > lastApplied[i] => commitIndex'[i] <= Len(log'[i])
  PROVE  applying' \in [Server -> SUBSET Applier] /\ AppliersContiguous'
<1> DEFINE es == SubSeq(log'[i], lastApplied[i] + 1, commitIndex'[i])
           g == [entries |-> es, sent |-> FALSE]
<1>1. lastApplied[i] \in Nat /\ applying \in [Server -> SUBSET Applier]
  BY DEF TypeOK
<1>2. CASE commitIndex'[i] <= lastApplied[i]
  <2>1. applying' = applying
    BY <1>2 DEF sendApplyMsg
  <2> QED
    BY <1>1, <2>1 DEF AppliersContiguous
<1>3. CASE commitIndex'[i] > lastApplied[i]
  <2>1. applying' = [applying EXCEPT ![i] = @ \cup {g}]
    BY <1>1, <1>3 DEF sendApplyMsg
  <2>2. /\ es \in Seq(Entry) /\ Len(es) = commitIndex'[i] - lastApplied[i]
        /\ \A k \in 1..Len(es) : es[k].Index = lastApplied[i] + k
    BY <1>1, <1>3, SliceShape, Zenon
  <2> HIDE DEF es
  <2>3. g \in Applier /\ g.entries = es
    BY <2>2 DEF Applier
  <2>4. /\ Len(es) >= 1
        /\ \A k \in 1..Len(es) : es[k].Index = es[1].Index + k - 1
    BY <1>1, <1>3, <2>2
  <2> HIDE DEF g
  <2>5. /\ applying' \in [Server -> SUBSET Applier]
        /\ \A j \in Server : applying'[j] \subseteq applying[j] \cup {g}
    BY <1>1, <2>1, <2>3
  <2>6. AppliersContiguous'
    BY <2>3, <2>4, <2>5 DEF AppliersContiguous
  <2> QED
    BY <2>5, <2>6
<1> QED
  BY <1>1, <1>2, <1>3

\* The commit step hands the appliers a contiguous piece of the log.
LEMMA SendHearbeatInv ==
  ASSUME IndInv, NEW i \in Server, sendHearbeat(i) PROVE IndInv'
<1> DEFINE ns == {n \in {matchIndex[i][j] : j \in Ahead(i)} : CanCommit(i, n)}
<1>0. TypeOK /\ PersistedIsCurrent /\ LogInv
  BY DEF IndInv
<1>1. /\ commitIndex \in [Server -> Nat] /\ log \in [Server -> Seq(Entry)]
      /\ matchIndex \in [Server -> [Server -> Nat]] /\ lastApplied \in [Server -> Nat]
      /\ pc \in [Server -> {"loop", "elect", "candidate", "tally", "leader"}]
      /\ applying \in [Server -> SUBSET Applier]
  BY <1>0 DEF TypeOK
<1>2. UNCHANGED <<election, lastApplied, nextIndex, matchIndex, asking, starting,
                  network, history, log>>
  BY DEF sendHearbeat
<1>3. pc' \in [Server -> {"loop", "elect", "candidate", "tally", "leader"}]
  BY <1>1 DEF sendHearbeat
<1>4. /\ commitIndex' \in [Server -> Nat] /\ applying' \in [Server -> SUBSET Applier]
      /\ AppliersContiguous'
  <2>1. CASE ns = {}
    <3>1. UNCHANGED <<commitIndex, applying>>
      BY <2>1 DEF sendHearbeat
    <3> QED
      BY <1>0, <1>1, <3>1 DEF LogInv, AppliersContiguous
  <2>2. CASE ns # {}
    <3>1. PICK n \in ns : commitIndex' = [commitIndex EXCEPT ![i] = n] /\ sendApplyMsg(i)
      BY <2>2 DEF sendHearbeat
    <3>2. n \in Nat /\ commitIndex[i] < matchIndex[i][i] /\ \A j \in Ahead(i) : n <= matchIndex[i][j]
      <4>1. PICK j \in Ahead(i) : n = matchIndex[i][j]
        OBVIOUS
      <4>2. matchIndex[i] \in [Server -> Nat] /\ Ahead(i) \subseteq Server
        BY <1>1 DEF Ahead
      <4>3. n \in Nat
        BY <4>1, <4>2
      <4>4. CanCommit(i, n)
        OBVIOUS
      <4> QED
        BY <4>3, <4>4 DEF CanCommit
    <3>3. n <= matchIndex[i][i]
      BY <3>2 DEF Ahead
    <3>4. n <= Len(log[i])
      <4>1. matchIndex[i][i] <= Len(log[i])
        BY <1>0 DEF LogInv, OwnMatchInLog
      <4>2. matchIndex[i][i] \in Nat /\ Len(log[i]) \in Nat
        BY <1>1
      <4> QED
        BY <3>2, <3>3, <4>1, <4>2
    <3>5. /\ commitIndex' \in [Server -> Nat] /\ commitIndex'[i] = n
          /\ log'[i] = log[i] /\ log[i] \in Seq(Entry)
      BY <1>1, <1>2, <3>1, <3>2
    <3>6. (\A k \in 1..Len(log[i]) : log[i][k].Index = k) /\ AppliersContiguous
      BY <1>0 DEF LogInv, IndexIsPosition
    <3> QED
      BY <1>0, <3>1, <3>2, <3>4, <3>5, <3>6, SendApplyMsgInv
  <2> QED
    BY <2>1, <2>2
<1>5. TypeOK'
  BY <1>0, <1>2, <1>3, <1>4, Zenon DEF TypeOK, election, network, history
<1>6. PersistedIsCurrent'
  BY <1>0, <1>2, Zenon DEF PersistedIsCurrent, election
<1>7. (IndexIsPosition /\ OwnMatchInLog /\ HeadersOK /\ NoSelfCalls)'
  BY <1>0, <1>2 DEF LogInv, IndexIsPosition, OwnMatchInLog, HeadersOK, NoSelfCalls, network
<1> QED
  BY <1>4, <1>5, <1>6, <1>7 DEF IndInv, LogInv

\* A heartbeat carries the entries that follow PrevLogIndex.
LEMMA SendAppendEntriesInv ==
  ASSUME IndInv, NEW i \in Server, NEW j \in Server, sendAppendEntries(i, j) PROVE IndInv'
<1> DEFINE prev == nextIndex[i][j] - 1
           es == SubSeq(log[i], prev + 1, Len(log[i]))
           m == [src |-> i, dst |-> j, live |-> TRUE, Term |-> currentTerm[i],
                 PrevLogIndex |-> prev, PrevLogTerm |-> LogTerm(log[i], prev),
                 LeaderCommit |-> commitIndex[i], Entries |-> es]
<1>0. TypeOK /\ PersistedIsCurrent /\ LogInv
  BY DEF IndInv
<1>1. /\ log[i] \in Seq(Entry) /\ Len(log[i]) \in Nat /\ currentTerm[i] \in Nat
      /\ commitIndex[i] \in Nat /\ appendReq \subseteq AppendRequest
      /\ \A k \in 1..Len(log[i]) : log[i][k].Index = k
  <2>1. /\ log[i] \in Seq(Entry) /\ currentTerm[i] \in Nat
        /\ commitIndex[i] \in Nat /\ appendReq \subseteq AppendRequest
    BY <1>0 DEF TypeOK
  <2>2. \A k \in 1..Len(log[i]) : log[i][k].Index = k
    BY <1>0 DEF LogInv, IndexIsPosition
  <2> QED
    BY <2>1, <2>2
<1>2. prev \in 0..Len(log[i]) /\ appendReq' = appendReq \cup {m} /\ i # j
  BY Zenon DEF sendAppendEntries
<1> HIDE DEF prev
<1>a. prev \in Nat
  <2>1. prev \in 0..Len(log[i]) /\ Len(log[i]) \in Nat
    BY <1>1, <1>2, Zenon
  <2> QED
    BY <2>1
<1>3. LogTerm(log[i], prev) \in Nat /\ (prev = 0 => LogTerm(log[i], prev) = 0)
  BY <1>1, <1>2, LogTermType, Zenon DEF LogTerm
<1>4. es \in Seq(Entry) /\ \A k \in 1..Len(es) : es[k].Index = prev + k
  <2>1. Len(log[i]) <= Len(log[i])
    BY <1>1
  <2> QED
    BY <1>1, <1>a, <2>1, SliceShape, ZenonT(30)
<1> HIDE DEF es
<1>5. m \in AppendRequest
  <2>1. /\ currentTerm[i] \in Nat /\ prev \in Nat /\ LogTerm(log[i], prev) \in Nat
        /\ commitIndex[i] \in Nat /\ es \in Seq(Entry)
    BY <1>1, <1>a, <1>3, <1>4, Zenon
  <2> DEFINE t == LogTerm(log[i], prev)
             T == Seq(Entry)
  <2> HIDE DEF t, T
  <2>2. t \in Nat /\ es \in T
    BY <2>1 DEF t, T
  <2>3. m \in [src : Server, dst : Server, live : BOOLEAN, Term : Nat, PrevLogIndex : Nat,
                PrevLogTerm : Nat, LeaderCommit : Nat, Entries : T]
    BY <2>1, <2>2 DEF t
  <2> QED
    BY <2>3, Zenon DEF AppendRequest, T
<1>6. UNCHANGED <<election, logs, pc, calls, voteReq, voteRep, appendRep, history>>
  BY Zenon DEF sendAppendEntries
<1>7. TypeOK'
  BY <1>0, <1>2, <1>5, <1>6, Zenon DEF TypeOK, election, logs, calls, history
<1>8. PersistedIsCurrent'
  BY <1>0, <1>6, Zenon DEF PersistedIsCurrent, election, logs
<1>9. /\ m.PrevLogIndex = 0 => m.PrevLogTerm = 0
      /\ m.src # m.dst
      /\ \A k \in 1..Len(m.Entries) : m.Entries[k].Index = m.PrevLogIndex + k
  BY <1>2, <1>3, <1>4, Zenon
<1> HIDE DEF m
<1>10. (IndexIsPosition /\ HeadersOK /\ NoSelfCalls)'
  BY <1>0, <1>2, <1>6, <1>9, Zenon DEF LogInv, IndexIsPosition, HeadersOK, NoSelfCalls, logs
<1>11. (OwnMatchInLog /\ AppliersContiguous)'
  BY <1>0, <1>6, Zenon DEF LogInv, OwnMatchInLog, AppliersContiguous, logs, calls
<1> QED
  BY <1>7, <1>8, <1>10, <1>11 DEF IndInv, LogInv

\* Delivering an ApplyMsg of the right type marks the applier as sent.
LEMMA ApplySendInv ==
  ASSUME IndInv, NEW i \in Server, NEW g \in applying[i], ApplySend(i, g) PROVE IndInv'
<1> DEFINE h == [g EXCEPT !.sent = TRUE]
<1>0. TypeOK /\ PersistedIsCurrent /\ LogInv
  BY DEF IndInv
<1>1. /\ applying \in [Server -> SUBSET Applier] /\ log[i] \in Seq(Entry)
      /\ applied \in [Server -> SUBSET (Nat \X Command)] /\ delivered \subseteq Nat \X Command
  BY <1>0 DEF TypeOK
<1>2. /\ g \in Applier /\ Len(g.entries) >= 1
      /\ \A k \in 1..Len(g.entries) : g.entries[k].Index = g.entries[1].Index + k - 1
  BY <1>0, <1>1, Zenon DEF LogInv, AppliersContiguous
<1>3. /\ g.entries \in Seq(Entry) /\ Head(g.entries) \in Entry
  <2>1. g.entries \in Seq(Entry)
    BY <1>2, Zenon DEF Applier
  <2>2. \A s \in Seq(Entry) : Len(s) >= 1 => Head(s) \in Entry
    <3> TAKE s \in Seq(Entry)
    <3> HAVE Len(s) >= 1
    <3>1. Head(s) = s[1] /\ 1 \in 1..Len(s)
      OBVIOUS
    <3> QED
      BY <3>1
  <2> QED
    BY <1>2, <2>1, <2>2, Zenon
<1>4. h \in Applier /\ h.entries = g.entries
  BY <1>2, Zenon DEF Applier
<1>5. applying' = [applying EXCEPT ![i] = (@ \ {g}) \cup {h}]
  BY DEF ApplySend, Deliver
<1> HIDE DEF h
<1>6. /\ applying' \in [Server -> SUBSET Applier]
      /\ \A j \in Server : applying'[j] \subseteq applying[j] \cup {h}
  BY <1>1, <1>4, <1>5
<1>7. AppliersContiguous'
  BY <1>0, <1>2, <1>4, <1>6 DEF LogInv, AppliersContiguous
<1>8. SliceRead(i, Head(g.entries)) \subseteq Entry
  BY <1>1, <1>3 DEF SliceRead
<1>9. applied' \in [Server -> SUBSET (Nat \X Command)] /\ delivered' \subseteq Nat \X Command
  <2>1. PICK e \in SliceRead(i, Head(g.entries)) :
          /\ applied' = [applied EXCEPT ![i] = @ \cup {<<e.Index, e.Command>>}]
          /\ delivered' = delivered \cup {<<e.Index, e.Command>>}
    BY Zenon DEF ApplySend, Deliver
  <2>2. <<e.Index, e.Command>> \in Nat \X Command
    BY <1>8 DEF Entry
  <2> QED
    BY <1>1, <2>1, <2>2
<1>10. UNCHANGED <<election, logs, pc, asking, starting, network, submitted, grants>>
  BY DEF ApplySend, Deliver
<1>11. TypeOK'
  BY SMTT(30), <1>0, <1>6, <1>9, <1>10 DEF TypeOK, election, logs, network
<1>12. PersistedIsCurrent'
  BY <1>0, <1>10 DEF PersistedIsCurrent, election, logs
<1>13. (IndexIsPosition /\ OwnMatchInLog /\ HeadersOK /\ NoSelfCalls)'
  BY <1>0, <1>10 DEF LogInv, IndexIsPosition, OwnMatchInLog, HeadersOK, NoSelfCalls, logs, network
<1> QED
  BY <1>7, <1>11, <1>12, <1>13, Zenon DEF IndInv, LogInv

\* The applier goes on with the tail of its entries, which is contiguous too.
LEMMA ApplyDoneInv ==
  ASSUME IndInv, NEW i \in Server, NEW g \in applying[i], ApplyDone(i, g) PROVE IndInv'
<1> DEFINE es == g.entries
           h == [entries |-> Tail(es), sent |-> FALSE]
<1>0. TypeOK /\ PersistedIsCurrent /\ LogInv
  BY DEF IndInv
<1>1. applying \in [Server -> SUBSET Applier] /\ lastApplied \in [Server -> Nat]
  BY <1>0 DEF TypeOK
<1>2. /\ g \in Applier /\ Len(es) >= 1
      /\ \A k \in 1..Len(es) : es[k].Index = es[1].Index + k - 1
  BY <1>0, <1>1 DEF LogInv, AppliersContiguous
<1>3. /\ es \in Seq(Entry) /\ Len(es) \in Nat
      /\ Head(es) \in Entry /\ Head(es) = es[1]
  BY <1>2 DEF Applier
<1>4. Head(es).Index \in Nat
  BY <1>3 DEF Entry
<1>5. lastApplied' \in [Server -> Nat]
  BY <1>1, <1>4 DEF ApplyDone
<1>8. applying' \in [Server -> SUBSET Applier] /\ AppliersContiguous'
  <2>1. CASE Len(es) = 1
    <3>1. applying' = [applying EXCEPT ![i] = @ \ {g}]
      BY <1>1, <2>1 DEF ApplyDone
    <3>2. /\ applying' \in [Server -> SUBSET Applier]
          /\ \A j \in Server : applying'[j] \subseteq applying[j]
      BY <1>1, <3>1
    <3> QED
      BY <1>0, <3>2 DEF LogInv, AppliersContiguous
  <2>2. CASE Len(es) # 1
    <3> DEFINE t == Tail(es)
    <3>1. applying' = [applying EXCEPT ![i] = (@ \ {g}) \cup {h}]
      BY <2>2 DEF ApplyDone
    <3>2. /\ t \in Seq(Entry) /\ Len(t) = Len(es) - 1
          /\ \A k \in 1..Len(t) : t[k] = es[k + 1] /\ k + 1 \in 1..Len(es)
      BY <1>2, <1>3
    <3>3. h \in Applier /\ h.entries = t
      BY <3>2 DEF Applier
    <3>5. es[1].Index \in Nat
      BY <1>3, <1>4
    <3> HIDE DEF t, es
    <3>4. Len(t) >= 1 /\ Len(t) \in Nat
      BY <1>2, <1>3, <2>2, <3>2
    <3>6. ASSUME NEW k \in 1..Len(t) PROVE t[k].Index = es[1].Index + k
      <4>1. t[k] = es[k + 1] /\ k + 1 \in 1..Len(es)
        BY <3>2
      <4>2. es[k + 1].Index = es[1].Index + (k + 1) - 1
        BY <1>2, <4>1
      <4> QED
        BY <3>5, <4>1, <4>2
    <3>7. ASSUME NEW k \in 1..Len(t) PROVE t[k].Index = t[1].Index + k - 1
      <4>1. t[1].Index = es[1].Index + 1
        BY <3>4, <3>6
      <4>2. t[k].Index = es[1].Index + k
        BY <3>6
      <4>3. k \in Int
        BY <3>4
      <4>4. \A x, y, z \in Int : z = x + 1 /\ y = x + k => y = z + k - 1
        BY <4>3
      <4>5. es[1].Index + 1 \in Int /\ es[1].Index + k \in Int /\ es[1].Index \in Int
        BY <3>5, <4>3
      <4> QED
        BY <4>1, <4>2, <4>4, <4>5
    <3> HIDE DEF h
    <3>8. /\ applying' \in [Server -> SUBSET Applier]
          /\ \A j \in Server : applying'[j] \subseteq applying[j] \cup {h}
      BY <1>1, <3>1, <3>3
    <3> QED
      BY <1>0, <3>3, <3>4, <3>7, <3>8 DEF LogInv, AppliersContiguous
  <2> QED
    BY <2>1, <2>2
<1>10. UNCHANGED <<election, log, commitIndex, nextIndex, matchIndex, pc, asking,
                   starting, network, history>>
  BY DEF ApplyDone
<1>11. TypeOK'
  BY <1>0, <1>5, <1>8, <1>10, Zenon DEF TypeOK, election, network, history
<1>12. PersistedIsCurrent'
  BY <1>0, <1>10 DEF PersistedIsCurrent, election
<1>13. (IndexIsPosition /\ OwnMatchInLog /\ HeadersOK /\ NoSelfCalls)'
  BY <1>0, <1>10 DEF LogInv, IndexIsPosition, OwnMatchInLog, HeadersOK, NoSelfCalls, network
<1> QED
  BY <1>8, <1>11, <1>12, <1>13 DEF IndInv, LogInv

----------------------------------------------------------------------------
(* AppendEntries calls that are refused.                                   *)

\* The reply of AppendEntries is well formed and goes back to the caller.
LEMMA AnswerType ==
  ASSUME TypeOK, NEW m \in appendReq, NEW success \in BOOLEAN, NEW x, Answer(m, success, x),
         currentTerm'[m.dst] \in Nat, x.XTerm \in Int, x.XIndex \in Nat
  PROVE  /\ appendReq' \subseteq appendReq /\ appendRep' \subseteq AppendReply
         /\ NoSelfCalls => NoSelfCalls'
<1> DEFINE r == [src |-> m.src, dst |-> m.dst, Term |-> currentTerm'[m.dst],
                 Success |-> success, XTerm |-> x.XTerm, XIndex |-> x.XIndex,
                 prev |-> m.PrevLogIndex, sent |-> Len(m.Entries)]
<1>1. appendReq \subseteq AppendRequest /\ appendRep \subseteq AppendReply
  BY DEF TypeOK
<1>2. /\ m.src \in Server /\ m.dst \in Server /\ m.PrevLogIndex \in Nat
      /\ m.Entries \in Seq(Entry) /\ Len(m.Entries) \in Nat
  BY <1>1 DEF AppendRequest
<1>3. r \in AppendReply
  BY <1>2 DEF AppendReply
<1>4. appendReq' = appendReq \ {m} /\ appendRep' \subseteq appendRep \cup {r}
  BY DEF Answer
<1>5. r.src = m.src /\ r.dst = m.dst
  OBVIOUS
<1> HIDE DEF r
<1> QED
  BY <1>1, <1>3, <1>4, <1>5 DEF NoSelfCalls

\* Adopting the term of a call keeps term, state and vote well formed.
LEMMA AdoptTermType ==
  ASSUME TypeOK, NEW m \in appendReq, AdoptTerm(m)
  PROVE  /\ currentTerm' \in [Server -> Nat]
         /\ votedFor' \in [Server -> Server \cup {Nil}]
         /\ state' \in [Server -> States]
         /\ \A j \in Server \ {m.dst} :
              currentTerm'[j] = currentTerm[j] /\ votedFor'[j] = votedFor[j]
<1>1. /\ m.dst \in Server /\ m.Term \in Nat
      /\ currentTerm \in [Server -> Nat] /\ votedFor \in [Server -> Server \cup {Nil}]
      /\ state \in [Server -> States]
  BY Zenon DEF TypeOK, AppendRequest
<1> QED
  BY <1>1 DEF AdoptTerm, StepDown, States, Follower

\* AppendEntries of an older term: nothing changes but the reply.
LEMMA AppendStaleInv ==
  ASSUME IndInv, NEW m \in appendReq, AppendStale(m) PROVE IndInv'
<1>0. TypeOK /\ PersistedIsCurrent /\ LogInv
  BY DEF IndInv
<1>1. UNCHANGED <<currentTerm, votedFor, state, voteCount, logs, pc, calls, voteReq,
                  voteRep, history>>
  BY Zenon DEF AppendStale
<1>2. /\ m.dst \in Server
      /\ currentTerm' \in [Server -> Nat] /\ log' \in [Server -> Seq(Entry)]
      /\ votedFor' \in [Server -> Server \cup {Nil}]
      /\ log' = log
  BY <1>0, <1>1, Zenon DEF TypeOK, AppendRequest, logs
<1>3. PersistedIsCurrent' /\ raftstate' \in [Server -> Persistent]
  <2>1. persist(m.dst)
    BY DEF AppendStale
  <2> QED
    BY <1>0, <1>1, <1>2, <2>1, PersistFrame
<1>4. appendReq' \subseteq appendReq /\ appendRep' \subseteq AppendReply /\ NoSelfCalls'
  <2>1. Answer(m, FALSE, NoHint)
    BY Zenon DEF AppendStale
  <2>2. NoHint.XTerm \in Int /\ NoHint.XIndex \in Nat
    BY DEF NoHint
  <2>3. currentTerm'[m.dst] \in Nat
    BY <1>2
  <2> QED
    BY <1>0, <2>1, <2>2, <2>3, AnswerType, Zenon DEF LogInv
<1>5. TypeOK'
  BY <1>0, <1>1, <1>3, <1>4 DEF TypeOK, logs, calls, history
<1>6. LogInv'
  BY <1>0, <1>1, <1>4, Zenon DEF LogInv, IndexIsPosition, OwnMatchInLog, AppliersContiguous,
                          HeadersOK, logs, calls
<1> QED
  BY <1>3, <1>5, <1>6 DEF IndInv

\* AppendEntries that finds no match: the log stays, the term is saved.
LEMMA AppendConflictInv ==
  ASSUME IndInv, NEW m \in appendReq, AppendConflict(m) PROVE IndInv'
<1> DEFINE i == m.dst
           x == Conflict(log[i], m)
<1>0. TypeOK /\ PersistedIsCurrent /\ LogInv
  BY DEF IndInv
<1>1. /\ i \in Server /\ m.PrevLogIndex \in Nat /\ log[i] \in Seq(Entry)
      /\ log \in [Server -> Seq(Entry)] /\ commitIndex \in [Server -> Nat]
  BY <1>0, Zenon DEF TypeOK, AppendRequest
<1>2. UNCHANGED <<log, commitIndex, voteCount, lastApplied, nextIndex, matchIndex, pc,
                  asking, starting, voteReq, voteRep, history>>
  BY Zenon DEF AppendConflict
<1>3. x.XTerm \in Int /\ x.XIndex \in Nat
  <2>1. m.PrevLogIndex = 0 => m.PrevLogTerm = 0
    BY <1>0 DEF LogInv, HeadersOK, NoSelfCalls
  <2>2. ~PrevMatches(log[i], m)
    BY Zenon DEF AppendConflict
  <2>3. x.XTerm \in Int /\ x.XIndex \in 1..m.PrevLogIndex
    BY <1>1, <2>1, <2>2, ConflictBounds
  <2> QED
    BY <1>1, <2>3
<1> HIDE DEF x
<1>4. /\ currentTerm' \in [Server -> Nat] /\ votedFor' \in [Server -> Server \cup {Nil}]
      /\ state' \in [Server -> States]
      /\ \A j \in Server \ {i} :
           currentTerm'[j] = currentTerm[j] /\ votedFor'[j] = votedFor[j]
  <2>1. AdoptTerm(m)
    BY Zenon DEF AppendConflict
  <2> QED
    BY <1>0, <2>1, AdoptTermType, Zenon
<1>5. PersistedIsCurrent' /\ raftstate' \in [Server -> Persistent]
  <2>1. persist(i)
    BY Zenon DEF AppendConflict
  <2> QED
    BY <1>0, <1>1, <1>2, <1>4, <2>1, PersistFrame, Zenon
<1>6. appendReq' \subseteq appendReq /\ appendRep' \subseteq AppendReply /\ NoSelfCalls'
  <2>1. Answer(m, FALSE, x)
    BY Zenon DEF AppendConflict, x
  <2>2. currentTerm'[i] \in Nat
    BY <1>1, <1>4, Zenon
  <2> QED
    BY <1>0, <1>3, <2>1, <2>2, AnswerType, Zenon DEF LogInv
<1>7. applying' \in [Server -> SUBSET Applier] /\ AppliersContiguous'
  <2>1. sendApplyMsg(i) /\ (commitIndex[i] > lastApplied[i] => commitIndex[i] <= Len(log[i]))
    BY Zenon DEF AppendConflict
  <2>2. AppliersContiguous /\ \A k \in 1..Len(log[i]) : log[i][k].Index = k
    BY <1>0, <1>1 DEF LogInv, IndexIsPosition
  <2>3. commitIndex'[i] = commitIndex[i] /\ log'[i] = log[i] /\ commitIndex[i] \in Nat
    BY <1>1, <1>2
  <2> HIDE DEF i
  <2> QED
    BY <1>0, <1>1, <2>1, <2>2, <2>3, SendApplyMsgInv, Zenon
<1>8. TypeOK'
  BY <1>0, <1>2, <1>4, <1>5, <1>6, <1>7 DEF TypeOK, history
<1>9. (IndexIsPosition /\ OwnMatchInLog /\ HeadersOK /\ NoSelfCalls)'
  BY <1>0, <1>2, <1>6, Zenon DEF LogInv, IndexIsPosition, OwnMatchInLog, HeadersOK, NoSelfCalls
<1> QED
  BY <1>5, <1>7, <1>8, <1>9 DEF IndInv, LogInv

----------------------------------------------------------------------------
(* AppendEntries calls that match and the replies to them.                 *)

\* AppendEntries that finds a match: the merged log is still indexed by position,
\* and the peer's own matchIndex follows its length.
LEMMA AppendMatchInv ==
  ASSUME IndInv, NEW m \in appendReq, AppendMatch(m) PROVE IndInv'
<1> DEFINE i == m.dst
           new == MergeEntries(log[i], m.Entries)
           c == CommitTo(i, m, new)
<1>0. TypeOK /\ PersistedIsCurrent /\ LogInv
  BY DEF IndInv
<1>1. /\ i \in Server /\ m.PrevLogIndex \in Nat /\ log[i] \in Seq(Entry)
      /\ m.Entries \in Seq(Entry) /\ m.LeaderCommit \in Nat
      /\ log \in [Server -> Seq(Entry)] /\ commitIndex \in [Server -> Nat]
      /\ nextIndex \in [Server -> [Server -> Nat]]
      /\ matchIndex \in [Server -> [Server -> Nat]]
  BY <1>0, Zenon DEF TypeOK, AppendRequest
<1>2. UNCHANGED <<voteCount, lastApplied, pc, asking, starting, voteReq, voteRep, history>>
  BY Zenon DEF AppendMatch
<1>3. /\ new \in Seq(Entry) /\ \A k \in 1..Len(new) : new[k].Index = k
      /\ m.Entries = <<>> => new = log[i]
  <2>1. m.PrevLogIndex \in 0..Len(log[i])
    <3>1. PrevMatches(log[i], m)
      BY Zenon DEF AppendMatch
    <3>2. m.PrevLogIndex <= Len(log[i])
      BY <3>1, Zenon DEF PrevMatches
    <3>3. m.PrevLogIndex \in Nat /\ Len(log[i]) \in Nat
      BY <1>1
    <3> QED
      BY <3>2, <3>3
  <2>2. /\ \A k \in 1..Len(log[i]) : log[i][k].Index = k
        /\ \A k \in 1..Len(m.Entries) : m.Entries[k].Index = m.PrevLogIndex + k
    BY <1>0, <1>1, Zenon DEF LogInv, IndexIsPosition
  <2> DEFINE l == log[i]
             es == m.Entries
             p == m.PrevLogIndex
  <2> HIDE DEF l, es, p
  <2>3. /\ l \in Seq(Entry) /\ es \in Seq(Entry) /\ p \in 0..Len(l)
        /\ \A k \in 1..Len(l) : l[k].Index = k
        /\ \A k \in 1..Len(es) : es[k].Index = p + k
    BY <1>1, <2>1, <2>2, Zenon DEF l, es, p
  <2>4. /\ MergeEntries(l, es) \in Seq(Entry)
        /\ \A k \in 1..Len(MergeEntries(l, es)) : MergeEntries(l, es)[k].Index = k
        /\ es = <<>> => MergeEntries(l, es) = l
    BY <2>3, MergeShape
  <2> QED
    BY <2>4 DEF l, es
<1>4. /\ log' = [log EXCEPT ![i] = new] /\ commitIndex' = [commitIndex EXCEPT ![i] = c]
      /\ IF m.Entries = <<>> THEN UNCHANGED <<nextIndex, matchIndex>>
         ELSE OwnProgress(i, Len(new))
      /\ c > lastApplied[i] => c <= Len(new)
      /\ AdoptTerm(m) /\ sendApplyMsg(i) /\ Answer(m, TRUE, NoHint) /\ persist(i)
  BY Zenon DEF AppendMatch
<1> HIDE DEF new
<1>a. Len(new) \in Nat
  BY <1>3
<1>5. c \in Nat
  <2>1. m.LeaderCommit \in Nat /\ commitIndex[i] \in Nat
    BY <1>1
  <2> QED
    BY <1>a, <2>1 DEF CommitTo
<1> HIDE DEF c
<1>6. /\ log' \in [Server -> Seq(Entry)] /\ log'[i] = new
      /\ \A j \in Server \ {i} : log'[j] = log[j]
      /\ commitIndex' \in [Server -> Nat] /\ commitIndex'[i] = c
  BY <1>1, <1>3, <1>4, <1>5, Zenon
<1>7. /\ nextIndex' \in [Server -> [Server -> Nat]]
      /\ matchIndex' \in [Server -> [Server -> Nat]]
      /\ OwnMatchInLog'
  <2>1. CASE m.Entries = <<>>
    <3>1. UNCHANGED <<nextIndex, matchIndex>> /\ new = log[i]
      BY <1>3, <1>4, <2>1
    <3> QED
      BY <1>0, <1>1, <1>6, <3>1, Zenon DEF LogInv, OwnMatchInLog
  <2>2. CASE m.Entries # <<>>
    <3>1. OwnProgress(i, Len(new))
      BY <1>4, <2>2, Zenon
    <3>2. /\ nextIndex' \in [Server -> [Server -> Nat]]
          /\ matchIndex' \in [Server -> [Server -> Nat]]
          /\ matchIndex'[i][i] = Len(new)
          /\ \A j \in Server \ {i} : matchIndex'[j] = matchIndex[j]
      BY <1>1, <1>a, <3>1, OwnProgressType, Zenon
    <3>3. \A j \in Server \ {i} : matchIndex'[j][j] <= Len(log'[j])
      BY <1>0, <1>6, <3>2, Zenon DEF LogInv, OwnMatchInLog
    <3>4. matchIndex'[i][i] <= Len(log'[i])
      <4>1. log'[i] = new /\ matchIndex'[i][i] = Len(new) /\ Len(new) <= Len(new)
        BY <1>a, <1>6, <3>2
      <4> QED
        BY <4>1, Zenon
    <3> QED
      BY <3>2, <3>3, <3>4 DEF OwnMatchInLog
  <2> QED
    BY <2>1, <2>2
<1>8. /\ currentTerm' \in [Server -> Nat] /\ votedFor' \in [Server -> Server \cup {Nil}]
      /\ state' \in [Server -> States]
      /\ \A j \in Server \ {i} :
           currentTerm'[j] = currentTerm[j] /\ votedFor'[j] = votedFor[j]
  BY <1>0, <1>4, AdoptTermType, Zenon
<1>9. PersistedIsCurrent' /\ raftstate' \in [Server -> Persistent]
  BY <1>0, <1>1, <1>4, <1>6, <1>8, PersistFrame, Zenon
<1>10. appendReq' \subseteq appendReq /\ appendRep' \subseteq AppendReply /\ NoSelfCalls'
  <2>1. NoHint.XTerm \in Int /\ NoHint.XIndex \in Nat /\ currentTerm'[i] \in Nat
    <3>1. NoHint.XTerm \in Int /\ NoHint.XIndex \in Nat
      BY DEF NoHint
    <3>2. currentTerm'[i] \in Nat
      BY <1>1, <1>8, Zenon
    <3> QED
      BY <3>1, <3>2
  <2> QED
    BY <1>0, <1>4, <2>1, AnswerType, Zenon DEF LogInv
<1>11. applying' \in [Server -> SUBSET Applier] /\ AppliersContiguous'
  <2>1. AppliersContiguous
    BY <1>0 DEF LogInv
  <2> HIDE DEF i
  <2> QED
    BY <1>0, <1>1, <1>3, <1>4, <1>5, <1>6, <2>1, SendApplyMsgInv, Zenon
<1>12. TypeOK'
  BY <1>0, <1>2, <1>6, <1>7, <1>8, <1>9, <1>10, <1>11, Zenon DEF TypeOK, history
<1>13. (IndexIsPosition /\ HeadersOK /\ NoSelfCalls)'
  BY <1>0, <1>3, <1>6, <1>10, Zenon DEF LogInv, IndexIsPosition, HeadersOK, NoSelfCalls
<1> QED
  BY <1>7, <1>9, <1>11, <1>12, <1>13 DEF IndInv, LogInv

\* One cell of the leader's table of another peer's progress.
LEMMA EntryUpdate ==
  ASSUME NEW f \in [Server -> [Server -> Nat]], NEW i \in Server, NEW j \in Server,
         NEW n \in Nat
  PROVE  /\ [f EXCEPT ![i][j] = n] \in [Server -> [Server -> Nat]]
         /\ i # j => \A k \in Server : [f EXCEPT ![i][j] = n][k][k] = f[k][k]
OBVIOUS

\* The reply never touches the leader's own matchIndex: no peer calls itself.
LEMMA AppendRepliedInv ==
  ASSUME IndInv, NEW r \in appendRep, AppendReplied(r) PROVE IndInv'
<1> DEFINE i == r.src
<1>0. TypeOK /\ PersistedIsCurrent /\ LogInv
  BY DEF IndInv
<1>1. r \in AppendReply
  BY <1>0 DEF TypeOK
<1>2. /\ r.src \in Server /\ r.dst \in Server /\ r.Term \in Nat /\ r.XIndex \in Nat
      /\ r.prev \in Nat /\ r.sent \in Nat
  BY <1>1 DEF AppendReply
<1>3. /\ currentTerm \in [Server -> Nat] /\ votedFor \in [Server -> Server \cup {Nil}]
      /\ state \in [Server -> States] /\ log \in [Server -> Seq(Entry)]
      /\ nextIndex \in [Server -> [Server -> Nat]] /\ raftstate \in [Server -> Persistent]
      /\ matchIndex \in [Server -> [Server -> Nat]] /\ appendRep \subseteq AppendReply
  BY <1>0 DEF TypeOK
<1>4. /\ UNCHANGED <<voteCount, commitIndex, lastApplied, pc, calls, voteReq, voteRep,
                     appendReq, history>>
      /\ appendRep' \subseteq AppendReply
      /\ UNCHANGED log
  BY <1>3, Zenon DEF AppendReplied
<1>5. /\ currentTerm' \in [Server -> Nat]
      /\ votedFor' \in [Server -> Server \cup {Nil}]
      /\ state' \in [Server -> States]
      /\ \A j \in Server \ {i} : currentTerm'[j] = currentTerm[j] /\ votedFor'[j] = votedFor[j]
  BY <1>2, <1>3, Zenon DEF AppendReplied, StepDown, States, Follower
<1>6. PersistedIsCurrent' /\ raftstate' \in [Server -> Persistent]
  <2>1. CASE persist(i)
    BY <1>0, <1>2, <1>3, <1>4, <1>5, <2>1, PersistFrame, Zenon
  <2>2. CASE UNCHANGED <<currentTerm, votedFor, raftstate>>
    BY <1>0, <1>3, <1>4, <2>2 DEF PersistedIsCurrent
  <2>3. persist(i) \/ UNCHANGED <<currentTerm, votedFor, raftstate>>
    BY DEF AppendReplied
  <2> QED
    BY <2>1, <2>2, <2>3
<1>7. PICK b \in Nat, n \in Nat :
        \/ UNCHANGED <<nextIndex, matchIndex>>
        \/ nextIndex' = [nextIndex EXCEPT ![i][r.dst] = b] /\ UNCHANGED matchIndex
        \/ /\ nextIndex' = [nextIndex EXCEPT ![i][r.dst] = n + 1]
           /\ matchIndex' = [matchIndex EXCEPT ![i][r.dst] = n]
  <2>1. Backoff(log[i], r.prev, r) \in Nat
    <3>1. Backoff(log[i], r.prev, r) = r.XIndex \/ Backoff(log[i], r.prev, r) \in 1..r.prev
      BY <1>2, BackoffBounds
    <3>2. r.prev \in Nat /\ r.XIndex \in Nat
      BY <1>2
    <3> QED
      BY <3>1, <3>2
  <2>2. MatchAfter(i, r) \in Nat
    BY <1>2 DEF MatchAfter
  <2>3. \/ UNCHANGED <<nextIndex, matchIndex>>
        \/ /\ nextIndex' = [nextIndex EXCEPT ![i][r.dst] = Backoff(log[i], r.prev, r)]
           /\ UNCHANGED matchIndex
        \/ /\ nextIndex' = [nextIndex EXCEPT ![i][r.dst] = MatchAfter(i, r) + 1]
           /\ matchIndex' = [matchIndex EXCEPT ![i][r.dst] = MatchAfter(i, r)]
    BY DEF AppendReplied
  <2> QED
    BY <2>1, <2>2, <2>3
<1>8. /\ nextIndex' \in [Server -> [Server -> Nat]]
      /\ matchIndex' \in [Server -> [Server -> Nat]]
      /\ r.src # r.dst => \A k \in Server : matchIndex'[k][k] = matchIndex[k][k]
  <2>1. n + 1 \in Nat
    OBVIOUS
  <2>2. CASE UNCHANGED <<nextIndex, matchIndex>>
    BY <1>3, <2>2, Zenon
  <2>3. CASE nextIndex' = [nextIndex EXCEPT ![i][r.dst] = b] /\ UNCHANGED matchIndex
    BY <1>2, <1>3, <2>3, EntryUpdate, Zenon
  <2>4. CASE /\ nextIndex' = [nextIndex EXCEPT ![i][r.dst] = n + 1]
             /\ matchIndex' = [matchIndex EXCEPT ![i][r.dst] = n]
    BY <1>2, <1>3, <2>1, <2>4, EntryUpdate, ZenonT(30)
  <2> QED
    BY <1>7, <2>2, <2>3, <2>4
<1>9. TypeOK'
  BY <1>0, <1>4, <1>5, <1>6, <1>8, Zenon DEF TypeOK, calls, history
<1>10. OwnMatchInLog'
  <2>1. r.src # r.dst
    BY <1>0 DEF LogInv, NoSelfCalls
  <2> QED
    BY <1>0, <1>4, <1>8, <2>1 DEF LogInv, OwnMatchInLog
<1>11. (IndexIsPosition /\ AppliersContiguous /\ HeadersOK /\ NoSelfCalls)'
  <2>1. appendRep' \subseteq appendRep
    BY DEF AppendReplied
  <2> QED
    BY <1>0, <1>4, <2>1 DEF LogInv, IndexIsPosition, AppliersContiguous, HeadersOK,
                            NoSelfCalls, calls
<1> QED
  BY <1>6, <1>9, <1>10, <1>11 DEF IndInv, LogInv

----------------------------------------------------------------------------
(* The invariants of Raft.                                                 *)

\* Every step preserves the invariant.
LEMMA NextInv == ASSUME IndInv, [Next]_vars PROVE IndInv'
<1>1. CASE NetworkStep
  <2>1. CASE \E g \in asking : sendRequestVote(g)
    BY <2>1, SendRequestVoteInv
  <2>2. CASE \E m \in voteReq : RequestVote(m)
    BY <2>2, RequestVoteInv
  <2>3. CASE \E r \in voteRep : VoteReplied(r)
    BY <2>3, VoteRepliedInv
  <2>4. CASE \E m \in appendReq : AppendEntries(m)
    BY <2>4, AppendStaleInv, AppendConflictInv, AppendMatchInv DEF AppendEntries
  <2>5. CASE \E r \in appendRep : AppendReplied(r)
    BY <2>5, AppendRepliedInv
  <2>6. CASE \E m \in appendReq \cup appendRep : LoseAppend(m)
    BY <2>6, LoseAppendInv
  <2> QED
    BY <1>1, <2>1, <2>2, <2>3, <2>4, <2>5, <2>6 DEF NetworkStep
<1>2. ASSUME NEW i \in Server, PeerStep(i) PROVE IndInv'
  <2>1. CASE Run(i)
    BY <2>1, RunInv
  <2>2. CASE runFollower(i) \/ runCandidate(i)
    BY <2>2, CandidacyInv
  <2>3. CASE startElection(i)
    BY <2>3, StartElectionInv
  <2>4. CASE sendHearbeat(i)
    BY <2>4, SendHearbeatInv
  <2>5. CASE \E j \in Server : sendAppendEntries(i, j)
    BY <2>5, SendAppendEntriesInv
  <2>6. CASE \E c \in Command : GetState(i, c)
    BY <2>6, GetStateInv
  <2>7. CASE \E s \in starting[i] : Start(i, s)
    BY <2>7, StartInv
  <2>8. CASE \E g \in applying[i] : ApplySend(i, g)
    BY <2>8, ApplySendInv
  <2>9. CASE \E g \in applying[i] : ApplyDone(i, g)
    BY <2>9, ApplyDoneInv
  <2>10. CASE Restart(i)
    BY <2>10, RestartInv
  <2> QED
    BY <1>2, <2>1, <2>2, <2>3, <2>4, <2>5, <2>6, <2>7, <2>8, <2>9, <2>10, Zenon DEF PeerStep
<1>3. CASE UNCHANGED vars
  BY <1>3, StutterInv
<1> QED
  BY <1>1, <1>2, <1>3 DEF Next

\* The inductive invariant holds in every reachable state of the peers, for any
\* finite set of peers and any bounds.
THEOREM Invariance == Spec => []IndInv
BY InitInv, NextInv, PTL DEF Spec

\* The state of every peer keeps its shape: in particular votedFor is a peer or
\* Nil, and no handler builds a negative nextIndex or a malformed hint.
THEOREM TypeCorrect == Spec => []TypeOK
<1>1. IndInv => TypeOK
  BY DEF IndInv
<1> QED
  BY <1>1, Invariance, PTL

\* Every critical section that changes the term, the vote or the log saves them
\* before it unlocks, so a crash between any two steps loses nothing.
THEOREM Durability == Spec => []PersistedIsCurrent
<1>1. IndInv => PersistedIsCurrent
  BY DEF IndInv
<1> QED
  BY <1>1, Invariance, PTL

\* Entry.Index is the position, in logs of any length, however AppendEntries
\* calls of any age have cut and extended them.
THEOREM IndexPosition == Spec => []IndexIsPosition
<1>1. IndInv => IndexIsPosition
  BY DEF IndInv, LogInv
<1> QED
  BY <1>1, Invariance, PTL

\* matchIndex[me] is an index of the log, so the commit rule reads log[minN]
\* without running off the log.
THEOREM OwnMatch == Spec => []OwnMatchInLog
<1>1. IndInv => OwnMatchInLog
  BY DEF IndInv, LogInv
<1> QED
  BY <1>1, Invariance, PTL

----------------------------------------------------------------------------
(* Delivery in order.                                                      *)

\* the service of peer i has received an ApplyMsg with CommandIndex n
Received(i, n) == \E q \in applied[i] : q[1] = n

\* an applier sends the message after one that has been received, whichever
\* applier sent that one, and lastApplied counts only received ones
OrderInv ==
  /\ \A i \in Server : lastApplied[i] = 0 \/ Received(i, lastApplied[i])
  /\ \A i \in Server : \A g \in applying[i] :
       /\ Head(g.entries).Index >= 1
       /\ Head(g.entries).Index = 1 \/ Received(i, Head(g.entries).Index - 1)
       /\ g.sent => Received(i, Head(g.entries).Index)

\* The index the commit rule picks is an index of the log.
LEMMA CommitInLog ==
  ASSUME TypeOK, OwnMatchInLog, NEW i \in Server,
         NEW n \in {matchIndex[i][j] : j \in Ahead(i)}, CanCommit(i, n)
  PROVE  n \in Nat /\ n <= Len(log[i])
<1>0. matchIndex[i] \in [Server -> Nat] /\ commitIndex[i] \in Nat /\ log[i] \in Seq(Entry)
  BY Zenon DEF TypeOK
<1>1. matchIndex[i] \in [Server -> Nat] /\ commitIndex[i] \in Nat /\ Len(log[i]) \in Nat
  BY <1>0
<1>2. n \in Nat
  BY <1>1 DEF Ahead
<1>3. n <= matchIndex[i][i]
  BY <1>1 DEF CanCommit, Ahead
<1>4. matchIndex[i][i] <= Len(log[i]) /\ matchIndex[i][i] \in Nat
  BY <1>1 DEF OwnMatchInLog
<1> QED
  BY <1>1, <1>2, <1>3, <1>4

\* The steps that touch the appliers, or what their service has received: a
\* restart, the two halves of an applier's turn, and the three places that call
\* sendApplyMsg with a commitIndex inside the log.
LEMMA ApplierStep ==
  ASSUME IndInv, [Next]_vars
  PROVE  \/ UNCHANGED <<lastApplied, applying, applied, delivered>>
         \/ \E i \in Server : Restart(i)
         \/ \E i \in Server : \E g \in applying[i] : ApplySend(i, g) \/ ApplyDone(i, g)
         \/ /\ UNCHANGED <<lastApplied, applied, delivered>>
            /\ \E i \in Server :
                 /\ sendApplyMsg(i)
                 /\ commitIndex'[i] > lastApplied[i] => commitIndex'[i] <= Len(log'[i])
<1>0. TypeOK /\ LogInv
  BY DEF IndInv
<1>1. /\ commitIndex \in [Server -> Nat] /\ log \in [Server -> Seq(Entry)]
      /\ appendReq \subseteq AppendRequest
  BY <1>0 DEF TypeOK
<1> DEFINE Quiet == UNCHANGED <<lastApplied, applying, applied, delivered>>
           Sends(i) == /\ UNCHANGED <<lastApplied, applied, delivered>>
                       /\ sendApplyMsg(i)
                       /\ commitIndex'[i] > lastApplied[i] => commitIndex'[i] <= Len(log'[i])
<1>2. CASE UNCHANGED vars
  BY <1>2, Zenon DEF vars, logs, calls, history
<1>3. CASE NetworkStep
  <2>1. CASE \/ \E g \in asking : sendRequestVote(g)
             \/ \E m \in voteReq : RequestVote(m)
             \/ \E r \in voteRep : VoteReplied(r)
             \/ \E r \in appendRep : AppendReplied(r)
             \/ \E m \in appendReq \cup appendRep : LoseAppend(m)
    <3>1. Quiet
      BY <2>1, Zenon DEF sendRequestVote, RequestVote, VoteReplied, AppendReplied, LoseAppend,
                         logs, calls, history
    <3> QED
      BY <3>1
  <2>2. ASSUME NEW m \in appendReq, AppendEntries(m) PROVE Quiet \/ \E i \in Server : Sends(i)
    <3>1. m.dst \in Server
      BY <1>1 DEF AppendRequest
    <3>2. CASE AppendStale(m)
      BY <3>2, Zenon DEF AppendStale, logs, calls, history
    <3>3. CASE AppendConflict(m)
      <4>1. commitIndex'[m.dst] = commitIndex[m.dst] /\ log'[m.dst] = log[m.dst]
        BY <3>3, Zenon DEF AppendConflict
      <4>2. Sends(m.dst)
        BY <3>3, <4>1, Zenon DEF AppendConflict, history
      <4> QED
        BY <3>1, <4>2
    <3>4. CASE AppendMatch(m)
      <4> DEFINE new == MergeEntries(log[m.dst], m.Entries)
                 c == CommitTo(m.dst, m, new)
      <4> HIDE DEF c, new
      <4>1. commitIndex' = [commitIndex EXCEPT ![m.dst] = c] /\ log' = [log EXCEPT ![m.dst] = new]
        BY <3>4, Zenon DEF AppendMatch, c, new
      <4>2. commitIndex'[m.dst] = c /\ log'[m.dst] = new
        BY <1>1, <3>1, <4>1
      <4>3. /\ UNCHANGED <<lastApplied, applied, delivered>> /\ sendApplyMsg(m.dst)
            /\ c > lastApplied[m.dst] => c <= Len(new)
        BY <3>4, Zenon DEF AppendMatch, history, c, new
      <4> QED
        BY <3>1, <4>2, <4>3, Zenon
    <3> QED
      BY <2>2, <3>2, <3>3, <3>4 DEF AppendEntries
  <2> QED
    BY <1>3, <2>1, <2>2, Zenon DEF NetworkStep
<1>4. ASSUME NEW i \in Server, PeerStep(i)
      PROVE  Quiet \/ Restart(i) \/ Sends(i)
             \/ \E g \in applying[i] : ApplySend(i, g) \/ ApplyDone(i, g)
  <2>1. CASE \/ Run(i) \/ runFollower(i) \/ startElection(i) \/ runCandidate(i)
             \/ \E j \in Server : sendAppendEntries(i, j)
             \/ \E c \in Command : GetState(i, c)
             \/ \E s \in starting[i] : Start(i, s)
    <3>1. Quiet
      BY <2>1, Zenon DEF Run, runFollower, startElection, runCandidate, sendAppendEntries,
                         GetState, Start, logs, calls, history
    <3> QED
      BY <3>1, Zenon
  <2>2. CASE sendHearbeat(i)
    <3> DEFINE ns == {n \in {matchIndex[i][j] : j \in Ahead(i)} : CanCommit(i, n)}
    <3>1. UNCHANGED <<log, lastApplied, applied, delivered>>
      BY <2>2, Zenon DEF sendHearbeat, history
    <3>2. CASE ns = {}
      BY <2>2, <3>1, <3>2, Zenon DEF sendHearbeat
    <3>3. CASE ns # {}
      <4>1. PICK n \in ns : commitIndex' = [commitIndex EXCEPT ![i] = n] /\ sendApplyMsg(i)
        BY <2>2, <3>3, Zenon DEF sendHearbeat
      <4>2. n <= Len(log[i])
        BY <1>0, CommitInLog DEF LogInv
      <4>3. commitIndex'[i] = n /\ log'[i] = log[i]
        BY <1>1, <3>1, <4>1
      <4> QED
        BY <3>1, <4>1, <4>2, <4>3, Zenon
    <3> QED
      BY <3>2, <3>3, Zenon
  <2> QED
    BY <1>4, <2>1, <2>2, Zenon DEF PeerStep
<1> QED
  BY <1>2, <1>3, <1>4, Zenon DEF Next

\* Every step keeps the order: an ApplyMsg is sent only after the one before it,
\* even where several appliers run over the same entries, and the race on the
\* shared slice cannot change an index.
LEMMA OrderStep ==
  ASSUME IndInv, OrderInv, [Next]_vars PROVE OrderInv'
<1>0. TypeOK /\ LogInv /\ TypeOK' /\ LogInv'
  BY NextInv DEF IndInv
<1>1. /\ lastApplied \in [Server -> Nat] /\ applying \in [Server -> SUBSET Applier]
      /\ applied \in [Server -> SUBSET (Nat \X Command)]
      /\ log \in [Server -> Seq(Entry)] /\ log' \in [Server -> Seq(Entry)]
      /\ commitIndex' \in [Server -> Nat]
  BY <1>0 DEF TypeOK
<1>2. CASE UNCHANGED <<lastApplied, applying, applied, delivered>>
  BY <1>2 DEF OrderInv, Received
<1>3. ASSUME NEW i \in Server, Restart(i) PROVE OrderInv'
  <2>1. /\ lastApplied' = [lastApplied EXCEPT ![i] = 0]
        /\ applying' = [applying EXCEPT ![i] = {}]
        /\ applied' = [applied EXCEPT ![i] = {}]
    BY <1>3, Zenon DEF Restart
  <2> QED
    BY SMTT(30), <1>1, <2>1 DEF OrderInv, Received
<1>4. ASSUME NEW i \in Server, NEW g \in applying[i]
      PROVE  /\ g.entries \in Seq(Entry) /\ Len(g.entries) >= 1 /\ Len(g.entries) \in Nat
             /\ Head(g.entries) = g.entries[1] /\ Head(g.entries) \in Entry
             /\ Head(g.entries).Index \in Nat
             /\ Head(g.entries).Index >= 1
             /\ Head(g.entries).Index = 1 \/ Received(i, Head(g.entries).Index - 1)
             /\ g.sent => Received(i, Head(g.entries).Index)
  <2>1. g.entries \in Seq(Entry) /\ Len(g.entries) >= 1
    BY <1>0, <1>1 DEF LogInv, AppliersContiguous, Applier
  <2>2. Head(g.entries) = g.entries[1] /\ Head(g.entries) \in Entry /\ Len(g.entries) \in Nat
    BY <2>1
  <2>3. Head(g.entries).Index \in Nat
    BY <2>2 DEF Entry
  <2> QED
    BY <2>1, <2>2, <2>3, Zenon DEF OrderInv
<1>5. ASSUME NEW i \in Server, NEW g \in applying[i], ApplySend(i, g) PROVE OrderInv'
  <2> DEFINE h == [g EXCEPT !.sent = TRUE]
             n == Head(g.entries).Index
  <2>1. g \in Applier /\ h.entries = g.entries
    BY <1>1 DEF Applier
  <2>2. PICK e \in SliceRead(i, Head(g.entries)) : Deliver(i, e)
    BY <1>5 DEF ApplySend
  <2>3. e.Index = n
    <3>1. \A k \in 1..Len(log[i]) : log[i][k].Index = k
      BY <1>0 DEF LogInv, IndexIsPosition
    <3> QED
      BY <2>2, <3>1 DEF SliceRead
  <2>4. /\ applied' = [applied EXCEPT ![i] = @ \cup {<<n, e.Command>>}]
        /\ applying' = [applying EXCEPT ![i] = (@ \ {g}) \cup {h}]
        /\ lastApplied' = lastApplied
    BY <1>5, <2>2, <2>3, Zenon DEF ApplySend, Deliver, logs
  <2> HIDE DEF h
  <2>5. /\ \A j \in Server : applied[j] \subseteq applied'[j]
        /\ <<n, e.Command>> \in applied'[i]
        /\ \A j \in Server : applying'[j] \subseteq applying[j] \cup (IF j = i THEN {h} ELSE {})
    BY <1>1, <2>4
  <2>6. (\A j \in Server : \A k : Received(j, k) => Received(j, k)') /\ Received(i, n)'
    BY <2>5, Zenon DEF Received
  <2>7. ASSUME NEW j \in Server, NEW f \in applying'[j]
        PROVE  /\ Head(f.entries).Index >= 1
               /\ Head(f.entries).Index = 1 \/ Received(j, Head(f.entries).Index - 1)'
               /\ f.sent => Received(j, Head(f.entries).Index)'
    <3>1. CASE f \in applying[j]
      BY <1>4, <2>6, <3>1, Zenon
    <3>2. CASE f = h /\ j = i
      BY <1>4, <2>1, <2>6, <3>2, Zenon
    <3> QED
      BY <2>5, <2>7, <3>1, <3>2
  <2>8. (\A j \in Server : lastApplied[j] = 0 \/ Received(j, lastApplied[j]))'
    BY <2>4, <2>6 DEF OrderInv
  <2> QED
    BY <2>7, <2>8 DEF OrderInv, Received
<1>6. ASSUME NEW i \in Server, NEW g \in applying[i], ApplyDone(i, g) PROVE OrderInv'
  <2> DEFINE es == g.entries
             n == Head(es).Index
             h == [entries |-> Tail(es), sent |-> FALSE]
  <2>1. /\ Received(i, n) /\ n \in Nat /\ n >= 1
        /\ applied' = applied
        /\ lastApplied' = [lastApplied EXCEPT ![i] = IF @ < n THEN n ELSE @]
    BY <1>4, <1>6 DEF ApplyDone, history
  <2>2. applying'[i] \subseteq applying[i] \cup (IF Len(es) = 1 THEN {} ELSE {h})
    BY <1>1, <1>6, Zenon DEF ApplyDone
  <2>3. \A j \in Server \ {i} : applying'[j] = applying[j]
    BY <1>1, <1>6 DEF ApplyDone
  <2>4. ASSUME Len(es) # 1 PROVE Head(Tail(es)).Index = n + 1
    <3>0. /\ es \in Seq(Entry) /\ Len(es) >= 1 /\ Len(es) \in Nat /\ Head(es) = es[1]
      BY <1>4
    <3>a. Len(es) > 1
      <4>1. \A x \in Nat : x >= 1 /\ x # 1 => x > 1
        OBVIOUS
      <4> QED
        BY <2>4, <3>0, <4>1, Zenon
    <3>1. es \in Seq(Entry) /\ Len(es) > 1 /\ Len(es) \in Nat /\ n = es[1].Index
      BY <3>0, <3>a
    <3>2. Head(Tail(es)) = es[2] /\ 2 \in 1..Len(es)
      BY <3>1
    <3>3. es[2].Index = es[1].Index + 2 - 1
      BY <1>0, <3>2 DEF LogInv, AppliersContiguous
    <3> QED
      BY <2>1, <3>1, <3>2, <3>3
  <2>5. \A j \in Server : \A k : Received(j, k)' <=> Received(j, k)
    BY <2>1 DEF Received
  <2> HIDE DEF n, es
  <2>6. ASSUME NEW j \in Server, NEW f \in applying'[j]
        PROVE  /\ Head(f.entries).Index >= 1
               /\ Head(f.entries).Index = 1 \/ Received(j, Head(f.entries).Index - 1)'
               /\ f.sent => Received(j, Head(f.entries).Index)'
    <3>1. CASE f \in applying[j]
      BY <1>4, <2>5, <3>1
    <3>2. CASE f = h /\ j = i /\ Len(es) # 1
      <4>0. f.entries = Tail(es) /\ f.sent = FALSE
        BY <3>2
      <4>1. f.sent = FALSE /\ Head(f.entries).Index = n + 1
        BY <2>4, <3>2, <4>0, Zenon
      <4>2. Head(f.entries).Index - 1 = n
        BY <2>1, <4>1
      <4> QED
        <5>1. n + 1 >= 1
          BY <2>1
        <5> QED
          BY <2>1, <2>5, <3>2, <4>1, <4>2, <5>1, Zenon
    <3> QED
      BY <2>2, <2>3, <2>6, <3>1, <3>2
  <2>7. (\A j \in Server : lastApplied[j] = 0 \/ Received(j, lastApplied[j]))'
    BY <1>1, <2>1, <2>5 DEF OrderInv
  <2> QED
    BY <2>6, <2>7 DEF OrderInv, Received
<1>7. ASSUME NEW i \in Server, UNCHANGED <<lastApplied, applied>>, sendApplyMsg(i),
             commitIndex'[i] > lastApplied[i] => commitIndex'[i] <= Len(log'[i])
      PROVE  OrderInv'
  <2> DEFINE es == SubSeq(log'[i], lastApplied[i] + 1, commitIndex'[i])
             h == [entries |-> es, sent |-> FALSE]
  <2>1. CASE commitIndex'[i] <= lastApplied[i]
    BY <1>7, <2>1 DEF sendApplyMsg, OrderInv, Received
  <2>2. CASE commitIndex'[i] > lastApplied[i]
    <3>1. /\ log'[i] \in Seq(Entry) /\ lastApplied[i] \in Nat /\ commitIndex'[i] \in Nat
          /\ \A k \in 1..Len(log'[i]) : log'[i][k].Index = k
      BY <1>0, <1>1 DEF LogInv, IndexIsPosition
    <3>2. /\ es \in Seq(Entry) /\ Len(es) = commitIndex'[i] - lastApplied[i]
          /\ \A k \in 1..Len(es) : es[k].Index = lastApplied[i] + k
      BY <1>7, <2>2, <3>1, SliceShape, Zenon
    <3>3. applying' = [applying EXCEPT ![i] = @ \cup {h}]
      BY <1>7, <2>2, <3>1 DEF sendApplyMsg
    <3> HIDE DEF es
    <3>4. Head(es).Index = lastApplied[i] + 1
      <4>1. \A s \in Seq(Entry) : Len(s) > 0 => Head(s) = s[1] /\ 1 \in 1..Len(s)
        OBVIOUS
      <4>2. Len(es) > 0
        BY <2>2, <3>1, <3>2
      <4> QED
        BY <3>2, <4>1, <4>2, Zenon
    <3>5. h.entries = es /\ h.sent = FALSE
      OBVIOUS
    <3> HIDE DEF h
    <3>6. \A j \in Server : applying'[j] \subseteq applying[j] \cup (IF j = i THEN {h} ELSE {})
      BY <1>1, <3>3
    <3>7. \A j \in Server : \A k : Received(j, k)' <=> Received(j, k)
      BY <1>7 DEF Received
    <3>8. ASSUME NEW j \in Server, NEW f \in applying'[j]
          PROVE  /\ Head(f.entries).Index >= 1
                 /\ Head(f.entries).Index = 1 \/ Received(j, Head(f.entries).Index - 1)'
                 /\ f.sent => Received(j, Head(f.entries).Index)'
      <4>1. CASE f \in applying[j]
        BY <1>4, <3>7, <4>1, Zenon
      <4>2. CASE f = h /\ j = i
        <5>1. lastApplied[i] = 0 \/ Received(i, lastApplied[i])
          BY DEF OrderInv
        <5>2. Head(f.entries).Index = lastApplied[i] + 1 /\ f.sent = FALSE
          BY <3>4, <3>5, <4>2
        <5>3. Head(f.entries).Index - 1 = lastApplied[i] /\ Head(f.entries).Index >= 1
          BY <3>1, <5>2
        <5>4. lastApplied[i] = 0 => Head(f.entries).Index = 1
          BY <5>2
        <5>5. Head(f.entries).Index = 1 \/ Received(i, Head(f.entries).Index - 1)'
          BY <1>7, <5>1, <5>3, <5>4, Zenon DEF Received
        <5> QED
          BY <4>2, <5>2, <5>3, <5>5, Zenon
      <4> QED
        BY <3>6, <3>8, <4>1, <4>2, Zenon
    <3>9. (\A j \in Server : lastApplied[j] = 0 \/ Received(j, lastApplied[j]))'
      BY <1>7, <3>7 DEF OrderInv
    <3> QED
      BY <3>8, <3>9 DEF OrderInv, Received
  <2> QED
    BY <1>1, <2>1, <2>2
<1> QED
  BY <1>2, <1>3, <1>5, <1>6, <1>7, ApplierStep, Zenon

\* Order in a state: what has been received has no gap.  The last message of an
\* applier's entry joins the ones before it.
LEMMA AppliedStep ==
  ASSUME IndInv, OrderInv, ApplyInOrder, [Next]_vars PROVE ApplyInOrder'
<1>0. TypeOK /\ LogInv
  BY DEF IndInv
<1>1. /\ applying \in [Server -> SUBSET Applier]
      /\ applied \in [Server -> SUBSET (Nat \X Command)]
  BY <1>0 DEF TypeOK
<1>2. CASE UNCHANGED applied
  BY <1>2 DEF ApplyInOrder
<1>3. ASSUME NEW i \in Server, Restart(i) PROVE ApplyInOrder'
  BY <1>1, <1>3, Zenon DEF Restart, ApplyInOrder
<1>4. ASSUME NEW i \in Server, NEW g \in applying[i], ApplySend(i, g) PROVE ApplyInOrder'
  <2> DEFINE n == Head(g.entries).Index
  <2>1. PICK e \in SliceRead(i, Head(g.entries)) : Deliver(i, e)
    BY <1>4 DEF ApplySend
  <2>2. e.Index = n
    <3>1. \A k \in 1..Len(log[i]) : log[i][k].Index = k
      BY <1>0 DEF LogInv, IndexIsPosition
    <3> QED
      BY <2>1, <3>1, Zenon DEF SliceRead
  <2>3. applied' = [applied EXCEPT ![i] = @ \cup {<<n, e.Command>>}]
    BY <2>1, <2>2 DEF Deliver
  <2>4. n >= 1 /\ (n = 1 \/ Received(i, n - 1))
    BY Zenon DEF OrderInv
  <2> HIDE DEF n
  <2>5. /\ \A j \in Server \ {i} : applied'[j] = applied[j]
        /\ applied'[i] = applied[i] \cup {<<n, e.Command>>}
    BY <1>1, <2>3
  <2>6. ASSUME NEW p \in applied'[i]
        PROVE  p[1] >= 1 /\ (p[1] > 1 => \E q \in applied'[i] : q[1] = p[1] - 1)
    <3>1. CASE p \in applied[i]
      BY <2>5, <3>1 DEF ApplyInOrder
    <3>2. CASE p = <<n, e.Command>>
      <4>1. p[1] = n
        BY <3>2
      <4> QED
        BY <2>4, <2>5, <4>1 DEF Received
    <3> QED
      BY <2>5, <3>1, <3>2
  <2>7. ASSUME NEW j \in Server \ {i}, NEW p \in applied'[j]
        PROVE  p[1] >= 1 /\ (p[1] > 1 => \E q \in applied'[j] : q[1] = p[1] - 1)
    BY <2>5, <2>7, ZenonT(30) DEF ApplyInOrder
  <2> QED
    BY <2>6, <2>7, Zenon DEF ApplyInOrder
<1>5. ASSUME NEW i \in Server, NEW g \in applying[i], ApplyDone(i, g) PROVE ApplyInOrder'
  BY <1>5, Zenon DEF ApplyDone, history, ApplyInOrder
<1> QED
  BY <1>2, <1>3, <1>4, <1>5, ApplierStep, Zenon

\* A service receives every index once the index before it has been received,
\* for any number of appliers, peers, restarts and elections.
THEOREM InOrder == Spec => []ApplyInOrder
<1>1. Init => OrderInv /\ ApplyInOrder
  BY DEF Init, OrderInv, ApplyInOrder
<1>2. IndInv /\ OrderInv /\ ApplyInOrder /\ [Next]_vars => OrderInv' /\ ApplyInOrder'
  BY OrderStep, AppliedStep
<1> QED
  BY <1>1, <1>2, Invariance, PTL DEF Spec

----------------------------------------------------------------------------
(* What a step can do to logs and to the calls in flight.                  *)

\* The log of a peer changes in Start and in AppendEntries only; a restart reads
\* back the log the peer had.
LEMMA LogStep ==
  ASSUME IndInv, [Next]_vars
  PROVE  \/ UNCHANGED log
         \/ \E i \in Server : \E s \in starting[i] : Start(i, s)
         \/ \E m \in appendReq : AppendMatch(m)
<1>0. TypeOK /\ PersistedIsCurrent
  BY DEF IndInv
<1>1. CASE UNCHANGED vars
  BY <1>1 DEF vars, logs
<1>2. CASE NetworkStep
  BY <1>2, Zenon DEF NetworkStep, sendRequestVote, RequestVote, VoteReplied, AppendEntries,
                     AppendStale, AppendConflict, AppendReplied, LoseAppend, logs
<1>3. ASSUME NEW i \in Server, PeerStep(i)
      PROVE  UNCHANGED log \/ \E s \in starting[i] : Start(i, s)
  <2>1. CASE Restart(i)
    <3>1. log \in [Server -> Seq(Entry)] /\ log' = [log EXCEPT ![i] = raftstate[i].log]
      BY <1>0, <2>1, Zenon DEF TypeOK, Restart
    <3>2. IsPersisted(raftstate[i], log[i], currentTerm[i], votedFor[i])
      BY <1>0, Zenon DEF PersistedIsCurrent, IsPersisted
    <3>3. raftstate[i].log = log[i]
      BY <3>2, Persisted, Zenon DEF PersistedFields
    <3>4. \A f \in [Server -> Seq(Entry)] : [f EXCEPT ![i] = f[i]] = f
      OBVIOUS
    <3> QED
      BY <3>1, <3>3, <3>4, Zenon
  <2>2. CASE ~Restart(i)
    BY <1>3, <2>2, Zenon DEF PeerStep, Run, runFollower, startElection, runCandidate, sendHearbeat,
                       sendAppendEntries, GetState, ApplySend, ApplyDone, logs
  <2> QED
    BY <2>1, <2>2
<1> QED
  BY <1>1, <1>2, <1>3, Zenon DEF Next

\* Start appends to the log of its peer.
LEMMA StartLog ==
  ASSUME TypeOK, NEW i \in Server, NEW s \in starting[i], Start(i, s)
  PROVE  /\ log[i] \in Seq(Entry) /\ NewEntry(i, s) \in Entry
         /\ log'[i] = Append(log[i], NewEntry(i, s))
         /\ \A j \in Server \ {i} : log'[j] = log[j]
         /\ UNCHANGED grants
<1>1. log \in [Server -> Seq(Entry)] /\ s \in [cmd : Command, term : Nat]
  <2>1. log \in [Server -> Seq(Entry)]
        /\ starting \in [Server -> SUBSET [cmd : Command, term : Nat]]
    BY Zenon DEF TypeOK
  <2> QED
    BY <2>1
<1>2. NewEntry(i, s) \in Entry
  <2>1. \A t \in Nat, c \in Command, n \in Nat : [Term |-> t, Command |-> c, Index |-> n] \in Entry
    BY DEF Entry
  <2>2. s.term \in Nat /\ s.cmd \in Command
    BY ONLY <1>1
  <2>3. Len(log[i]) + 1 \in Nat
    BY <1>1
  <2> QED
    BY <2>1, <2>2, <2>3, Zenon DEF NewEntry
<1>3. log' = [log EXCEPT ![i] = Append(log[i], NewEntry(i, s))] /\ UNCHANGED grants
  BY Zenon DEF Start, history
<1>4. \A f \in [Server -> Seq(Entry)] : \A x :
        /\ [f EXCEPT ![i] = x][i] = x
        /\ \A j \in Server \ {i} : [f EXCEPT ![i] = x][j] = f[j]
  BY Zenon
<1> QED
  BY <1>1, <1>2, <1>3, <1>4, Zenon

\* the same call, but for whether its caller is still there
SameCall(m, n) ==
  /\ m.src = n.src /\ m.dst = n.dst /\ m.Term = n.Term
  /\ m.PrevLogIndex = n.PrevLogIndex /\ m.PrevLogTerm = n.PrevLogTerm
  /\ m.LeaderCommit = n.LeaderCommit /\ m.Entries = n.Entries

\* a heartbeat as its leader sends it
Heartbeat(m) ==
  /\ state[m.src] = Leader /\ m.Term = currentTerm[m.src]
  /\ m.PrevLogIndex \in 0..Len(log[m.src])
  /\ m.PrevLogTerm = LogTerm(log[m.src], m.PrevLogIndex)
  /\ m.LeaderCommit = commitIndex[m.src]
  /\ m.Entries = SubSeq(log[m.src], m.PrevLogIndex + 1, Len(log[m.src]))

\* A call in flight after a step was in flight before it, or has just been sent
\* by a leader.
LEMMA CallStep ==
  ASSUME IndInv, [Next]_vars, NEW m \in appendReq'
  PROVE  \/ \E n \in appendReq : SameCall(m, n)
         \/ Heartbeat(m) /\ m.src \in Server /\ UNCHANGED <<election, logs, calls, history>>
<1>0. TypeOK /\ appendReq \subseteq AppendRequest
  BY SMTT(30) DEF IndInv, TypeOK
<1>1. CASE m \in appendReq
  BY <1>1 DEF SameCall
<1>2. ASSUME NEW i \in Server, NEW j \in Server, sendAppendEntries(i, j), m \notin appendReq
      PROVE  Heartbeat(m) /\ m.src \in Server /\ UNCHANGED <<election, logs, calls, history>>
  <2> DEFINE prev == nextIndex[i][j] - 1
             t == LogTerm(log[i], prev)
             es == SubSeq(log[i], prev + 1, Len(log[i]))
  <2>1. /\ state[i] = Leader /\ prev \in 0..Len(log[i])
        /\ appendReq' = appendReq \cup
             {[src |-> i, dst |-> j, live |-> TRUE, Term |-> currentTerm[i],
               PrevLogIndex |-> prev, PrevLogTerm |-> t, LeaderCommit |-> commitIndex[i],
               Entries |-> es]}
        /\ UNCHANGED <<election, logs, calls, history>>
    BY <1>2, Zenon DEF sendAppendEntries
  <2> HIDE DEF prev, t, es
  <2>2. m = [src |-> i, dst |-> j, live |-> TRUE, Term |-> currentTerm[i],
             PrevLogIndex |-> prev, PrevLogTerm |-> t, LeaderCommit |-> commitIndex[i],
             Entries |-> es]
    BY <1>2, <2>1, Zenon
  <2>3. /\ m.src = i /\ m.Term = currentTerm[i] /\ m.PrevLogIndex = prev
        /\ m.PrevLogTerm = t /\ m.LeaderCommit = commitIndex[i] /\ m.Entries = es
    BY <2>2, Zenon
  <2> QED
    BY <2>1, <2>3, Zenon DEF Heartbeat, t, es
<1>3. ASSUME NEW i \in Server, Restart(i) PROVE \E n \in appendReq : SameCall(m, n)
  <2>1. PICK n \in appendReq : m = IF n.src = i THEN [n EXCEPT !.live = FALSE] ELSE n
    BY <1>3, Zenon DEF Restart, Orphaned
  <2>2. SameCall(m, n)
    BY <1>0, <2>1 DEF SameCall, AppendRequest
  <2> QED
    BY <2>2
<1>4. \/ appendReq' \subseteq appendReq
      \/ \E i \in Server : Restart(i) \/ \E j \in Server : sendAppendEntries(i, j)
  <2>1. CASE UNCHANGED vars
    BY <2>1 DEF vars, network
  <2>2. CASE NetworkStep
    BY <2>2, ZenonT(30) DEF NetworkStep, sendRequestVote, RequestVote, VoteReplied, AppendEntries,
                       AppendStale, AppendConflict, AppendMatch, Answer, AppendReplied, LoseAppend
  <2>3. ASSUME NEW i \in Server, PeerStep(i)
        PROVE  \/ appendReq' \subseteq appendReq
               \/ Restart(i) \/ \E j \in Server : sendAppendEntries(i, j)
    BY <2>3, Zenon DEF PeerStep, Run, runFollower, startElection, runCandidate, sendHearbeat,
                       GetState, Start, ApplySend, ApplyDone, network
  <2> QED
    BY <2>1, <2>2, <2>3 DEF Next
<1> QED
  BY <1>1, <1>2, <1>3, <1>4

\* A Start call that is under way was so before the step, or GetState has just
\* read the term of a leader for it.
LEMMA StartingStep ==
  ASSUME IndInv, [Next]_vars, NEW i \in Server, NEW s \in starting'[i]
  PROVE  s \in starting[i] \/ (state[i] = Leader /\ s.term = currentTerm[i])
<1>0. starting \in [Server -> SUBSET [cmd : Command, term : Nat]]
  BY DEF IndInv, TypeOK
<1>1. CASE UNCHANGED starting
  BY <1>1
<1>2. ASSUME NEW j \in Server, Restart(j) PROVE s \in starting[i]
  BY <1>0, <1>2, Zenon DEF Restart
<1>3. ASSUME NEW j \in Server, NEW c \in Command, GetState(j, c)
      PROVE  s \in starting[i] \/ (state[i] = Leader /\ s.term = currentTerm[i])
  <2>1. /\ starting' = [starting EXCEPT ![j] = @ \cup {[cmd |-> c, term |-> currentTerm[j]]}]
        /\ state[j] = Leader
    BY <1>3, Zenon DEF GetState
  <2>2. CASE i = j
    <3>1. s \in starting[i] \/ s = [cmd |-> c, term |-> currentTerm[j]]
      BY <1>0, <2>1, <2>2, Zenon
    <3> QED
      BY <2>1, <2>2, <3>1
  <2>3. CASE i # j
    BY <1>0, <2>1, <2>3, Zenon
  <2> QED
    BY <2>2, <2>3
<1>4. ASSUME NEW j \in Server, NEW u \in starting[j], Start(j, u) PROVE s \in starting[i]
  <2>1. starting' = [starting EXCEPT ![j] = @ \ {u}]
    BY <1>4, Zenon DEF Start
  <2> QED
    BY <1>0, <2>1
<1>5. CASE NetworkStep
  BY <1>1, <1>5, Zenon DEF NetworkStep, sendRequestVote, RequestVote, VoteReplied, AppendEntries,
                     AppendStale, AppendConflict, AppendMatch, AppendReplied, LoseAppend, calls
<1>6. ASSUME NEW j \in Server, PeerStep(j)
      PROVE  s \in starting[i] \/ (state[i] = Leader /\ s.term = currentTerm[i])
  BY <1>1, <1>2, <1>3, <1>4, <1>6, Zenon
     DEF PeerStep, Run, runFollower, startElection, runCandidate, sendHearbeat,
         sendAppendEntries, ApplySend, ApplyDone, calls
<1>7. CASE UNCHANGED vars
  BY <1>1, <1>7 DEF vars, calls
<1> QED
  BY <1>5, <1>6, <1>7, Zenon DEF Next

----------------------------------------------------------------------------
(* What a step can do to elections and leaders.                            *)

\* Vote goroutines, RequestVote calls, their replies, counts and votes change in
\* five critical sections only.
LEMMA ElectionStep ==
  ASSUME [Next]_vars
  PROVE  \/ UNCHANGED <<asking, voteReq, voteRep, voteCount, grants>>
         \/ \E i \in Server : startElection(i) \/ Restart(i)
         \/ \E g \in asking : sendRequestVote(g)
         \/ \E m \in voteReq : RequestVote(m)
         \/ \E r \in voteRep : VoteReplied(r)
<1>1. CASE UNCHANGED vars
  BY <1>1 DEF vars, election, calls, network, history
<1>2. CASE NetworkStep
  BY <1>2, ZenonT(30) DEF NetworkStep, AppendEntries, AppendStale, AppendConflict, AppendMatch,
                     AppendReplied, LoseAppend, election, calls, history
<1>3. ASSUME NEW i \in Server, PeerStep(i)
      PROVE  \/ UNCHANGED <<asking, voteReq, voteRep, voteCount, grants>>
             \/ startElection(i) \/ Restart(i)
  BY <1>3, ZenonT(30) DEF PeerStep, Run, runFollower, runCandidate, sendHearbeat, sendAppendEntries,
                     GetState, Start, ApplySend, ApplyDone, election, calls, network, history
<1> QED
  BY <1>1, <1>2, <1>3 DEF Next

\* A peer becomes leader only by counting a majority in runCandidate.
LEMMA LeaderStep ==
  ASSUME TypeOK, [Next]_vars, NEW i \in Server, state'[i] = Leader
  PROVE  state[i] = Leader \/ (runCandidate(i) /\ IsMajority(voteCount[i]))
<1>1. /\ state \in [Server -> States] /\ Follower # Leader /\ Candidate # Leader
      /\ voteReq \subseteq VoteRequest /\ voteRep \subseteq VoteReply
      /\ appendReq \subseteq AppendRequest /\ appendRep \subseteq AppendReply
  BY DEF TypeOK, Follower, Leader, Candidate
<1>2. CASE UNCHANGED state
  BY <1>2
<1>3. ASSUME NEW j, NEW t, StepDown(j, t) PROVE state[i] = Leader
  BY <1>1, <1>3 DEF StepDown
<1>4. ASSUME NEW m \in voteReq, RequestVote(m) PROVE state[i] = Leader
  BY <1>1, <1>4, Zenon DEF RequestVote
<1>5. ASSUME NEW j \in Server, runCandidate(j)
      PROVE  state[i] = Leader \/ (runCandidate(i) /\ IsMajority(voteCount[i]))
  BY <1>1, <1>5, Zenon DEF runCandidate
<1>6. ASSUME NEW j \in Server, runFollower(j) \/ Restart(j) PROVE state[i] = Leader
  BY <1>1, <1>6, Zenon DEF runFollower, Restart
<1>7. CASE NetworkStep
  BY <1>2, <1>3, <1>4, <1>7, Zenon
     DEF NetworkStep, sendRequestVote, VoteReplied, AppendEntries, AppendStale, AppendConflict,
         AppendMatch, AdoptTerm, AppendReplied, LoseAppend, election
<1>8. ASSUME NEW j \in Server, PeerStep(j)
      PROVE  state[i] = Leader \/ (runCandidate(i) /\ IsMajority(voteCount[i]))
  BY <1>2, <1>5, <1>6, <1>8, Zenon
     DEF PeerStep, Run, startElection, sendHearbeat, sendAppendEntries, GetState, Start,
         ApplySend, ApplyDone, election
<1>9. CASE UNCHANGED vars
  BY <1>2, <1>9, Zenon DEF vars, election
<1> QED
  BY <1>7, <1>8, <1>9 DEF Next

----------------------------------------------------------------------------
(* What a step can do to the progress of replication.                      *)

\* What a leader believes another peer to have comes from a successful reply.
LEMMA MatchStep ==
  ASSUME IndInv, [Next]_vars, NEW i \in Server, NEW j \in Server, i # j
  PROVE  \/ matchIndex'[i][j] \in {0, matchIndex[i][j]}
         \/ \E r \in appendRep : r.Success /\ r.dst = j /\ matchIndex'[i][j] = r.prev + r.sent
<1>0. /\ matchIndex \in [Server -> [Server -> Nat]]
      /\ appendReq \subseteq AppendRequest /\ appendRep \subseteq AppendReply
  BY SMTT(30) DEF IndInv, TypeOK
<1> DEFINE Old == matchIndex'[i][j] = matchIndex[i][j]
<1>1. CASE UNCHANGED matchIndex
  BY <1>1
<1>2. ASSUME NEW k \in Server, NEW n, OwnProgress(k, n) PROVE Old
  BY <1>0, <1>2 DEF OwnProgress
<1>3. ASSUME NEW k \in Server, Restart(k) PROVE matchIndex'[i][j] \in {0, matchIndex[i][j]}
  BY <1>0, <1>3, Zenon DEF Restart, FreshMatch
<1>4. ASSUME NEW r \in appendRep, AppendReplied(r)
      PROVE  \/ Old
             \/ r.Success /\ r.dst = j /\ matchIndex'[i][j] = r.prev + r.sent
  <2>1. r.src \in Server /\ r.dst \in Server
    BY <1>0 DEF AppendReply
  <2>2. \/ UNCHANGED matchIndex
        \/ r.Success /\ matchIndex' = [matchIndex EXCEPT ![r.src][r.dst] = r.prev + r.sent]
    BY <1>4, Zenon DEF AppendReplied, MatchAfter
  <2> QED
    BY <1>0, <2>1, <2>2
<1>5. ASSUME NEW m \in appendReq, AppendEntries(m) PROVE Old
  <2>1. m.dst \in Server
    BY <1>0 DEF AppendRequest
  <2>2. UNCHANGED matchIndex \/ \E n : OwnProgress(m.dst, n)
    BY <1>5, Zenon DEF AppendEntries, AppendStale, AppendConflict, AppendMatch, logs
  <2> QED
    BY <1>2, <2>1, <2>2, Zenon
<1>6. CASE NetworkStep
  <2>1. CASE \/ \E g \in asking : sendRequestVote(g)
             \/ \E m \in voteReq : RequestVote(m)
             \/ \E r \in voteRep : VoteReplied(r)
             \/ \E m \in appendReq \cup appendRep : LoseAppend(m)
    <3>1. UNCHANGED matchIndex
      BY <2>1, Zenon DEF sendRequestVote, RequestVote, VoteReplied, LoseAppend, logs
    <3> QED
      BY <1>1, <3>1, Zenon
  <2> QED
    BY <1>4, <1>5, <1>6, <2>1, Zenon DEF NetworkStep
<1>7. ASSUME NEW k \in Server, PeerStep(k) PROVE matchIndex'[i][j] \in {0, matchIndex[i][j]}
  <2>1. CASE \/ Run(k) \/ runFollower(k) \/ startElection(k) \/ runCandidate(k) \/ sendHearbeat(k)
             \/ \E l \in Server : sendAppendEntries(k, l)
             \/ \E c \in Command : GetState(k, c)
             \/ \E g \in applying[k] : ApplySend(k, g)
             \/ \E g \in applying[k] : ApplyDone(k, g)
    <3>1. UNCHANGED matchIndex
      BY <2>1, Zenon DEF Run, runFollower, startElection, runCandidate, sendHearbeat,
                         sendAppendEntries, GetState, ApplySend, ApplyDone, logs
    <3> QED
      BY <3>1
  <2>2. CASE \E s \in starting[k] : Start(k, s)
    BY <1>2, <2>2, Zenon DEF Start
  <2> QED
    BY <1>3, <1>7, <2>1, <2>2, Zenon DEF PeerStep
<1>8. CASE UNCHANGED vars
  BY <1>1, <1>8 DEF vars, logs
<1> QED
  BY <1>6, <1>7, <1>8, Zenon DEF Next

\* commitIndex moves in the commit rule and in AppendEntries only; a restart
\* forgets it.
LEMMA CommitStep ==
  ASSUME IndInv, [Next]_vars, NEW i \in Server
  PROVE  \/ commitIndex'[i] \in {0, commitIndex[i]}
         \/ \E n \in {matchIndex[i][j] : j \in Ahead(i)} :
              CanCommit(i, n) /\ commitIndex'[i] = n
         \/ \E m \in appendReq :
              /\ AppendMatch(m) /\ m.dst = i
              /\ commitIndex'[i] \in Nat /\ commitIndex'[i] > 0
              /\ commitIndex'[i] <= m.LeaderCommit /\ commitIndex'[i] <= Len(log'[i])
<1>0. /\ commitIndex \in [Server -> Nat] /\ log \in [Server -> Seq(Entry)]
      /\ appendReq \subseteq AppendRequest /\ log' \in [Server -> Seq(Entry)]
      /\ commitIndex' \in [Server -> Nat]
  BY NextInv, Zenon DEF IndInv, TypeOK
<1>1. CASE UNCHANGED commitIndex
  BY <1>1, Zenon
<1>2. ASSUME NEW k \in Server, Restart(k) PROVE commitIndex'[i] \in {0, commitIndex[i]}
  BY <1>0, <1>2, Zenon DEF Restart
<1>3. ASSUME NEW k \in Server, sendHearbeat(k)
      PROVE  \/ commitIndex'[i] = commitIndex[i]
             \/ \E n \in {matchIndex[i][j] : j \in Ahead(i)} :
                  CanCommit(i, n) /\ commitIndex'[i] = n
  <2> DEFINE ns == {n \in {matchIndex[k][j] : j \in Ahead(k)} : CanCommit(k, n)}
  <2>1. \/ UNCHANGED commitIndex
        \/ \E n \in ns : commitIndex' = [commitIndex EXCEPT ![k] = n]
    BY <1>3, Zenon DEF sendHearbeat
  <2>2. ASSUME NEW n \in ns, commitIndex' = [commitIndex EXCEPT ![k] = n]
        PROVE  \/ commitIndex'[i] = commitIndex[i]
               \/ CanCommit(i, n) /\ commitIndex'[i] = n
                  /\ n \in {matchIndex[i][j] : j \in Ahead(i)}
    BY <1>0, <2>2, Zenon
  <2> QED
    BY <2>1, <2>2
<1>4. ASSUME NEW m \in appendReq, AppendMatch(m)
      PROVE  \/ commitIndex'[i] \in {0, commitIndex[i]}
             \/ /\ m.dst = i /\ commitIndex'[i] \in Nat /\ commitIndex'[i] > 0
                /\ commitIndex'[i] <= m.LeaderCommit /\ commitIndex'[i] <= Len(log'[i])
  <2> DEFINE new == MergeEntries(log[m.dst], m.Entries)
             c == CommitTo(m.dst, m, new)
  <2>0. m.dst \in Server /\ m.LeaderCommit \in Nat
    BY SMTT(30), <1>0 DEF AppendRequest
  <2>1. log' = [log EXCEPT ![m.dst] = new] /\ commitIndex' = [commitIndex EXCEPT ![m.dst] = c]
    BY <1>4, Zenon DEF AppendMatch
  <2> HIDE DEF new
  <2>2. CASE m.dst = i
    <3>1. log'[i] = new /\ commitIndex'[i] = c /\ c \in Nat /\ new \in Seq(Entry)
      BY <1>0, <2>1, <2>2
    <3>2. Len(new) \in Nat
      BY <3>1
    <3>3. c = commitIndex[i] \/ (c <= m.LeaderCommit /\ c <= Len(new))
      BY <2>0, <2>2, <3>2 DEF CommitTo
    <3> HIDE DEF c
    <3>4. c = 0 \/ c > 0
      BY <3>1
    <3> QED
      BY <2>2, <3>1, <3>3, <3>4, Zenon
  <2>3. CASE m.dst # i
    BY <1>0, <2>0, <2>1, <2>3
  <2> QED
    BY <2>2, <2>3
<1>5. CASE NetworkStep
  <2>1. CASE \/ \E g \in asking : sendRequestVote(g)
             \/ \E m \in voteReq : RequestVote(m)
             \/ \E r \in voteRep : VoteReplied(r)
             \/ \E r \in appendRep : AppendReplied(r)
             \/ \E m \in appendReq \cup appendRep : LoseAppend(m)
             \/ \E m \in appendReq : AppendStale(m) \/ AppendConflict(m)
    <3>1. UNCHANGED commitIndex
      BY <2>1, Zenon DEF sendRequestVote, RequestVote, VoteReplied, AppendReplied, LoseAppend,
                         AppendStale, AppendConflict, logs
    <3> QED
      BY <1>1, <3>1, Zenon
  <2> QED
    BY <1>4, <1>5, <2>1, Zenon DEF NetworkStep, AppendEntries
<1>6. ASSUME NEW k \in Server, PeerStep(k), ~Restart(k), ~sendHearbeat(k)
      PROVE  UNCHANGED commitIndex
  BY <1>6, Zenon DEF PeerStep, Run, runFollower, startElection, runCandidate, sendAppendEntries,
                     GetState, Start, ApplySend, ApplyDone, logs
<1>7. CASE UNCHANGED vars
  BY <1>1, <1>7, Zenon DEF vars, logs
<1> QED
  BY <1>1, <1>2, <1>3, <1>5, <1>6, <1>7, Zenon DEF Next

\* A reply in flight after a step was in flight before it, or AppendEntries has
\* just sent it.
LEMMA ReplyStep ==
  ASSUME [Next]_vars, NEW r \in appendRep', r.Success
  PROVE  \/ r \in appendRep
         \/ \E m \in appendReq :
              /\ AppendMatch(m) /\ r.dst = m.dst
              /\ r.prev + r.sent = m.PrevLogIndex + Len(m.Entries)
<1>1. CASE appendRep' \subseteq appendRep
  BY <1>1, Zenon
<1>2. ASSUME NEW m \in appendReq, NEW b, NEW x, Answer(m, b, x), r \notin appendRep
      PROVE  /\ r.dst = m.dst /\ r.Success = b
             /\ r.prev + r.sent = m.PrevLogIndex + Len(m.Entries)
  <2>1. r = [src |-> m.src, dst |-> m.dst, Term |-> currentTerm'[m.dst],
              Success |-> b, XTerm |-> x.XTerm, XIndex |-> x.XIndex,
              prev |-> m.PrevLogIndex, sent |-> Len(m.Entries)]
    BY <1>2, Zenon DEF Answer
  <2> QED
    BY <2>1, Zenon
<1>3. CASE \E m \in appendReq : AppendStale(m) \/ AppendConflict(m)
  <2>1. \E m \in appendReq : \E x : Answer(m, FALSE, x)
    BY <1>3, Zenon DEF AppendStale, AppendConflict
  <2> QED
    BY <1>2, <2>1, Zenon
<1>4. ASSUME NEW m \in appendReq, AppendMatch(m)
      PROVE  r \in appendRep \/ (r.dst = m.dst
                                 /\ r.prev + r.sent = m.PrevLogIndex + Len(m.Entries))
  <2>1. Answer(m, TRUE, NoHint)
    BY <1>4, Zenon DEF AppendMatch
  <2> QED
    BY <1>2, <2>1, Zenon
<1>5. CASE NetworkStep
  <2>1. CASE \/ \E g \in asking : sendRequestVote(g)
             \/ \E m \in voteReq : RequestVote(m)
             \/ \E n \in voteRep : VoteReplied(n)
             \/ \E n \in appendRep : AppendReplied(n)
             \/ \E m \in appendReq \cup appendRep : LoseAppend(m)
    <3>1. appendRep' \subseteq appendRep
      BY <2>1, Zenon DEF sendRequestVote, RequestVote, VoteReplied, AppendReplied, LoseAppend
    <3> QED
      BY <1>1, <3>1
  <2> QED
    BY <1>3, <1>4, <1>5, <2>1, Zenon DEF NetworkStep, AppendEntries
<1>6. ASSUME NEW k \in Server, PeerStep(k) PROVE appendRep' \subseteq appendRep
  BY <1>6, Zenon DEF PeerStep, Run, runFollower, startElection, runCandidate, sendHearbeat,
                     sendAppendEntries, GetState, Start, ApplySend, ApplyDone, Restart, network
<1>7. CASE UNCHANGED vars
  BY <1>1, <1>7 DEF vars, network
<1> QED
  BY <1>1, <1>5, <1>6, <1>7, Zenon DEF Next

----------------------------------------------------------------------------
(* Votes.                                                                  *)

\* a vote is for a term the voter has reached, and the votes of its current
\* term are the one in votedFor
VoteInv ==
  \A g \in grants :
    /\ g.term <= currentTerm[g.voter]
    /\ g.term = currentTerm[g.voter] => votedFor[g.voter] = g.cand

VotingState == <<currentTerm, votedFor, grants>>

\* A step of Voting, with the indices named.
LEMMA VotingStep ==
  ASSUME NEW v \in Server, currentTerm'[v] \in Nat,
         \/ V!Advance(v, currentTerm'[v])
         \/ \E c \in Server : V!Vote(v, currentTerm'[v], c)
  PROVE  V!Next
BY DEF V!Next

\* Every step of Raft is a step of Voting, or leaves terms and votes alone: the
\* handlers of all four messages, the election timer and the restart.
LEMMA StepRefines == ASSUME IndInv, [Next]_vars PROVE [V!Next]_VotingState
<1>0. TypeOK /\ PersistedIsCurrent
  BY DEF IndInv
<1>1. /\ currentTerm \in [Server -> Nat] /\ votedFor \in [Server -> Server \cup {Nil}]
      /\ voteReq \subseteq VoteRequest /\ voteRep \subseteq VoteReply
      /\ appendReq \subseteq AppendRequest /\ appendRep \subseteq AppendReply
  BY <1>0 DEF TypeOK
<1>2. ASSUME NEW i \in Server, NEW t \in Nat, t > currentTerm[i], StepDown(i, t),
             UNCHANGED grants
      PROVE  V!Next
  <2>1. currentTerm'[i] = t /\ V!Advance(i, t)
    BY <1>1, <1>2 DEF StepDown, V!Advance
  <2> QED
    BY <1>2, <2>1, VotingStep
<1>3. CASE NetworkStep
  <2>1. CASE \E g \in asking : sendRequestVote(g)
    BY <2>1, Zenon DEF sendRequestVote, election, history, VotingState
  <2>2. ASSUME NEW m \in voteReq, RequestVote(m) PROVE [V!Next]_VotingState
    <3> DEFINE i == m.dst
               newer == m.Term > currentTerm[i]
               grant == FreeToVote(i, m) /\ moreUpToDate(m, log[i])
               t == IF newer THEN m.Term ELSE currentTerm[i]
    <3>1. m.src \in Server /\ i \in Server /\ m.Term \in Nat /\ currentTerm[i] \in Nat
      BY <1>1 DEF VoteRequest
    <3>2. /\ currentTerm' = [currentTerm EXCEPT ![i] = t]
          /\ votedFor' = [votedFor EXCEPT ![i] = IF grant THEN m.src
                                                 ELSE IF newer THEN Nil ELSE @]
          /\ grants' = IF ~grant THEN grants
                       ELSE grants \cup {[voter |-> i, term |-> currentTerm'[i],
                                          cand |-> m.src]}
      BY <2>2, Zenon DEF RequestVote
    <3>3. t \in Nat /\ currentTerm'[i] = t
      BY <1>1, <3>1, <3>2, Zenon
    <3>4. CASE grant
      <4>1. t > currentTerm[i] \/ (t = currentTerm[i] /\ votedFor[i] \in {Nil, m.src})
        BY <3>1, <3>4 DEF FreeToVote
      <4>2. V!Vote(i, t, m.src)
        BY <3>2, <3>3, <3>4, <4>1, Zenon DEF V!Vote
      <4> QED
        BY <3>1, <3>3, <4>2, VotingStep, Zenon
    <3>5. CASE ~grant /\ newer
      <4>1. V!Advance(i, t)
        BY <3>2, <3>5, Zenon DEF V!Advance
      <4> QED
        BY <3>1, <3>3, <4>1, VotingStep
    <3>6. CASE ~grant /\ ~newer
      BY <1>1, <3>1, <3>2, <3>6, Zenon DEF VotingState
    <3> QED
      BY <3>4, <3>5, <3>6
  <2>3. ASSUME NEW r \in voteRep, VoteReplied(r) PROVE [V!Next]_VotingState
    <3>1. r.src \in Server /\ r.Term \in Nat
      BY <1>1 DEF VoteReply
    <3>2. UNCHANGED grants
      BY <2>3, Zenon DEF VoteReplied, history
    <3>3. CASE ~r.VoteGranted /\ r.Term > currentTerm[r.src]
      <4>1. StepDown(r.src, r.Term)
        BY <2>3, <3>3 DEF VoteReplied
      <4> QED
        BY <1>2, <3>1, <3>2, <3>3, <4>1, Zenon
    <3>4. CASE ~(~r.VoteGranted /\ r.Term > currentTerm[r.src])
      BY <2>3, <3>2, <3>4 DEF VoteReplied, VotingState
    <3> QED
      BY <3>3, <3>4
  <2>4. ASSUME NEW m \in appendReq, AppendEntries(m) PROVE [V!Next]_VotingState
    <3>1. m.dst \in Server /\ m.Term \in Nat
      BY <1>1 DEF AppendRequest
    <3>2. UNCHANGED grants
      BY <2>4, Zenon DEF AppendEntries, AppendStale, AppendConflict, AppendMatch, history
    <3>3. AdoptTerm(m) \/ UNCHANGED <<currentTerm, votedFor>>
      BY <2>4, Zenon DEF AppendEntries, AppendStale, AppendConflict, AppendMatch
    <3>4. CASE m.Term > currentTerm[m.dst] /\ StepDown(m.dst, m.Term)
      BY <1>2, <3>1, <3>2, <3>4
    <3>5. CASE UNCHANGED <<currentTerm, votedFor>>
      BY <3>2, <3>5 DEF VotingState
    <3> QED
      BY <3>3, <3>4, <3>5 DEF AdoptTerm
  <2>5. ASSUME NEW r \in appendRep, AppendReplied(r) PROVE [V!Next]_VotingState
    <3>1. r.src \in Server /\ r.Term \in Nat
      BY <1>1 DEF AppendReply
    <3>2. UNCHANGED grants
      BY <2>5 DEF AppendReplied, history
    <3>3. \/ r.Term > currentTerm[r.src] /\ StepDown(r.src, r.Term)
          \/ UNCHANGED <<currentTerm, votedFor>>
      BY <2>5 DEF AppendReplied
    <3> QED
      BY <1>2, <3>1, <3>2, <3>3 DEF VotingState
  <2>6. CASE \E m \in appendReq \cup appendRep : LoseAppend(m)
    BY <2>6 DEF LoseAppend, election, history, VotingState
  <2> QED
    BY <1>3, <2>1, <2>2, <2>3, <2>4, <2>5, <2>6 DEF NetworkStep
<1>4. ASSUME NEW i \in Server, PeerStep(i) PROVE [V!Next]_VotingState
  <2>1. CASE startElection(i)
    <3> DEFINE t == currentTerm[i] + 1
    <3>0. currentTerm' = [currentTerm EXCEPT ![i] = t]
      BY <2>1, Zenon DEF startElection
    <3>1. t \in Nat /\ t > currentTerm[i] /\ currentTerm'[i] = t
      BY <1>1, <3>0
    <3>2. V!Vote(i, t, i)
      BY <2>1, <3>1, Zenon DEF startElection, V!Vote
    <3> QED
      BY <3>1, <3>2, VotingStep
  <2>2. CASE Restart(i)
    <3>1. UNCHANGED <<currentTerm, votedFor>>
      <4>0. IsPersisted(raftstate[i], log[i], currentTerm[i], votedFor[i])
        BY <1>0, Zenon DEF PersistedIsCurrent, IsPersisted
      <4>1. /\ raftstate[i].currentTerm = currentTerm[i]
            /\ raftstate[i].votedFor = votedFor[i]
        BY <4>0, Persisted, Zenon DEF PersistedFields
      <4> QED
        BY <1>1, <2>2, <4>1, Zenon DEF Restart
    <3> QED
      BY <2>2, <3>1, Zenon DEF Restart, VotingState
  <2>3. CASE Run(i) \/ runFollower(i) \/ runCandidate(i) \/ sendHearbeat(i)
    BY <2>3, Zenon DEF Run, runFollower, runCandidate, sendHearbeat, election, history, VotingState
  <2>4. CASE \E j \in Server : sendAppendEntries(i, j)
    BY <2>4, Zenon DEF sendAppendEntries, election, history, VotingState
  <2>5. CASE \E c \in Command : GetState(i, c)
    BY <2>5, Zenon DEF GetState, election, VotingState
  <2>6. CASE \E s \in starting[i] : Start(i, s)
    BY <2>6 DEF Start, history, VotingState
  <2>7. CASE \E g \in applying[i] : ApplySend(i, g) \/ ApplyDone(i, g)
    BY <2>7 DEF ApplySend, Deliver, ApplyDone, election, history, VotingState
  <2> QED
    BY <1>4, <2>1, <2>2, <2>3, <2>4, <2>5, <2>6, <2>7, Zenon DEF PeerStep
<1>5. CASE UNCHANGED vars
  BY <1>5 DEF vars, election, history, VotingState
<1> QED
  BY <1>3, <1>4, <1>5 DEF Next

\* Raft implements Voting: through lost, delayed and reordered calls, elections
\* and restarts, a voter's term only grows and its vote of a term never changes.
THEOREM Refinement == Spec => VotingSpec
<1>1. Init => V!Init
  BY DEF Init, Fresh, V!Init
<1>2. ASSUME IndInv, [Next]_vars PROVE [V!Next]_(V!votes)
  BY <1>2, StepRefines DEF VotingState, V!votes
<1> QED
  BY <1>1, <1>2, Invariance, PTL DEF Spec, VotingSpec, V!Spec

----------------------------------------------------------------------------
(* One vote per term.                                                      *)

\* Every step keeps the votes given in step with term and votedFor.
LEMMA VoteInvStep ==
  ASSUME TypeOK, VoteInv, [V!Next]_VotingState PROVE VoteInv'
<1>1. /\ currentTerm \in [Server -> Nat] /\ votedFor \in [Server -> Server \cup {Nil}]
      /\ grants \subseteq Grant
  BY DEF TypeOK
<1>2. CASE UNCHANGED VotingState
  BY <1>2 DEF VoteInv, VotingState
<1>3. ASSUME NEW v \in Server, currentTerm'[v] \in Nat, V!Advance(v, currentTerm'[v])
      PROVE  VoteInv'
  BY <1>1, <1>3 DEF V!Advance, VoteInv, Grant
<1>4. ASSUME NEW v \in Server, NEW c \in Server, NEW t \in Nat, V!Vote(v, t, c)
      PROVE  VoteInv'
  <2> DEFINE h == [voter |-> v, term |-> t, cand |-> c]
  <2>1. /\ t > currentTerm[v] \/ (t = currentTerm[v] /\ votedFor[v] \in {Nil, c})
        /\ currentTerm' = [currentTerm EXCEPT ![v] = t]
        /\ votedFor' = [votedFor EXCEPT ![v] = c]
        /\ grants' = grants \cup {h}
    BY <1>4 DEF V!Vote
  <2> SUFFICES ASSUME NEW g \in grants'
               PROVE  /\ g.term <= currentTerm'[g.voter]
                      /\ g.term = currentTerm'[g.voter] => votedFor'[g.voter] = g.cand
    BY DEF VoteInv
  <2>2. CASE g = h
    BY <1>1, <2>1, <2>2
  <2>3. CASE g \in grants
    <3>1. /\ g.voter \in Server /\ g.cand \in Server /\ g.term \in Nat
          /\ g.term <= currentTerm[g.voter]
          /\ g.term = currentTerm[g.voter] => votedFor[g.voter] = g.cand
      BY <1>1, <2>3 DEF VoteInv, Grant
    <3>2. CASE g.voter # v
      BY <1>1, <2>1, <3>1, <3>2
    <3>3. CASE g.voter = v
      <4>1. currentTerm'[v] = t /\ votedFor'[v] = c /\ currentTerm[v] \in Nat
        BY <1>1, <2>1
      <4>2. CASE t > currentTerm[v]
        <5>1. \A x, y, z \in Nat : x <= y /\ z > y => x <= z /\ x # z
          OBVIOUS
        <5> QED
          BY <3>1, <3>3, <4>1, <4>2, <5>1, Zenon
      <4>3. CASE t = currentTerm[v] /\ votedFor[v] \in {Nil, c}
        BY <3>1, <3>3, <4>1, <4>3, NilAssumption, Zenon
      <4> QED
        BY <2>1, <4>2, <4>3
    <3> QED
      BY <3>2, <3>3, Zenon
  <2> QED
    BY <2>1, <2>2, <2>3
<1> QED
  BY <1>2, <1>3, <1>4 DEF V!Next

\* A peer's votes are of terms up to its own, and votedFor is the one it gave in
\* its current term.
LEMMA VoteInvariance == Spec => []VoteInv
<1>1. Init => VoteInv
  BY Zenon DEF Init, VoteInv
<1>2. ASSUME IndInv, VoteInv, [Next]_vars PROVE VoteInv'
  BY <1>2, StepRefines, VoteInvStep DEF IndInv
<1> QED
  BY <1>1, <1>2, Invariance, PTL DEF Spec

\* Two votes of one voter in one term, at any time of the run, are for the same
\* candidate.  VoteInv alone only speaks of the current term; that votes of
\* earlier terms cannot clash either is a fact about how grants grows.
LEMMA OneVoteStep ==
  ASSUME TypeOK, VoteInv, OneVotePerTerm, [V!Next]_VotingState PROVE OneVotePerTerm'
<1>1. /\ currentTerm \in [Server -> Nat] /\ votedFor \in [Server -> Server \cup {Nil}]
      /\ grants \subseteq Grant
  BY DEF TypeOK
<1>2. CASE UNCHANGED grants
  BY <1>2 DEF OneVotePerTerm
<1>3. ASSUME NEW v \in Server, NEW c \in Server, NEW t \in Nat, V!Vote(v, t, c)
      PROVE  OneVotePerTerm'
  <2> DEFINE h == [voter |-> v, term |-> t, cand |-> c]
  <2>1. /\ t > currentTerm[v] \/ (t = currentTerm[v] /\ votedFor[v] \in {Nil, c})
        /\ grants' = grants \cup {h}
    BY <1>3 DEF V!Vote
  <2>2. ASSUME NEW g \in grants, g.voter = v, g.term = t PROVE g.cand = c
    <3>1. /\ g.cand \in Server /\ currentTerm[v] \in Nat /\ t <= currentTerm[v]
          /\ t = currentTerm[v] => votedFor[v] = g.cand
      BY <1>1, <2>2 DEF VoteInv, Grant
    <3> QED
      BY <2>1, <3>1, NilAssumption
  <2>3. h.voter = v /\ h.term = t /\ h.cand = c
    OBVIOUS
  <2> HIDE DEF h
  <2> QED
    BY <2>1, <2>2, <2>3, ZenonT(30) DEF OneVotePerTerm
<1> QED
  BY <1>2, <1>3 DEF V!Next, V!Advance, VotingState

\* A peer gives one vote per term, whatever the number of peers, elections and
\* restarts.
THEOREM OneVote == Spec => []OneVotePerTerm
<1>1. Init => OneVotePerTerm
  BY DEF Init, OneVotePerTerm
<1>2. ASSUME IndInv, VoteInv, OneVotePerTerm, [Next]_vars PROVE OneVotePerTerm'
  BY <1>2, StepRefines, OneVoteStep DEF IndInv
<1> QED
  BY <1>1, <1>2, Invariance, VoteInvariance, PTL DEF Spec

\* No step takes a peer back to an older term, restarts included.
LEMMA TermStep ==
  ASSUME IndInv, [Next]_vars
  PROVE  \A i \in Server : currentTerm'[i] >= currentTerm[i]
<1>1. currentTerm \in [Server -> Nat]
  BY DEF IndInv, TypeOK
<1>2. [V!Next]_VotingState
  BY StepRefines
<1>3. CASE UNCHANGED VotingState
  BY <1>1, <1>3 DEF VotingState
<1>4. ASSUME NEW v \in Server, NEW t \in Nat, t >= currentTerm[v],
             currentTerm' = [currentTerm EXCEPT ![v] = t]
      PROVE  \A i \in Server : currentTerm'[i] >= currentTerm[i]
  BY <1>1, <1>4
<1>5. CASE V!Next
  BY <1>1, <1>4, <1>5 DEF V!Next, V!Advance, V!Vote
<1> QED
  BY <1>2, <1>3, <1>5

\* The term of a peer never falls, in any run of the peers.
THEOREM TermsGrow == Spec => TermsNeverDecrease
<1>1. IndInv /\ [Next]_vars => [\A i \in Server : currentTerm'[i] >= currentTerm[i]]_vars
  BY TermStep
<1> QED
  BY <1>1, Invariance, PTL DEF Spec, TermsNeverDecrease

----------------------------------------------------------------------------
(* One majority per term.                                                  *)

\* At most one candidate can own a majority of the votes of a term: two
\* majorities of the peers share a voter, and that voter has one vote.
THEOREM OneMajority == Spec => []OneMajorityPerTerm
<1>1. ASSUME TypeOK, OneVotePerTerm PROVE OneMajorityPerTerm
  <2> SUFFICES ASSUME NEW g \in grants, NEW h \in grants, g.term = h.term,
                      IsMajority(Cardinality(Voters(g.cand, g.term))),
                      IsMajority(Cardinality(Voters(h.cand, h.term)))
               PROVE  g.cand = h.cand
    BY DEF OneMajorityPerTerm
  <2> DEFINE A == Voters(g.cand, g.term)
             B == Voters(h.cand, h.term)
  <2>1. A \subseteq Server /\ B \subseteq Server
    <3>1. grants \subseteq Grant
      BY <1>1 DEF TypeOK
    <3>2. \A x \in grants : x.voter \in Server
      BY <3>1 DEF Grant
    <3> QED
      BY <3>2 DEF Voters
  <2>2. /\ IsFiniteSet(A) /\ IsFiniteSet(B) /\ IsFiniteSet(Server)
        /\ Cardinality(A) \in Nat /\ Cardinality(B) \in Nat /\ Cardinality(Server) \in Nat
    BY <2>1, ServerAssumption, FS_Subset, FS_CardinalityType
  <2>3. Cardinality(A) + Cardinality(B) > Cardinality(Server)
    <3>1. /\ Cardinality(A) > Cardinality(Server) \div 2
          /\ Cardinality(B) > Cardinality(Server) \div 2
      BY DEF IsMajority
    <3> HIDE DEF A, B
    <3> QED
      BY <2>2, <3>1
  <2>4. A \cap B # {}
    <3> HIDE DEF A, B
    <3> QED
      BY <2>1, <2>2, <2>3, FS_MajoritiesIntersect
  <2>5. PICK a \in grants, b \in grants :
          /\ a.voter = b.voter
          /\ a.cand = g.cand /\ a.term = g.term
          /\ b.cand = h.cand /\ b.term = h.term
    BY <2>4, Zenon DEF Voters
  <2> QED
    BY <1>1, <2>5 DEF OneVotePerTerm
<1>2. IndInv /\ OneVotePerTerm => OneMajorityPerTerm
  BY <1>1 DEF IndInv
<1> QED
  BY <1>2, Invariance, OneVote, PTL

----------------------------------------------------------------------------
(* Candidates and leaders have opened a term.                              *)

\* whoever asks for votes, has votes or leads has opened a term
Campaigns ==
  /\ \A m \in asking \cup voteReq \cup voteRep : currentTerm[m.src] >= 1
  /\ \A i \in Server : voteCount[i] > 0 \/ state[i] = Leader => currentTerm[i] >= 1

\* More than half of the peers is at least one.
LEMMA MajorityPositive == ASSUME NEW n \in Nat, IsMajority(n) PROVE n > 0
<1>1. Cardinality(Server) \in Nat
  BY ServerAssumption, FS_CardinalityType
<1>2. \A c \in Nat : c \div 2 >= 0 /\ c \div 2 \in Int
  OBVIOUS
<1> QED
  BY <1>1, <1>2 DEF IsMajority

\* Only startElection begins a campaign: every other vote goroutine, call,
\* reply, vote and leadership goes back to one that was there.
LEMMA CampaignStep ==
  ASSUME IndInv, Campaigns, [Next]_vars PROVE Campaigns'
<1>0. TypeOK
  BY DEF IndInv
<1>1. /\ currentTerm \in [Server -> Nat] /\ state \in [Server -> States]
      /\ voteCount \in [Server -> Nat] /\ asking \subseteq VoteCall
      /\ voteReq \subseteq VoteRequest /\ voteRep \subseteq VoteReply
  BY <1>0 DEF TypeOK
<1>2. currentTerm' \in [Server -> Nat] /\ \A i \in Server : currentTerm'[i] >= currentTerm[i]
  <2>1. TypeOK'
    BY NextInv, Zenon DEF IndInv
  <2>2. currentTerm' \in [Server -> Nat]
    BY <2>1, Zenon DEF TypeOK
  <2> QED
    BY <2>2, TermStep, Zenon
<1>3. ASSUME NEW i \in Server, startElection(i) PROVE currentTerm'[i] >= 1
  <2>1. currentTerm' = [currentTerm EXCEPT ![i] = currentTerm[i] + 1]
    BY <1>3, Zenon DEF startElection
  <2> QED
    BY <1>1, <2>1
<1> DEFINE Old == asking \cup voteReq \cup voteRep
<1>4. \A m \in Old : m.src \in Server
  BY <1>1 DEF VoteCall, VoteRequest, VoteReply
<1>5. ASSUME NEW m \in asking' \cup voteReq' \cup voteRep'
      PROVE  (\E n \in Old : m.src = n.src) \/ \E i \in Server : startElection(i) /\ m.src = i
  <2>1. CASE UNCHANGED <<asking, voteReq, voteRep>>
    BY <2>1
  <2>2. ASSUME NEW i \in Server, startElection(i)
        PROVE  (\E n \in Old : m.src = n.src) \/ m.src = i
    <3>1. /\ asking' \subseteq asking \cup {[src |-> i, dst |-> j, elect |-> currentTerm[i] + 1] :
                                             j \in Server \ {i}}
          /\ UNCHANGED <<voteReq, voteRep>>
      BY <2>2, Zenon DEF startElection, network
    <3> QED
      BY <3>1
  <2>3. ASSUME NEW i \in Server, Restart(i) PROVE \E n \in Old : m.src = n.src
    <3>1. CASE m \in asking' \cup voteRep'
      BY <2>3, <3>1, Zenon DEF Restart
    <3>2. CASE m \in voteReq'
      <4>1. PICK n \in voteReq : m = IF n.src = i THEN [n EXCEPT !.live = FALSE] ELSE n
        BY <2>3, <3>2, Zenon DEF Restart, Orphaned
      <4>2. m.src = n.src
        BY <1>1, <4>1 DEF VoteRequest
      <4> QED
        BY <4>2
    <3> QED
      BY <3>1, <3>2
  <2>4. ASSUME NEW g \in asking, sendRequestVote(g) PROVE \E n \in Old : m.src = n.src
    <3>1. \E f, x, y, z : /\ asking' \subseteq asking /\ UNCHANGED voteRep
                          /\ voteReq' = voteReq \cup
                               {[src |-> g.src, dst |-> g.dst, elect |-> f, live |-> TRUE,
                                 Term |-> x, LastLogIndex |-> y, LastLogTerm |-> z]}
      BY <2>4, Zenon DEF sendRequestVote
    <3> QED
      BY <2>4, <3>1
  <2>5. ASSUME NEW q \in voteReq, RequestVote(q) PROVE \E n \in Old : m.src = n.src
    <3>1. \E f, x, y : /\ UNCHANGED asking /\ voteReq' \subseteq voteReq
                       /\ voteRep' \subseteq voteRep \cup
                            {[src |-> q.src, dst |-> q.dst, elect |-> f, Term |-> x,
                              VoteGranted |-> y]}
      BY <2>5, ZenonT(30) DEF RequestVote, calls
    <3> QED
      BY <2>5, <3>1
  <2>6. ASSUME NEW r \in voteRep, VoteReplied(r) PROVE \E n \in Old : m.src = n.src
    BY <2>6, Zenon DEF VoteReplied, calls
  <2>7. CASE NetworkStep
    BY <2>1, <2>4, <2>5, <2>6, <2>7, ZenonT(30)
       DEF NetworkStep, AppendEntries, AppendStale, AppendConflict, AppendMatch, AppendReplied,
           LoseAppend, calls
  <2>8. ASSUME NEW i \in Server, PeerStep(i)
        PROVE  (\E n \in Old : m.src = n.src) \/ (startElection(i) /\ m.src = i)
    BY <2>1, <2>2, <2>3, <2>8, Zenon
       DEF PeerStep, Run, runFollower, runCandidate, sendHearbeat, sendAppendEntries, GetState,
           Start, ApplySend, ApplyDone, calls, network
  <2>9. CASE UNCHANGED vars
    BY <2>1, <2>9 DEF vars, calls, network
  <2> QED
    BY <2>7, <2>8, <2>9 DEF Next
<1>6. ASSUME NEW i \in Server, voteCount'[i] > 0 \/ state'[i] = Leader
      PROVE  \/ voteCount[i] > 0 \/ state[i] = Leader
             \/ \E r \in voteRep : r.src = i
             \/ startElection(i)
  <2>1. CASE voteCount'[i] = voteCount[i] /\ state'[i] = state[i]
    BY <1>6, <2>1
  <2>2. ASSUME NEW j \in Server, PeerStep(j)
        PROVE  \/ voteCount[i] > 0 \/ state[i] = Leader \/ startElection(i)
    <3>1. CASE startElection(j)
      <4>1. voteCount' = [voteCount EXCEPT ![j] = 1] /\ UNCHANGED state
        BY <3>1, Zenon DEF startElection
      <4> QED
        BY <1>1, <1>6, <3>1, <4>1
    <3>2. CASE runFollower(j)
      BY <1>1, <1>6, <3>2 DEF runFollower, Candidate, Leader
    <3>3. CASE runCandidate(j)
      <4>1. CASE i = j /\ IsMajority(voteCount[i])
        BY <1>1, <4>1, MajorityPositive
      <4>2. CASE ~(i = j /\ IsMajority(voteCount[i]))
        BY <1>1, <1>6, <3>3, <4>2 DEF runCandidate
      <4> QED
        BY <4>1, <4>2, Zenon
    <3>4. CASE Restart(j)
      <4>1. voteCount' = [voteCount EXCEPT ![j] = 0] /\ state' = [state EXCEPT ![j] = Follower]
        BY <3>4, Zenon DEF Restart
      <4> QED
        BY <1>1, <1>6, <4>1 DEF Follower, Leader
    <3>5. CASE UNCHANGED <<voteCount, state>>
      BY <1>6, <3>5, Zenon
    <3> QED
      BY <2>2, <3>1, <3>2, <3>3, <3>4, <3>5, Zenon
         DEF PeerStep, Run, sendHearbeat, sendAppendEntries, GetState, Start, ApplySend, ApplyDone,
             election
  <2>3. CASE NetworkStep
    <3>1. ASSUME NEW q \in voteReq, RequestVote(q) PROVE voteCount[i] > 0 \/ state[i] = Leader
      <4>1. q.dst \in Server
        BY <1>1 DEF VoteRequest
      <4> QED
        BY <1>1, <1>6, <3>1, <4>1, Zenon DEF RequestVote, Follower, Leader
    <3>2. ASSUME NEW r \in voteRep, VoteReplied(r)
          PROVE  voteCount[i] > 0 \/ state[i] = Leader \/ r.src = i
      BY <1>1, <1>6, <3>2 DEF VoteReplied, StepDown, Follower, Leader, VoteReply
    <3>3. ASSUME NEW n \in appendReq, AppendEntries(n) PROVE voteCount[i] > 0 \/ state[i] = Leader
      <4>1. UNCHANGED voteCount /\ (UNCHANGED state \/ AdoptTerm(n))
        BY <3>3, Zenon DEF AppendEntries, AppendStale, AppendConflict, AppendMatch
      <4> QED
        BY <1>1, <1>6, <4>1, Zenon DEF AdoptTerm, StepDown, Follower, Leader
    <3>4. ASSUME NEW r \in appendRep, AppendReplied(r) PROVE voteCount[i] > 0 \/ state[i] = Leader
      <4>1. UNCHANGED voteCount /\ (UNCHANGED state \/ StepDown(r.src, r.Term))
        BY <3>4, Zenon DEF AppendReplied
      <4> QED
        BY <1>1, <1>6, <4>1, Zenon DEF StepDown, Follower, Leader
    <3>5. CASE \/ \E g \in asking : sendRequestVote(g)
               \/ \E n \in appendReq \cup appendRep : LoseAppend(n)
      BY <2>1, <3>5, Zenon DEF sendRequestVote, LoseAppend, election
    <3> QED
      BY <2>3, <3>1, <3>2, <3>3, <3>4, <3>5, Zenon DEF NetworkStep
  <2>4. CASE UNCHANGED vars
    BY <2>1, <2>4, Zenon DEF vars, election
  <2> QED
    BY <2>2, <2>3, <2>4 DEF Next
<1>7. ASSUME NEW m \in asking' \cup voteReq' \cup voteRep' PROVE currentTerm'[m.src] >= 1
  <2>1. CASE \E n \in Old : m.src = n.src
    <3>1. m.src \in Server /\ currentTerm[m.src] >= 1
      BY <1>4, <2>1 DEF Campaigns
    <3> QED
      BY <1>1, <1>2, <3>1
  <2> QED
    BY <1>3, <1>5, <2>1, Zenon
<1>8. ASSUME NEW i \in Server, voteCount'[i] > 0 \/ state'[i] = Leader PROVE currentTerm'[i] >= 1
  <2>1. currentTerm[i] >= 1 \/ startElection(i)
    BY <1>6, <1>8, Zenon DEF Campaigns
  <2> QED
    BY <1>1, <1>2, <1>3, <2>1
<1> QED
  BY <1>7, <1>8 DEF Campaigns
============================================================================
