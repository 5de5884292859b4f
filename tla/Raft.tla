-------------------------------- MODULE Raft --------------------------------
(***************************************************************************)
(* The Raft peer of raft.go: every critical section of rf.mu is one        *)
(* action.  The goroutines of a peer (Run, the vote and heartbeat          *)
(* goroutines, pending Start calls, the appliers of sendApplyMsg)          *)
(* interleave between critical sections; calls travel over the lossy,      *)
(* delaying and reordering network of labrpc.                              *)
(*                                                                         *)
(* An election timeout may strike at any time.  A call is executed at most *)
(* once and answered at most once; a RequestVote that is lost is one that  *)
(* is never received, a lost AppendEntries is removed, because at most     *)
(* MaxCalls of them are in flight between two peers.  A step in which the  *)
(* Go code would index outside a slice (a panic) is not taken.             *)
(***************************************************************************)
EXTENDS RaftLog, FiniteSets

CONSTANTS Server,               \* rf.peers
          Nil,                  \* votedFor = -1
          Elections,            \* bound: the elections that may be started,
                                \* pairs of a peer and the term it opens
          MaxCalls,             \* bound: AppendEntries in flight per pair
          Crashable,            \* the peers the tester may crash and restart
          Readers               \* the peers whose service reads applyCh

ASSUME ServerAssumption == IsFiniteSet(Server) /\ Server # {}
ASSUME NilAssumption == Nil \notin Server
ASSUME BoundsAssumption == Elections \subseteq Server \X Nat /\ MaxCalls \in Nat
ASSUME RightsAssumption == Crashable \subseteq Server /\ Readers \subseteq Server

VARIABLES
  \* fields of Raft
  currentTerm, votedFor, log, commitIndex, lastApplied, nextIndex,
  matchIndex, state, voteCount,
  raftstate,                    \* the Persister of each peer
  \* goroutines
  pc,                           \* where Run is between critical sections
  asking,                       \* vote goroutines that have not locked yet
  starting,                     \* Start calls between GetState and the append
  applying,                     \* goroutines of sendApplyMsg
  \* network
  voteReq, voteRep, appendReq, appendRep,
  \* service and history
  submitted,                    \* commands passed to Start
  applied,                      \* ApplyMsgs received since the last restart
  delivered,                    \* ApplyMsgs received by any service, ever
  grants                        \* every vote ever given: [voter, term, cand]

election == <<currentTerm, votedFor, state, voteCount, raftstate>>
logs == <<log, commitIndex, lastApplied, nextIndex, matchIndex>>
calls == <<asking, starting, applying>>
network == <<voteReq, voteRep, appendReq, appendRep>>
history == <<submitted, applied, delivered, grants>>
vars == <<election, logs, pc, calls, network, history>>

Follower == "Follower"
Candidate == "Candidate"
Leader == "Leader"
States == {Follower, Candidate, Leader}

\* faulty variant: half of the peers is enough
AtLeastHalf(n) == n >= Cardinality(Server) \div 2

\* counter > len(rf.peers)/2
IsMajority(n) == n > Cardinality(Server) \div 2

VoteCall == [src : Server, dst : Server, elect : Nat]
VoteRequest == [src : Server, dst : Server, elect : Nat, live : BOOLEAN,
                Term : Nat, LastLogIndex : Nat, LastLogTerm : Nat]
VoteReply == [src : Server, dst : Server, elect : Nat,
              Term : Nat, VoteGranted : BOOLEAN]
AppendRequest == [src : Server, dst : Server, live : BOOLEAN, Term : Nat,
                  PrevLogIndex : Nat, PrevLogTerm : Nat, LeaderCommit : Nat,
                  Entries : Seq(Entry)]
\* the last two fields are the caller's args, which its goroutine still holds
AppendReply == [src : Server, dst : Server, Term : Nat, Success : BOOLEAN,
                XTerm : Int, XIndex : Nat, prev : Nat, sent : Nat]
Applier == [entries : Seq(Entry), sent : BOOLEAN]
Grant == [voter : Server, term : Nat, cand : Server]
Persistent == [log : Seq(Entry), currentTerm : Nat,
               votedFor : Server \cup {Nil}]

TypeOK ==
  /\ currentTerm \in [Server -> Nat]
  /\ votedFor \in [Server -> Server \cup {Nil}]
  /\ log \in [Server -> Seq(Entry)]
  /\ commitIndex \in [Server -> Nat]
  /\ lastApplied \in [Server -> Nat]
  /\ nextIndex \in [Server -> [Server -> Nat]]
  /\ matchIndex \in [Server -> [Server -> Nat]]
  /\ state \in [Server -> States]
  /\ voteCount \in [Server -> Nat]
  /\ raftstate \in [Server -> Persistent]
  /\ pc \in [Server -> {"loop", "elect", "candidate", "tally", "leader"}]
  /\ asking \subseteq VoteCall
  /\ starting \in [Server -> SUBSET [cmd : Command, term : Nat]]
  /\ applying \in [Server -> SUBSET Applier]
  /\ voteReq \subseteq VoteRequest
  /\ voteRep \subseteq VoteReply
  /\ appendReq \subseteq AppendRequest
  /\ appendRep \subseteq AppendReply
  /\ submitted \subseteq Command
  /\ applied \in [Server -> SUBSET (Nat \X Command)]
  /\ delivered \subseteq Nat \X Command
  /\ grants \subseteq Grant

----------------------------------------------------------------------------
(* Make, persist and the tester's crash1 + start1.                         *)

\* faulty variant: votedFor left at Go's zero value
FreshZeroVote == [log |-> <<>>, currentTerm |-> 0, votedFor |-> 0]

\* the state Make builds before readPersist; also what an empty Persister
\* yields, since readPersist returns early on it
Fresh == [log |-> <<>>, currentTerm |-> 0, votedFor |-> Nil]

\* the leader's view of the others as Make builds it
FreshNext == [j \in Server |-> 1]
FreshMatch == [j \in Server |-> 0]

Init ==
  /\ currentTerm = [i \in Server |-> Fresh.currentTerm]
  /\ votedFor = [i \in Server |-> Fresh.votedFor]
  /\ log = [i \in Server |-> Fresh.log]
  /\ commitIndex = [i \in Server |-> 0]
  /\ lastApplied = [i \in Server |-> 0]
  /\ nextIndex = [i \in Server |-> FreshNext]
  /\ matchIndex = [i \in Server |-> FreshMatch]
  /\ state = [i \in Server |-> Follower]
  /\ voteCount = [i \in Server |-> 0]
  /\ raftstate = [i \in Server |-> Fresh]
  /\ pc = [i \in Server |-> "loop"]
  /\ asking = {}
  /\ starting = [i \in Server |-> {}]
  /\ applying = [i \in Server |-> {}]
  /\ voteReq = {} /\ voteRep = {} /\ appendReq = {} /\ appendRep = {}
  /\ submitted = {}
  /\ applied = [i \in Server |-> {}] /\ delivered = {}
  /\ grants = {}

\* faulty variant: the critical section saves before it changes anything
PersistFirst(i) ==
  raftstate' = [raftstate EXCEPT ![i] = [log |-> log[i],
                                         currentTerm |-> currentTerm[i],
                                         votedFor |-> votedFor[i]]]

\* faulty variant: the vote is not saved
PersistNoVote(i) ==
  raftstate' = [raftstate EXCEPT ![i].log = log'[i],
                                 ![i].currentTerm = currentTerm'[i]]

\* rf.persist(), at the end of a critical section
persist(i) ==
  raftstate' = [raftstate EXCEPT ![i] = [log |-> log'[i],
                                         currentTerm |-> currentTerm'[i],
                                         votedFor |-> votedFor'[i]]]

\* calls of a crashed peer may still be executed, but are not answered
Orphaned(i, reqs) ==
  {IF m.src = i THEN [m EXCEPT !.live = FALSE] ELSE m : m \in reqs}

\* a crashed peer loses its memory, its goroutines and the answers to its calls
Restart(i) ==
  /\ i \in Crashable
  /\ log' = [log EXCEPT ![i] = raftstate[i].log]
  /\ currentTerm' = [currentTerm EXCEPT ![i] = raftstate[i].currentTerm]
  /\ votedFor' = [votedFor EXCEPT ![i] = raftstate[i].votedFor]
  /\ commitIndex' = [commitIndex EXCEPT ![i] = 0]
  /\ lastApplied' = [lastApplied EXCEPT ![i] = 0]
  /\ nextIndex' = [nextIndex EXCEPT ![i] = FreshNext]
  /\ matchIndex' = [matchIndex EXCEPT ![i] = FreshMatch]
  /\ state' = [state EXCEPT ![i] = Follower]
  /\ voteCount' = [voteCount EXCEPT ![i] = 0]
  /\ pc' = [pc EXCEPT ![i] = "loop"]
  /\ asking' = {g \in asking : g.src # i}
  /\ starting' = [starting EXCEPT ![i] = {}]
  /\ applying' = [applying EXCEPT ![i] = {}]
  /\ voteReq' = Orphaned(i, voteReq)
  /\ voteRep' = {m \in voteRep : m.src # i}
  /\ appendReq' = Orphaned(i, appendReq)
  /\ appendRep' = {m \in appendRep : m.src # i}
  /\ applied' = [applied EXCEPT ![i] = {}]
  /\ UNCHANGED <<raftstate, submitted, delivered, grants>>

\* rf.currentTerm = t; rf.convertTo(Follower), which forgets the vote
StepDown(i, t) ==
  /\ currentTerm' = [currentTerm EXCEPT ![i] = t]
  /\ state' = [state EXCEPT ![i] = Follower]
  /\ votedFor' = [votedFor EXCEPT ![i] = Nil]

----------------------------------------------------------------------------
(* The Run goroutine.                                                      *)

\* Run reads rf.state and acts on what it read after unlocking
Run(i) ==
  /\ pc[i] = "loop"
  /\ \/ state[i] = Candidate /\ pc' = [pc EXCEPT ![i] = "candidate"]
     \/ state[i] = Leader /\ pc' = [pc EXCEPT ![i] = "leader"]
  /\ UNCHANGED <<election, logs, calls, network, history>>

\* a follower times out; startElection takes the lock again
runFollower(i) ==
  /\ pc[i] = "loop" /\ state[i] = Follower
  /\ <<i, currentTerm[i] + 1>> \in Elections
  /\ state' = [state EXCEPT ![i] = Candidate]
  /\ pc' = [pc EXCEPT ![i] = "elect"]
  /\ UNCHANGED <<currentTerm, votedFor, voteCount, raftstate, logs, calls,
                 network, history>>

\* the peer may be a follower again by now: it still opens a new term and
\* votes for itself, only the vote goroutines are not started (the code reads
\* the state once per peer; a vote goroutine it then does not start is one that
\* never gets to run)
startElection(i) ==
  LET t == currentTerm[i] + 1 IN
  /\ pc[i] \in {"elect", "candidate"} /\ <<i, t>> \in Elections
  /\ currentTerm' = [currentTerm EXCEPT ![i] = t]
  /\ votedFor' = [votedFor EXCEPT ![i] = i]
  /\ voteCount' = [voteCount EXCEPT ![i] = 1]
  /\ grants' = grants \cup {[voter |-> i, term |-> t, cand |-> i]}
  /\ asking' = IF state[i] # Candidate THEN asking
               ELSE asking \cup {[src |-> i, dst |-> j, elect |-> t] :
                                   j \in Server \ {i}}
  /\ pc' = [pc EXCEPT ![i] = IF @ = "elect" THEN "loop" ELSE "tally"]
  /\ UNCHANGED <<state, logs, starting, applying, network, submitted, applied,
                 delivered>>
  /\ persist(i)

\* the second half of runCandidate: whatever the state is by now
runCandidate(i) ==
  /\ pc[i] \in {"candidate", "tally"}
  /\ state' = [state EXCEPT ![i] = IF IsMajority(voteCount[i]) THEN Leader
                                                              ELSE @]
  /\ pc' = [pc EXCEPT ![i] = "loop"]
  /\ UNCHANGED <<currentTerm, votedFor, voteCount, raftstate, logs, calls,
                 network, history>>

----------------------------------------------------------------------------
(* RequestVote.                                                            *)

\* the vote goroutine fills in the arguments when it first runs, from
\* whatever term and log the peer has by then
sendRequestVote(g) ==
  /\ g \in asking
  /\ asking' = asking \ {g}
  /\ voteReq' = voteReq \cup
       {[src |-> g.src, dst |-> g.dst, elect |-> g.elect, live |-> TRUE,
         Term |-> currentTerm[g.src], LastLogIndex |-> Len(log[g.src]),
         LastLogTerm |-> LogTerm(log[g.src], Len(log[g.src]))]}
  /\ UNCHANGED <<election, logs, pc, starting, applying, voteRep, appendReq,
                 appendRep, history>>

\* faulty variant: an earlier vote of the same term is overlooked
FreeToVoteAlways(i, m) == m.Term >= currentTerm[i]

\* rf.votedFor == -1 || rf.votedFor == args.CandidateId, after the term check
FreeToVote(i, m) ==
  m.Term > currentTerm[i] \/ votedFor[i] \in {Nil, m.src}

\* the handler: a request of an older term is not turned away
RequestVote(m) ==
  LET i == m.dst
      newer == m.Term > currentTerm[i]
      grant == FreeToVote(i, m) /\ moreUpToDate(m, log[i])
  IN
  /\ m \in voteReq
  /\ currentTerm' = [currentTerm EXCEPT ![i] = IF newer THEN m.Term ELSE @]
  /\ state' = [state EXCEPT ![i] = IF newer THEN Follower ELSE @]
  /\ votedFor' = [votedFor EXCEPT ![i] = IF grant THEN m.src
                                         ELSE IF newer THEN Nil ELSE @]
  /\ grants' = IF ~grant THEN grants
               ELSE grants \cup {[voter |-> i, term |-> currentTerm'[i],
                                  cand |-> m.src]}
  /\ voteReq' = voteReq \ {m}
  /\ voteRep' = IF ~m.live THEN voteRep
                ELSE voteRep \cup
                  {[src |-> m.src, dst |-> i, elect |-> m.elect,
                    Term |-> currentTerm'[i], VoteGranted |-> grant]}
  /\ UNCHANGED <<voteCount, logs, pc, calls, appendReq, appendRep, submitted,
                 applied, delivered>>
  /\ persist(i)

\* the rest of the vote goroutine: a granted vote counts for whatever the
\* candidate is doing when it arrives
VoteReplied(r) ==
  LET i == r.src IN
  /\ r \in voteRep
  /\ voteRep' = voteRep \ {r}
  /\ voteCount' = [voteCount EXCEPT ![i] = IF r.VoteGranted THEN @ + 1 ELSE @]
  /\ IF ~r.VoteGranted /\ r.Term > currentTerm[i]
     THEN StepDown(i, r.Term) /\ UNCHANGED log /\ persist(i)
     ELSE UNCHANGED <<currentTerm, state, votedFor, raftstate, log>>
  /\ UNCHANGED <<commitIndex, lastApplied, nextIndex, matchIndex, pc, calls,
                 voteReq, appendReq, appendRep, history>>

----------------------------------------------------------------------------
(* sendApplyMsg and its goroutines.                                        *)

\* faulty variant: only the newest committed entry is sent
SendNewest(i) ==
  applying' = IF commitIndex'[i] <= lastApplied[i] THEN applying
              ELSE [applying EXCEPT ![i] = @ \cup
                     {[entries |-> SubSeq(log'[i], commitIndex'[i],
                                          commitIndex'[i]),
                       sent |-> FALSE]}]

\* called with commitIndex' and log' already assigned
sendApplyMsg(i) ==
  applying' = IF commitIndex'[i] <= lastApplied[i] THEN applying
              ELSE [applying EXCEPT ![i] = @ \cup
                     {[entries |-> SubSeq(log'[i], lastApplied[i] + 1,
                                          commitIndex'[i]),
                       sent |-> FALSE]}]

\* the slice handed to the goroutine shares the array of rf.log, which a later
\* AppendEntries may have overwritten in place: a race the build leaves open
SliceRead(i, e) ==
  {e} \cup {log[i][k] : k \in {e.Index} \cap 1..Len(log[i])}

\* the reader of applyCh in the tester: cfg.logs[i][m.CommandIndex] = m.Command
Deliver(i, e) ==
  /\ applied' = [applied EXCEPT ![i] = @ \cup {<<e.Index, e.Command>>}]
  /\ delivered' = delivered \cup {<<e.Index, e.Command>>}

\* rf.applyCh <- msg, which waits for the service to read the channel
ApplySend(i, g) ==
  /\ i \in Readers /\ g \in applying[i] /\ ~g.sent
  /\ \E e \in SliceRead(i, Head(g.entries)) : Deliver(i, e)
  /\ applying' = [applying EXCEPT ![i] = (@ \ {g}) \cup
                     {[g EXCEPT !.sent = TRUE]}]
  /\ UNCHANGED <<election, logs, pc, asking, starting, network, submitted,
                 grants>>

\* lock, raise lastApplied, go on with the next entry
ApplyDone(i, g) ==
  LET n == Head(g.entries).Index IN
  /\ g \in applying[i] /\ g.sent
  /\ lastApplied' = [lastApplied EXCEPT ![i] = IF @ < n THEN n ELSE @]
  /\ applying' = [applying EXCEPT ![i] = (@ \ {g}) \cup
                     IF Len(g.entries) = 1 THEN {}
                     ELSE {[entries |-> Tail(g.entries), sent |-> FALSE]}]
  /\ UNCHANGED <<election, log, commitIndex, nextIndex, matchIndex, pc,
                 asking, starting, network, history>>

----------------------------------------------------------------------------
(* AppendEntries.                                                          *)

InFlight(i, j) ==
  Cardinality({m \in appendReq \cup appendRep : m.src = i /\ m.dst = j})

\* a heartbeat goroutine: it checks that the peer is (still) leader, and
\* panics if nextIndex - 1 is no index of the log
sendAppendEntries(i, j) ==
  LET prev == nextIndex[i][j] - 1 IN
  /\ state[i] = Leader /\ i # j
  /\ prev \in 0..Len(log[i])
  /\ InFlight(i, j) < MaxCalls
  /\ appendReq' = appendReq \cup
       {[src |-> i, dst |-> j, live |-> TRUE, Term |-> currentTerm[i],
         PrevLogIndex |-> prev, PrevLogTerm |-> LogTerm(log[i], prev),
         LeaderCommit |-> commitIndex[i],
         Entries |-> SubSeq(log[i], prev + 1, Len(log[i]))]}
  /\ UNCHANGED <<election, logs, pc, calls, voteReq, voteRep, appendRep,
                 history>>

\* labrpc drops the request or the reply: Call returns false, and the heartbeat
\* goroutine ends
LoseAppend(m) ==
  /\ m \in appendReq \cup appendRep
  /\ appendReq' = appendReq \ {m}
  /\ appendRep' = appendRep \ {m}
  /\ UNCHANGED <<election, logs, pc, calls, voteReq, voteRep, history>>

\* the reply; the caller's goroutine still has args.PrevLogIndex and
\* len(args.Entries) when it gets it
Answer(m, success, x) ==
  /\ appendReq' = appendReq \ {m}
  /\ appendRep' =
     IF ~m.live THEN appendRep
     ELSE appendRep \cup
            {[src |-> m.src, dst |-> m.dst, Term |-> currentTerm'[m.dst],
              Success |-> success, XTerm |-> x.XTerm, XIndex |-> x.XIndex,
              prev |-> m.PrevLogIndex, sent |-> Len(m.Entries)]}

NoHint == [XTerm |-> 0, XIndex |-> 0]

\* args.Term < rf.currentTerm: early return, the hint fields stay zero
AppendStale(m) ==
  /\ m \in appendReq /\ m.Term < currentTerm[m.dst]
  /\ UNCHANGED <<currentTerm, votedFor, state, voteCount, logs, pc, calls,
                 voteReq, voteRep, history>>
  /\ persist(m.dst)
  /\ Answer(m, FALSE, NoHint)

\* faulty variant: a follower keeps its own term
KeepTerm(m) == UNCHANGED <<currentTerm, state, votedFor>>

\* what the two other branches end with: only a HIGHER term makes the peer a
\* follower
AdoptTerm(m) ==
  IF m.Term > currentTerm[m.dst] THEN StepDown(m.dst, m.Term)
  ELSE UNCHANGED <<currentTerm, state, votedFor>>

AppendConflict(m) ==
  LET i == m.dst IN
  /\ m \in appendReq /\ m.Term >= currentTerm[i]
  /\ ~PrevMatches(log[i], m)
  /\ UNCHANGED <<log, commitIndex>>
  /\ commitIndex[i] > lastApplied[i] => commitIndex[i] <= Len(log[i])
  /\ AdoptTerm(m)
  /\ sendApplyMsg(i)
  /\ Answer(m, FALSE, Conflict(log[i], m))
  /\ UNCHANGED <<voteCount, lastApplied, nextIndex, matchIndex, pc, asking,
                 starting, voteReq, voteRep, history>>
  /\ persist(i)

\* faulty variant: only a heartbeat with entries moves commitIndex
CommitWithEntries(i, m, new) ==
  IF m.Entries = <<>> \/ m.LeaderCommit <= commitIndex[i] THEN commitIndex[i]
  ELSE IF m.LeaderCommit < Len(new) THEN m.LeaderCommit ELSE Len(new)

\* rf.commitIndex after a match, new being the merged log
CommitTo(i, m, new) ==
  IF m.LeaderCommit <= commitIndex[i] THEN commitIndex[i]
  ELSE IF m.LeaderCommit < Len(new) THEN m.LeaderCommit ELSE Len(new)

\* faulty variant: the dummy entry is counted
OwnProgressOff(i, n) ==
  /\ nextIndex' = [nextIndex EXCEPT ![i][i] = n + 2]
  /\ matchIndex' = [matchIndex EXCEPT ![i][i] = n + 1]

\* a log of n entries: nextIndex[me] = len(rf.log), matchIndex[me] the last
OwnProgress(i, n) ==
  /\ nextIndex' = [nextIndex EXCEPT ![i][i] = n + 1]
  /\ matchIndex' = [matchIndex EXCEPT ![i][i] = n]

AppendMatch(m) ==
  LET i == m.dst
      new == MergeEntries(log[i], m.Entries)
      c == CommitTo(i, m, new)
  IN
  /\ m \in appendReq /\ m.Term >= currentTerm[i]
  /\ PrevMatches(log[i], m)
  /\ log' = [log EXCEPT ![i] = new]
  /\ IF m.Entries = <<>> THEN UNCHANGED <<nextIndex, matchIndex>>
     ELSE OwnProgress(i, Len(new))
  /\ commitIndex' = [commitIndex EXCEPT ![i] = c]
  /\ c > lastApplied[i] => c <= Len(new)
  /\ AdoptTerm(m)
  /\ sendApplyMsg(i)
  /\ Answer(m, TRUE, NoHint)
  /\ UNCHANGED <<voteCount, lastApplied, pc, asking, starting, voteReq,
                 voteRep, history>>
  /\ persist(i)

AppendEntries(m) == AppendStale(m) \/ AppendConflict(m) \/ AppendMatch(m)

\* faulty variant, kept as a comment in the code: the log may have grown since
\* the call was sent
MatchLogEnd(i, r) == Len(log[i])

\* the follower has everything the call carried
MatchAfter(i, r) == r.prev + r.sent

\* the rest of the heartbeat goroutine: it checks that the peer is leader, not
\* that it is the leader of the term the heartbeat was sent in
AppendReplied(r) ==
  LET i == r.src IN
  /\ r \in appendRep
  /\ appendRep' = appendRep \ {r}
  /\ \/ /\ state[i] # Leader
        /\ UNCHANGED <<currentTerm, state, votedFor, raftstate, log,
                       nextIndex, matchIndex>>
     \/ /\ state[i] = Leader /\ r.Term > currentTerm[i]
        /\ StepDown(i, r.Term)
        /\ UNCHANGED <<log, nextIndex, matchIndex>>
        /\ persist(i)
     \/ /\ state[i] = Leader /\ r.Term <= currentTerm[i] /\ ~r.Success
        /\ r.XTerm # -1 => r.prev <= Len(log[i]) + 1
        /\ nextIndex' = [nextIndex EXCEPT ![i][r.dst] =
                           Backoff(log[i], r.prev, r)]
        /\ UNCHANGED <<currentTerm, state, votedFor, raftstate, log,
                       matchIndex>>
     \/ /\ state[i] = Leader /\ r.Term <= currentTerm[i] /\ r.Success
        /\ matchIndex' = [matchIndex EXCEPT ![i][r.dst] = MatchAfter(i, r)]
        /\ nextIndex' = [nextIndex EXCEPT ![i][r.dst] = MatchAfter(i, r) + 1]
        /\ UNCHANGED <<currentTerm, state, votedFor, raftstate, log>>
  /\ UNCHANGED <<voteCount, commitIndex, lastApplied, pc, calls, voteReq,
                 voteRep, appendReq, history>>

----------------------------------------------------------------------------
(* Commitment and Start.                                                   *)

\* matchIndex values of the peers that are ahead of commitIndex
Ahead(i) == {j \in Server : matchIndex[i][j] > commitIndex[i]}

\* faulty variant: no majority is asked for
CommitAlone(i, n) ==
  /\ commitIndex[i] < matchIndex[i][i]
  /\ \A j \in Ahead(i) : n <= matchIndex[i][j]
  /\ LogTerm(log[i], n) = currentTerm[i]

\* the least index above commitIndex a peer is known to have is committed if a
\* majority is ahead of commitIndex and the entry is of the current term
CanCommit(i, n) ==
  /\ commitIndex[i] < matchIndex[i][i]
  /\ \A j \in Ahead(i) : n <= matchIndex[i][j]
  /\ IsMajority(Cardinality(Ahead(i)))
  /\ LogTerm(log[i], n) = currentTerm[i]

\* the end of sendHearbeat, after Run has read the state Leader; the state is
\* not read again
sendHearbeat(i) ==
  /\ pc[i] = "leader"
  /\ pc' = [pc EXCEPT ![i] = "loop"]
  /\ UNCHANGED log
  /\ LET ns == {n \in {matchIndex[i][j] : j \in Ahead(i)} : CanCommit(i, n)} IN
     IF ns = {} THEN UNCHANGED <<commitIndex, applying>>
     ELSE \E n \in ns : /\ commitIndex' = [commitIndex EXCEPT ![i] = n]
                        /\ sendApplyMsg(i)
  /\ UNCHANGED <<election, lastApplied, nextIndex, matchIndex, asking,
                 starting, network, history>>

\* Start, first critical section (GetState): not the leader, or ...
GetState(i, c) ==
  /\ c \notin submitted /\ state[i] = Leader
  /\ submitted' = submitted \cup {c}
  /\ starting' = [starting EXCEPT ![i] = @ \cup
                     {[cmd |-> c, term |-> currentTerm[i]]}]
  /\ UNCHANGED <<election, logs, pc, asking, applying, network, applied,
                 delivered, grants>>

\* faulty variant: the index of the entry before
EntryOffByOne(i, s) ==
  [Term |-> s.term, Command |-> s.cmd, Index |-> Len(log[i])]

\* Entry{Term: term, Command: command, Index: len(rf.log)}
NewEntry(i, s) ==
  [Term |-> s.term, Command |-> s.cmd, Index |-> Len(log[i]) + 1]

\* ... second critical section: append with the term read in the first
Start(i, s) ==
  /\ s \in starting[i]
  /\ starting' = [starting EXCEPT ![i] = @ \ {s}]
  /\ log' = [log EXCEPT ![i] = Append(@, NewEntry(i, s))]
  /\ OwnProgress(i, Len(log[i]) + 1)
  /\ UNCHANGED <<currentTerm, votedFor, state, voteCount, commitIndex,
                 lastApplied, pc, asking, applying, network, history>>
  /\ persist(i)

----------------------------------------------------------------------------
\* steps of the goroutines of peer i
PeerStep(i) ==
  \/ Run(i)
  \/ runFollower(i)
  \/ startElection(i)
  \/ runCandidate(i)
  \/ sendHearbeat(i)
  \/ \E j \in Server : sendAppendEntries(i, j)
  \/ \E c \in Command : GetState(i, c)
  \/ \E s \in starting[i] : Start(i, s)
  \/ \E g \in applying[i] : ApplySend(i, g)
  \/ \E g \in applying[i] : ApplyDone(i, g)
  \/ Restart(i)

\* delivery of calls and replies
NetworkStep ==
  \/ \E g \in asking : sendRequestVote(g)
  \/ \E m \in voteReq : RequestVote(m)
  \/ \E r \in voteRep : VoteReplied(r)
  \/ \E m \in appendReq : AppendEntries(m)
  \/ \E r \in appendRep : AppendReplied(r)
  \/ \E m \in appendReq \cup appendRep : LoseAppend(m)

Next == NetworkStep \/ \E i \in Server : PeerStep(i)

Spec == Init /\ [][Next]_vars

\* goroutines are scheduled, a leader goes on sending heartbeats (Run loops
\* every 100 ms), and the network, which drops calls at random, delivers calls
\* and replies between two peers again and again; timeouts, crashes and losses
\* are not required
Fairness ==
  /\ \A i \in Server :
       /\ WF_vars(\E g \in applying[i] : ApplySend(i, g))
       /\ WF_vars(\E g \in applying[i] : ApplyDone(i, g))
  /\ \A i \in {e[1] : e \in Elections} :
       /\ WF_vars(Run(i) \/ runCandidate(i) \/ sendHearbeat(i))
       /\ WF_vars(\E s \in starting[i] : Start(i, s))
       /\ \A j \in Server \ {i} :
            /\ WF_vars(sendAppendEntries(i, j))
            /\ SF_vars(\E m \in appendReq : /\ m.src = i /\ m.dst = j
                                           /\ AppendEntries(m))
            /\ SF_vars(\E r \in appendRep : /\ r.src = i /\ r.dst = j
                                           /\ AppendReplied(r))

FairSpec == Spec /\ Fairness

----------------------------------------------------------------------------
(* Properties.                                                             *)

\* The voting side of the peers behaves as Voting: crashes, restarts and
\* RequestVote calls of any age never take a term back or a vote with it.
V == INSTANCE Voting WITH Voter <- Server, term <- currentTerm,
                          ballot <- votedFor, cast <- grants
VotingSpec == V!Spec

\* A peer gives its vote to one candidate per term, through crashes and
\* delayed RequestVote calls: votedFor is forgotten only together with the
\* term, and both are on disk before the answer leaves the handler.
OneVotePerTerm ==
  \A g, h \in grants : g.voter = h.voter /\ g.term = h.term => g.cand = h.cand

\* So at most one candidate can own a majority of the votes of a term, however
\* RequestVote calls and crashes interleave.
Voters(c, t) == {g.voter : g \in {h \in grants : h.cand = c /\ h.term = t}}
OneMajorityPerTerm ==
  \A g, h \in grants :
    /\ g.term = h.term
    /\ IsMajority(Cardinality(Voters(g.cand, g.term)))
    /\ IsMajority(Cardinality(Voters(h.cand, h.term)))
    => g.cand = h.cand

\* Whenever rf.mu is free, the Persister holds the peer's term, vote and log:
\* no handler answers, and no crash happens, with a change not yet saved.
PersistedIsCurrent ==
  \A i \in Server : raftstate[i] = [log |-> log[i],
                                    currentTerm |-> currentTerm[i],
                                    votedFor |-> votedFor[i]]

\* No step, crash and restart included, takes a peer back to an older term.
TermsNeverDecrease ==
  [][\A i \in Server : currentTerm'[i] >= currentTerm[i]]_vars

\* The Index field of an entry is its position: moreUpToDate, the merge loop and
\* ApplyMsg.CommandIndex use the field where they mean the position.
IndexIsPosition ==
  /\ \A i \in Server : \A k \in 1..Len(log[i]) : log[i][k].Index = k
  /\ \A m \in appendReq : \A k \in 1..Len(m.Entries) :
       m.Entries[k].Index = m.PrevLogIndex + k

\* Entries carry a term between 1 and the peer's own: so the scan for XIndex in
\* AppendEntries stops at the dummy entry of term 0 and never runs off the log.
EntryTermsBounded ==
  \A i \in Server : \A k \in 1..Len(log[i]) :
    1 <= log[i][k].Term /\ log[i][k].Term <= currentTerm[i]

\* matchIndex[me] never points past the log, whatever AppendEntries has cut off
\* it: the commit rule, which also runs just after a step-down, reads log[minN]
\* safely.
OwnMatchInLog == \A i \in Server : matchIndex[i][i] <= Len(log[i])

\* What a service has received from its peer since the restart has no gap: an
\* ApplyMsg follows the one of the index before it, however many appliers run
\* at the same time (config.go reports "apply out of order").
ApplyInOrder ==
  \A i \in Server : \A p \in applied[i] :
    /\ p[1] >= 1
    /\ p[1] > 1 => \E q \in applied[i] : q[1] = p[1] - 1

\* No two peers are leader of the same term (config.go, checkOneLeader).
ElectionSafety ==
  \A i, j \in Server :
    state[i] = Leader /\ state[j] = Leader /\ currentTerm[i] = currentTerm[j]
    => i = j

\* No two services, nor one before and after its restart, receive different
\* commands for an index (config.go, start1).
StateMachineSafety ==
  \A p, q \in delivered : p[1] = q[1] => p = q

\* What a leader believes a peer to have (matchIndex) is on that peer's disk.
MatchIsDurable ==
  \A i, j \in Server : state[i] = Leader =>
    /\ matchIndex[i][j] <= Len(raftstate[j].log)
    /\ \A k \in 1..matchIndex[i][j] : raftstate[j].log[k] = log[i][k]

\* A committed entry is on the disks of a majority.
CommittedOnMajority ==
  \A i \in Server : \A k \in 1..commitIndex[i] :
    IsMajority(Cardinality({j \in Server : k <= Len(raftstate[j].log)
                              /\ raftstate[j].log[k] = log[i][k]}))

\* nextIndex stays at or above the first index, 1.
NextIndexPositive == \A i, j \in Server : nextIndex[i][j] >= 1

\* A command that Start has taken while the peer was leader reaches the service
\* of every peer, as long as no later term interferes: heartbeats repair lost
\* calls, and the heartbeat after the commit moves the followers' commitIndex.
CommandApplied ==
  \A c \in Command :
    c \in submitted ~> \A i \in Server : \E p \in applied[i] : p[2] = c
============================================================================
