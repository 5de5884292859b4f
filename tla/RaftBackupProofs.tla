-------------------------- MODULE RaftBackupProofs --------------------------
(***************************************************************************)
(* Proofs about the fast backup of RaftBackup.tla, for logs of any length  *)
(* and number of terms: nextIndex stays in the leader's log and goes down  *)
(* with every rejection, rejections are few, and the first success makes   *)
(* the follower's log agree with the leader's without cutting what agreed. *)
(***************************************************************************)
EXTENDS RaftBackup, RaftLogProofs, FiniteSetTheorems, SequenceTheorems

\* what the two logs are at the start: entries know their position, terms do not
\* fall, and entries of one term at one position end equal prefixes
LogsInv ==
  /\ leader \in Seq(Entry) /\ origin \in Seq(Entry)
  /\ \A k \in 1..Len(leader) : leader[k].Index = k
  /\ \A j, k \in 1..Len(origin) : j <= k => origin[j].Term <= origin[k].Term
  /\ \A k \in (1..Len(leader)) \cap (1..Len(origin)) :
       leader[k].Term = origin[k].Term => \A x \in 1..k : leader[x] = origin[x]

\* the follower's log changes once, when the exchange is over
BackupInv ==
  /\ LogsInv
  /\ NextInLog
  /\ matched \in BOOLEAN
  /\ ~matched => follower = origin
  /\ Agreement /\ NothingCut

\* The log of a sequence of terms.
LEMMA LogOfShape ==
  ASSUME NEW ts \in TermSeqs
  PROVE  /\ ts \in Seq(1..MaxTerm) /\ LogOf(ts) \in Seq(Entry) /\ Len(LogOf(ts)) = Len(ts)
         /\ \A k \in 1..Len(ts) : /\ ts[k] \in 1..MaxTerm
                                  /\ LogOf(ts)[k] = [Term |-> ts[k], Command |-> "cmd", Index |-> k]
                                  /\ LogOf(ts)[k].Term = ts[k] /\ LogOf(ts)[k].Index = k
         /\ \A j, k \in 1..Len(ts) : j <= k => ts[j] <= ts[k]
<1>1. PICK m \in 0..MaxLen : ts \in [1..m -> 1..MaxTerm]
  BY DEF TermSeqs, SeqOf
<1>2. m \in Nat /\ MaxTerm \in Nat
  BY BoundsAssumption
<1>3. ts \in Seq(1..MaxTerm) /\ Len(ts) = m /\ DOMAIN ts = 1..m
  BY <1>1, <1>2
<1>4. \A k \in 1..m : [Term |-> ts[k], Command |-> "cmd", Index |-> k] \in Entry
  BY <1>1, <1>2, CommandAssumption DEF Entry
<1>5. LogOf(ts) \in [1..m -> Entry]
  BY <1>3, <1>4 DEF LogOf
<1>6. LogOf(ts) \in Seq(Entry) /\ Len(LogOf(ts)) = m
  BY <1>2, <1>5
<1>7. \A j, k \in 1..m : j <= k => ts[j] <= ts[k]
  <2>1. \A j, k \in 1..m : j < k => ts[j] <= ts[k]
    BY <1>3 DEF TermSeqs
  <2>2. \A j \in 1..m : ts[j] \in Nat
    BY <1>1, <1>2
  <2> QED
    BY <2>1, <2>2
<1>8. \A k \in 1..m : LogOf(ts)[k] = [Term |-> ts[k], Command |-> "cmd", Index |-> k]
  BY <1>3 DEF LogOf
<1>9. \A k \in 1..m : ts[k] \in 1..MaxTerm
  BY <1>1
<1> QED
  BY <1>3, <1>6, <1>7, <1>8, <1>9

\* The invariant holds initially.
LEMMA InitBackup == Init => BackupInv
<1> SUFFICES ASSUME Init PROVE BackupInv
  OBVIOUS
<1>1. PICK s \in TermSeqs, t \in TermSeqs :
        /\ Matching(s, t) /\ leader = LogOf(s) /\ follower = LogOf(t)
        /\ next \in 1..(Len(s) + 1) /\ matched = FALSE /\ origin = LogOf(t)
  BY DEF Init
<1>2. /\ s \in Seq(1..MaxTerm) /\ LogOf(s) \in Seq(Entry) /\ Len(LogOf(s)) = Len(s)
      /\ \A k \in 1..Len(s) : /\ s[k] \in 1..MaxTerm
                              /\ LogOf(s)[k] = [Term |-> s[k], Command |-> "cmd", Index |-> k]
                              /\ LogOf(s)[k].Term = s[k] /\ LogOf(s)[k].Index = k
  BY LogOfShape
<1>3. /\ t \in Seq(1..MaxTerm) /\ LogOf(t) \in Seq(Entry) /\ Len(LogOf(t)) = Len(t)
      /\ \A k \in 1..Len(t) : /\ t[k] \in 1..MaxTerm
                              /\ LogOf(t)[k] = [Term |-> t[k], Command |-> "cmd", Index |-> k]
                              /\ LogOf(t)[k].Term = t[k] /\ LogOf(t)[k].Index = k
      /\ \A j, k \in 1..Len(t) : j <= k => t[j] <= t[k]
  BY LogOfShape
<1>4. \A k \in 1..Len(leader) : leader[k].Index = k
  BY <1>1, <1>2, Zenon
<1>5. \A j, k \in 1..Len(origin) : j <= k => origin[j].Term <= origin[k].Term
  <2>1. \A j, k \in 1..Len(t) : j <= k => LogOf(t)[j].Term <= LogOf(t)[k].Term
    BY <1>3, Zenon
  <2> QED
    BY <1>1, <1>3, <2>1, Zenon
<1>6. ASSUME NEW k \in (1..Len(s)) \cap (1..Len(t)), s[k] = t[k], NEW x \in 1..k
      PROVE  LogOf(s)[x] = LogOf(t)[x]
  <2>1. k \in DOMAIN s \cap DOMAIN t
    BY <1>2, <1>3
  <2>2. SubSeq(s, 1, k) = SubSeq(t, 1, k)
    BY <1>1, <1>6, <2>1 DEF Matching
  <2>3. SubSeq(s, 1, k)[x] = s[x] /\ SubSeq(t, 1, k)[x] = t[x]
    BY <1>2, <1>3
  <2>4. s[x] = t[x] /\ x \in 1..Len(s) /\ x \in 1..Len(t)
    BY <1>2, <1>3, <2>2, <2>3
  <2>5. LogOf(s)[x] = [Term |-> s[x], Command |-> "cmd", Index |-> x]
    BY <1>2, <2>4, Zenon
  <2>6. LogOf(t)[x] = [Term |-> t[x], Command |-> "cmd", Index |-> x]
    BY <1>3, <2>4, Zenon
  <2> QED
    BY <2>4, <2>5, <2>6
<1>7. \A k \in (1..Len(leader)) \cap (1..Len(origin)) :
        leader[k].Term = origin[k].Term => \A x \in 1..k : leader[x] = origin[x]
  <2>1. \A k \in (1..Len(s)) \cap (1..Len(t)) :
          LogOf(s)[k].Term = LogOf(t)[k].Term => \A x \in 1..k : LogOf(s)[x] = LogOf(t)[x]
    <3>1. ASSUME NEW k \in (1..Len(s)) \cap (1..Len(t)), LogOf(s)[k].Term = LogOf(t)[k].Term
          PROVE  s[k] = t[k]
      <4>1. LogOf(s)[k].Term = s[k]
        BY <1>2, Zenon
      <4>2. LogOf(t)[k].Term = t[k]
        BY <1>3, Zenon
      <4> QED
        BY <3>1, <4>1, <4>2, Zenon
    <3> QED
      BY <1>6, <3>1, Zenon
  <2> QED
    BY <1>1, <1>2, <1>3, <2>1, ZenonT(30)
<1>8. LogsInv
  BY <1>1, <1>2, <1>3, <1>4, <1>5, <1>7 DEF LogsInv
<1> QED
  BY <1>1, <1>2, <1>8, Zenon DEF BackupInv, NextInLog, Agreement, NothingCut

\* A rejection moves nextIndex down, inside the log.
LEMMA RejectDescends ==
  ASSUME BackupInv, Reject PROVE next' \in 1..(next - 1)
<1>1. leader \in Seq(Entry) /\ follower \in Seq(Entry) /\ next \in 1..(Len(leader) + 1)
  BY DEF BackupInv, LogsInv, NextInLog, Reject
<1>2. Args.PrevLogIndex = next - 1 /\ Args.PrevLogTerm = LogTerm(leader, next - 1)
  BY DEF Args
<1>3. Args.PrevLogIndex \in Nat /\ next - 1 \in Nat
  BY <1>1, <1>2
<1>4. Args.PrevLogIndex = 0 => Args.PrevLogTerm = 0
  BY <1>2, Zenon DEF LogTerm
<1>5. ~PrevMatches(follower, Args)
  BY DEF Reject
<1>6. Backoff(leader, Args.PrevLogIndex, Conflict(follower, Args)) \in 1..Args.PrevLogIndex
  BY <1>1, <1>3, <1>4, <1>5, BackoffProgress
<1> QED
  BY <1>2, <1>6 DEF Reject

\* The merge after a match: the new log starts with the leader's, and a log that
\* held all of it stays as it was.
LEMMA AcceptMerge ==
  ASSUME LogsInv, NextInLog, follower = origin, PrevMatches(follower, Args)
  PROVE  LET new == MergeEntries(follower, Entries) IN
         /\ Len(leader) <= Len(new) /\ SubSeq(new, 1, Len(leader)) = leader
         /\ IsPrefix(leader, origin) => new = origin
<1> DEFINE new == MergeEntries(follower, Entries)
           p == next - 1
           es == Entries
           l == follower
<1>1. /\ leader \in Seq(Entry) /\ l \in Seq(Entry) /\ next \in 1..(Len(leader) + 1)
      /\ \A k \in 1..Len(leader) : leader[k].Index = k
      /\ \A k \in (1..Len(leader)) \cap (1..Len(l)) :
           leader[k].Term = l[k].Term => \A x \in 1..k : leader[x] = l[x]
  BY DEF LogsInv, NextInLog
<1>2. Len(leader) \in Nat /\ Len(l) \in Nat /\ p \in Nat /\ p <= Len(leader) /\ next = p + 1
  BY <1>1
<1>3. p <= Len(l) /\ LogTerm(l, p) = LogTerm(leader, p)
  BY DEF PrevMatches, Args
<1>4. es = SubSeq(leader, p + 1, Len(leader))
  BY SMTT(30), <1>2 DEF Entries
<1> HIDE DEF es, p, l
<1>5. /\ es \in Seq(Entry) /\ Len(es) = Len(leader) - p
      /\ \A k \in 1..(Len(leader) - p) : es[k] = leader[p + k] /\ p + k \in 1..Len(leader)
  BY <1>1, <1>2, <1>4
<1>6. \A k \in 1..Len(es) : es[k].Index = p + k
  BY <1>1, <1>5
<1>7. \A x \in 1..p : l[x] = leader[x]
  <2>1. CASE p = 0
    BY <2>1
  <2>2. CASE p # 0
    <3>1. p \in (1..Len(leader)) \cap (1..Len(l))
      BY <1>2, <1>3, <2>2
    <3> QED
      BY <1>1, <1>3, <2>2, <3>1 DEF LogTerm
  <2> QED
    BY <2>1, <2>2
<1>8. /\ \A x \in 1..Len(new) : \/ x <= Len(l) /\ new[x] = l[x]
                                \/ x - p \in 1..Len(es) /\ new[x] = es[x - p]
      /\ p + Len(es) <= Len(new)
      /\ \A x \in 1..p : new[x] = l[x]
      /\ \A x \in (p + 1)..(p + Len(es)) :
           \/ new[x] = es[x - p]
           \/ x <= Len(l) /\ new[x] = l[x] /\ l[x].Term = es[x - p].Term
      /\ (\A x \in (p + 1)..(p + Len(es)) : x <= Len(l) => l[x].Term = es[x - p].Term)
         => Len(l) <= Len(new) /\ \A x \in 1..Len(l) : new[x] = l[x]
  <2>1. p \in 0..Len(l)
    BY <1>2, <1>3
  <2>2. LET m == MergeEntries(l, es) IN
        /\ \A x \in 1..Len(m) : \/ x <= Len(l) /\ m[x] = l[x]
                                \/ x - p \in 1..Len(es) /\ m[x] = es[x - p]
        /\ p + Len(es) <= Len(m)
        /\ \A x \in 1..p : m[x] = l[x]
        /\ \A x \in (p + 1)..(p + Len(es)) :
             \/ m[x] = es[x - p]
             \/ x <= Len(l) /\ m[x] = l[x] /\ l[x].Term = es[x - p].Term
        /\ (\A x \in (p + 1)..(p + Len(es)) : x <= Len(l) => l[x].Term = es[x - p].Term)
           => Len(l) <= Len(m) /\ \A x \in 1..Len(l) : m[x] = l[x]
    BY <1>1, <1>5, <1>6, <2>1, MergeContents, ZenonT(30)
  <2> QED
    BY <2>2, Zenon DEF l, es
<1>9. new \in Seq(Entry)
  <2>1. p \in 0..Len(l)
    BY <1>2, <1>3
  <2>2. \/ MergeEntries(l, es) = l
        \/ \E k \in NewEntries(l, es) : MergeSplit(l, es, p, k, MergeEntries(l, es))
    BY <1>1, <1>5, <1>6, <2>1, MergeCases, Zenon
  <2>3. MergeEntries(l, es) \in Seq(Entry)
    BY <1>1, <2>2, Zenon DEF MergeSplit
  <2> QED
    BY <2>3 DEF l, es
<1> HIDE DEF new
<1>10. Len(new) \in Nat /\ p + Len(es) = Len(leader)
  BY <1>2, <1>5, <1>9
<1>11. ASSUME NEW x \in (p + 1)..Len(leader)
       PROVE  x - p \in 1..(Len(leader) - p) /\ es[x - p] = leader[x] /\ x \in 1..Len(leader)
  <2>1. x - p \in 1..(Len(leader) - p) /\ p + (x - p) = x /\ x \in 1..Len(leader)
    BY <1>2
  <2>2. es[x - p] = leader[p + (x - p)]
    BY <1>5, <2>1
  <2> QED
    BY <2>1, <2>2
<1>12. ASSUME NEW x \in 1..Len(leader) PROVE new[x] = leader[x]
  <2>1. CASE x \in 1..p
    BY <1>7, <1>8, <2>1
  <2>2. CASE x \notin 1..p
    <3>1. x \in (p + 1)..Len(leader)
      BY <1>2, <2>2
    <3>2. new[x] = es[x - p] \/ (x <= Len(l) /\ new[x] = l[x] /\ l[x].Term = es[x - p].Term)
      BY <1>8, <1>10, <3>1
    <3>3. CASE x <= Len(l) /\ new[x] = l[x] /\ l[x].Term = es[x - p].Term
      <4>1. x \in (1..Len(leader)) \cap (1..Len(l)) /\ leader[x].Term = l[x].Term /\ x \in 1..x
        BY <1>2, <1>11, <3>1, <3>3
      <4>2. \A y \in 1..x : leader[y] = l[y]
        BY <1>1, <4>1
      <4> QED
        BY <3>3, <4>1, <4>2
    <3> QED
      BY <1>11, <3>1, <3>2, <3>3
  <2> QED
    BY <2>1, <2>2
<1>13. Len(leader) <= Len(new)
  BY <1>8, <1>10
<1>14. SubSeq(new, 1, Len(leader)) = leader
  <2> DEFINE q == SubSeq(new, 1, Len(leader))
  <2>1. q \in Seq(Entry) /\ Len(q) = Len(leader) /\ \A x \in 1..Len(leader) : q[x] = new[x]
    BY <1>2, <1>9, <1>10, <1>13
  <2> HIDE DEF q
  <2>2. q = leader
    BY <1>1, <1>12, <2>1, SeqEqual
  <2> QED
    BY <2>2 DEF q
<1>15. ASSUME IsPrefix(leader, l) PROVE new = l
  <2>1. Len(leader) <= Len(l) /\ SubSeq(leader, 1, Len(leader)) = SubSeq(l, 1, Len(leader))
    BY <1>15 DEF IsPrefix
  <2>2. ASSUME NEW x \in 1..Len(leader) PROVE leader[x] = l[x]
    <3>1. SubSeq(leader, 1, Len(leader))[x] = leader[x] /\ SubSeq(l, 1, Len(leader))[x] = l[x]
      BY <1>1, <1>2, <2>1
    <3> QED
      BY <2>1, <3>1
  <2>3. Len(l) <= Len(new) /\ \A x \in 1..Len(l) : new[x] = l[x]
    <3>1. \A x \in (p + 1)..(p + Len(es)) : l[x].Term = es[x - p].Term
      BY <1>10, <1>11, <2>2
    <3> QED
      BY <1>8, <3>1
  <2>4. Len(new) <= Len(l)
    <3>1. CASE Len(new) = 0
      BY <1>2, <3>1
    <3>2. CASE Len(new) # 0
      <4>1. Len(new) \in 1..Len(new)
        BY <1>10, <3>2
      <4>2. Len(new) <= Len(l) \/ Len(new) - p \in 1..Len(es)
        BY <1>8, <4>1
      <4> QED
        BY <1>2, <1>5, <1>10, <2>1, <4>2
    <3> QED
      BY <3>1, <3>2
  <2>5. Len(new) = Len(l)
    BY <1>2, <1>10, <2>3, <2>4
  <2> QED
    BY <1>1, <1>9, <2>3, <2>5, SeqEqual
<1> QED
  BY <1>13, <1>14, <1>15 DEF new, l

\* Every step keeps the invariant.
LEMMA BackupStep == BackupInv /\ [Next]_vars => BackupInv'
<1> SUFFICES ASSUME BackupInv, [Next]_vars PROVE BackupInv'
  OBVIOUS
<1>1. CASE Reject
  <2>1. next' \in 1..(next - 1) /\ next \in 1..(Len(leader) + 1) /\ leader \in Seq(Entry)
    BY <1>1, RejectDescends DEF BackupInv, NextInLog, LogsInv
  <2>2. UNCHANGED <<leader, follower, matched, origin>>
    BY <1>1 DEF Reject
  <2>3. NextInLog'
    BY <2>1, <2>2 DEF NextInLog
  <2>4. LogsInv' /\ Agreement' /\ NothingCut'
    BY <2>2 DEF BackupInv, LogsInv, Agreement, NothingCut
  <2> QED
    BY <2>2, <2>3, <2>4 DEF BackupInv
<1>2. CASE Accept
  <2>1. /\ ~matched /\ PrevMatches(follower, Args) /\ follower' = MergeEntries(follower, Entries)
        /\ next' = next - 1 + Len(Entries) + 1 /\ matched' = TRUE /\ leader' = leader /\ origin' = origin
    BY <1>2 DEF Accept
  <2>2. follower = origin /\ LogsInv /\ NextInLog
    BY <2>1 DEF BackupInv
  <2>3. /\ Len(leader) <= Len(follower') /\ SubSeq(follower', 1, Len(leader)) = leader
        /\ IsPrefix(leader, origin) => follower' = origin
    BY <2>1, <2>2, AcceptMerge
  <2>4. leader \in Seq(Entry) /\ next \in 1..(Len(leader) + 1)
    BY <2>2 DEF LogsInv, NextInLog
  <2>5. Len(Entries) = Len(leader) - next + 1
    BY <2>4 DEF Entries
  <2>6. NextInLog'
    BY <2>1, <2>4, <2>5 DEF NextInLog
  <2>7. LogsInv' /\ Agreement' /\ NothingCut'
    BY <2>1, <2>2, <2>3 DEF LogsInv, Agreement, NothingCut
  <2> QED
    BY <2>1, <2>6, <2>7 DEF BackupInv
<1>3. CASE UNCHANGED vars
  BY <1>3 DEF vars, BackupInv, LogsInv, NextInLog, Agreement, NothingCut
<1> QED
  BY <1>1, <1>2, <1>3 DEF Next

LEMMA BackupInvariance == Spec => []BackupInv
BY InitBackup, BackupStep, PTL DEF Spec

\* Every heartbeat the backed-off leader sends names an entry it has: nextIndex
\* stays between 1 and the end of its log, whatever the two logs are.
THEOREM NextIndexInLog == Spec => []NextInLog
<1>1. BackupInv => NextInLog
  BY DEF BackupInv
<1> QED
  BY <1>1, BackupInvariance, PTL

\* The leader's handling of a rejected heartbeat always moves nextIndex down, so
\* the backup cannot go round in circles.
THEOREM RejectionsDescend == Spec => BackoffDescends
<1>1. BackupInv /\ [Next]_vars => [matched' = FALSE => next' < next]_vars
  <2> SUFFICES ASSUME BackupInv, [Next]_vars, ~UNCHANGED vars, matched' = FALSE
               PROVE  next' < next
    BY Zenon
  <2>1. Reject
    BY DEF Next, Accept
  <2>2. next' \in 1..(next - 1) /\ next \in 1..(Len(leader) + 1) /\ leader \in Seq(Entry)
    BY <2>1, RejectDescends DEF BackupInv, NextInLog, LogsInv
  <2> QED
    BY <2>2
<1> QED
  BY <1>1, BackupInvariance, PTL DEF Spec, BackoffDescends

\* After the first success of AppendEntries the follower's log starts with the
\* leader's, for any two logs with the Log Matching Property.
THEOREM LogsAgree == Spec => []Agreement
<1>1. BackupInv => Agreement
  BY DEF BackupInv
<1> QED
  BY <1>1, BackupInvariance, PTL

\* The merge loop of AppendEntries cuts nothing from a log that already holds all
\* of the leader's entries.
THEOREM NoEntryCut == Spec => []NothingCut
<1>1. BackupInv => NothingCut
  BY DEF BackupInv
<1> QED
  BY <1>1, BackupInvariance, PTL

----------------------------------------------------------------------------
(* The number of rejections.                                               *)

Terms == {origin[k].Term : k \in DOMAIN origin}

\* the terms a backup that has come down to position q is done with
Above(q) == {t \in Terms : t > origin[q].Term}

\* a rejected round but the first leaves a term behind, or the next one succeeds
RoundInv ==
  /\ rounds \in Nat
  /\ \/ rounds = 0
     \/ /\ matched \/ PrevMatches(follower, Args)
        /\ rounds <= Cardinality(Terms) + 1
     \/ /\ next - 1 \in 1..Len(origin)
        /\ rounds <= 1 + Cardinality(Above(next - 1))

\* a leader with log m, told by a follower with log l, terms not falling, that
\* entry p conflicts, comes down to entry q
BacksTo(m, l, args, p, q) ==
  /\ l \in Seq(Entry) /\ m \in Seq(Entry) /\ p \in 1..Len(l) /\ args.PrevLogIndex = p
  /\ \A j, k \in 1..Len(l) : j <= k => l[j].Term <= l[k].Term
  /\ q = Backoff(m, p, Conflict(l, args)) - 1 /\ q \in 1..(p - 1)

LeavesTerm(m, l, p, q) ==
  /\ q \in 1..Len(l)
  /\ l[q].Term < l[p].Term \/ (l[q].Term = l[p].Term /\ m[q].Term = l[q].Term)

\* One backup step from a position of the follower's log, unless it ends at the
\* dummy entry: to an earlier term, or to the leader's entry of the same term.
LEMMA BackoffLeavesTerm ==
  ASSUME NEW l, NEW m, NEW args, NEW p, NEW q, BacksTo(m, l, args, p, q)
  PROVE  LeavesTerm(m, l, p, q)
<1>0. /\ l \in Seq(Entry) /\ m \in Seq(Entry) /\ p \in 1..Len(l) /\ args.PrevLogIndex = p
      /\ \A j, k \in 1..Len(l) : j <= k => l[j].Term <= l[k].Term
      /\ q = Backoff(m, p, Conflict(l, args)) - 1 /\ q \in 1..(p - 1)
  BY SMTT(30) DEF BacksTo
<1> DEFINE x == Conflict(l, args)
           ends == TermEnds(m, p, x.XTerm)
           S == {z \in 1..p : \A y \in z..p : l[y].Term = l[p].Term}
<1>1. Len(l) \in Nat /\ p \in Nat /\ ~(p > Len(l)) /\ p # 0 /\ q \in 1..Len(l) /\ q < p /\ q \in 1..p
  <2>1. Len(l) \in Nat /\ p \in Nat /\ p <= Len(l) /\ ~(p > Len(l)) /\ p # 0
    BY <1>0
  <2>2. \A z \in 1..(p - 1) : z \in 1..Len(l) /\ z < p /\ z \in 1..p
    BY <2>1
  <2> QED
    BY <1>0, <2>1, <2>2, Zenon
<1>2. x = [XTerm |-> l[p].Term, XIndex |-> RunStart(l, p)]
  BY <1>0, <1>1 DEF Conflict, LogTerm
<1>3. x.XTerm = l[p].Term /\ x.XIndex = RunStart(l, p)
  <2> HIDE DEF x
  <2> QED
    BY <1>0, <1>2
<1>4. \A k \in 1..Len(l) : l[k].Term \in Nat
  <2>1. \A k \in 1..Len(l) : l[k] \in Entry
    BY <1>0
  <2> QED
    BY <2>1 DEF Entry
<1>5. l[p].Term \in Nat /\ l[q].Term \in Nat /\ l[q].Term <= l[p].Term
  BY <1>0, <1>1, <1>4
<1>6. Backoff(m, p, x) = IF ends = {} THEN RunStart(l, p) ELSE Max(ends)
  <2>1. x.XTerm # -1
    BY <1>0, <1>3, <1>5
  <2> QED
    BY <1>0, <1>3, <2>1 DEF Backoff
<1>9. q = (IF ends = {} THEN RunStart(l, p) ELSE Max(ends)) - 1
  BY <1>0, <1>6, Zenon
<1>7. CASE ends = {}
  <2>1. q = Min(S) - 1
    BY <1>9, <1>7 DEF RunStart
  <2>2. p \in S /\ S \in SUBSET Nat
    BY <1>0, <1>1
  <2>3. Min(S) \in S /\ \A y \in S : Min(S) <= y
    <3> HIDE DEF S
    <3> QED
      BY <2>2, MinProperty
  <2>4. q \notin S /\ q + 1 \in S
    <3>1. Min(S) \in Nat
      BY <2>2, <2>3
    <3> HIDE DEF S
    <3>2. Min(S) = q + 1
      BY <1>0, <1>1, <2>1, <3>1
    <3>3. ~(q + 1 <= q)
      BY <1>0, <1>1
    <3> QED
      BY <2>3, <3>2, <3>3
  <2>5. \A y \in (q + 1)..p : l[y].Term = l[p].Term
    BY <2>4
  <2>6. l[q].Term # l[p].Term
    <3>1. SUFFICES ASSUME l[q].Term = l[p].Term PROVE FALSE
      OBVIOUS
    <3>2. \A y \in q..p : y = q \/ y \in (q + 1)..p
      BY <1>0, <1>1
    <3>3. \A y \in q..p : l[y].Term = l[p].Term
      BY <2>5, <3>1, <3>2
    <3> QED
      BY <1>0, <1>1, <2>4, <3>3
  <2> QED
    BY <1>1, <1>5, <2>6 DEF LeavesTerm
<1>8. CASE ends # {}
  <2>1. ends \in SUBSET (0..p)
    BY <1>0, <1>1 DEF TermEnds
  <2>2. Max(ends) \in ends
    <3> HIDE DEF ends
    <3> QED
      BY <1>0, <1>1, <1>8, <2>1, MaxProperty, Zenon
  <2>3. q + 1 = Max(ends)
    <3>1. Max(ends) \in Int
      BY <2>1, <2>2
    <3>2. q = Max(ends) - 1
      BY <1>8, <1>9
    <3>3. \A z \in Int : z - 1 + 1 = z
      OBVIOUS
    <3> QED
      BY <3>1, <3>2, <3>3, Zenon
  <2>4. LogTerm(m, q) = x.XTerm
    <3>1. LogTerm(m, (q + 1) - 1) = x.XTerm
      <4>1. q + 1 \in ends
        BY <2>2, <2>3, Zenon
      <4> QED
        BY <4>1, Zenon DEF TermEnds
    <3>2. (q + 1) - 1 = q
      BY <1>0, <1>1
    <3> QED
      BY <3>1, <3>2
  <2>5. m[q].Term = l[p].Term
    BY <1>0, <1>1, <1>3, <2>4 DEF LogTerm
  <2> QED
    BY <1>1, <1>5, <2>5 DEF LeavesTerm
<1> QED
  BY <1>7, <1>8

\* The terms of a log whose terms do not fall are finitely many.
LEMMA TermsFinite ==
  ASSUME LogsInv PROVE IsFiniteSet(Terms) /\ Terms \in SUBSET Nat
<1>1. /\ origin \in Seq(Entry) /\ Len(origin) \in Nat /\ DOMAIN origin = 1..Len(origin)
      /\ \A j, k \in 1..Len(origin) : j <= k => origin[j].Term <= origin[k].Term
  BY DEF LogsInv
<1>2. \A k \in 1..Len(origin) : origin[k].Term \in Nat
  <2>1. \A k \in 1..Len(origin) : origin[k] \in Entry
    BY <1>1
  <2> QED
    BY <2>1 DEF Entry
<1>3. Terms \in SUBSET Nat
  BY <1>1, <1>2 DEF Terms
<1>4. \E n \in Nat : \A t \in Terms : t <= n
  <2>1. CASE Len(origin) = 0
    BY <1>1, <2>1 DEF Terms
  <2>2. CASE Len(origin) # 0
    <3>1. Len(origin) \in 1..Len(origin) /\ \A k \in 1..Len(origin) : k <= Len(origin)
      BY <1>1, <2>2
    <3>2. \A k \in 1..Len(origin) : origin[k].Term <= origin[Len(origin)].Term
      BY <1>1, <3>1, Zenon
    <3>3. \A t \in Terms : t <= origin[Len(origin)].Term
      BY <1>1, <3>2 DEF Terms
    <3> QED
      BY <1>2, <3>1, <3>3
  <2> QED
    BY <2>1, <2>2
<1> QED
  BY <1>3, <1>4, FS_BoundedSetOfNaturals

\* The terms above a position are some of the terms, and going down past a term
\* adds one.
LEMMA AboveCount ==
  ASSUME LogsInv, NEW p \in 1..Len(origin)
  PROVE  /\ Cardinality(Terms) \in Nat /\ Cardinality(Above(p)) \in Nat
         /\ Cardinality(Above(p)) + 1 <= Cardinality(Terms)
         /\ \A q \in 1..Len(origin) : /\ Cardinality(Above(q)) \in Nat
                                      /\ origin[q].Term < origin[p].Term =>
                                           Cardinality(Above(p)) + 1 <= Cardinality(Above(q))
<1> DEFINE tp == origin[p].Term
           A == Above(p) \cup {tp}
<1>1. IsFiniteSet(Terms) /\ Terms \in SUBSET Nat
  BY TermsFinite
<1>2. \A q \in 1..Len(origin) : Above(q) \in SUBSET Terms /\ origin[q].Term \in Terms
  BY DEF Above, Terms, LogsInv
<1>3. \A q \in 1..Len(origin) : IsFiniteSet(Above(q)) /\ Cardinality(Above(q)) \in Nat
  <2>1. ASSUME NEW q \in 1..Len(origin) PROVE IsFiniteSet(Above(q))
    BY <1>1, <1>2, FS_Subset
  <2> QED
    BY <2>1, FS_CardinalityType
<1>4. tp \in Nat /\ tp \in Terms /\ tp \notin Above(p)
  <2>1. tp \in Nat /\ tp \in Terms
    BY <1>1, <1>2, Zenon
  <2>2. ~(tp > tp)
    BY <2>1
  <2> QED
    BY <2>1, <2>2 DEF Above
<1>5. IsFiniteSet(A) /\ Cardinality(A) = Cardinality(Above(p)) + 1
  <2>1. IsFiniteSet(Above(p)) /\ tp \notin Above(p)
    BY <1>3, <1>4
  <2> HIDE DEF tp
  <2> QED
    BY <2>1, FS_AddElement
<1>6. Cardinality(A) <= Cardinality(Terms)
  <2>1. A \in SUBSET Terms
    BY <1>2, <1>4
  <2> HIDE DEF A
  <2> QED
    BY <1>1, <2>1, FS_Subset, Zenon
<1>7. ASSUME NEW q \in 1..Len(origin), origin[q].Term < tp
      PROVE  Cardinality(A) <= Cardinality(Above(q))
  <2>1. A \in SUBSET Above(q)
    <3>1. origin[q].Term \in Nat
      BY <1>1, <1>2, Zenon
    <3>2. tp \in Above(q)
      BY <1>4, <1>7 DEF Above
    <3>3. \A t \in Nat : t > tp => t > origin[q].Term
      BY <1>4, <1>7, <3>1
    <3>4. \A t \in Above(p) : t \in Above(q)
      BY <1>1, <3>3 DEF Above
    <3> QED
      BY <3>2, <3>4
  <2>2. IsFiniteSet(Above(q))
    BY <1>3
  <2> HIDE DEF A
  <2> QED
    BY <2>1, <2>2, FS_Subset
<1>8. Cardinality(Terms) \in Nat
  BY <1>1, FS_CardinalityType
<1> HIDE DEF A
<1> QED
  BY <1>3, <1>5, <1>6, <1>7, <1>8

\* A rejected round.
LEMMA RejectRounds ==
  ASSUME BackupInv, RoundInv, Reject PROVE RoundInv'
<1> DEFINE p == next - 1
           q == next' - 1
           l == origin
<1>1. /\ LogsInv /\ leader \in Seq(Entry) /\ origin \in Seq(Entry) /\ Len(origin) \in Nat
      /\ \A j, k \in 1..Len(l) : j <= k => l[j].Term <= l[k].Term
      /\ next \in 1..(Len(leader) + 1) /\ Len(leader) \in Nat
  BY DEF BackupInv, LogsInv, NextInLog
<1>2. /\ ~matched /\ ~PrevMatches(follower, Args) /\ follower = origin
      /\ next' = Backoff(leader, p, Conflict(follower, Args))
      /\ UNCHANGED <<leader, follower, matched, origin>>
  BY DEF Reject, BackupInv
<1>3. next' \in 1..(next - 1) /\ p \in Nat /\ q \in 0..(p - 1)
  <2>1. next' \in 1..(next - 1)
    BY RejectDescends
  <2> QED
    BY <1>1, <2>1
<1>4. rounds \in Nat /\ rounds' \in Nat /\ rounds' <= rounds + 1
  <2>1. rounds \in Nat /\ rounds' = IF rounds < MaxRounds THEN rounds + 1 ELSE rounds
    BY DEF RoundInv, Reject
  <2>2. rounds' = rounds + 1 \/ rounds' = rounds
    BY <2>1
  <2> QED
    BY <2>1, <2>2
<1>5. Terms' = Terms /\ \A k : Above(k)' = Above(k)
  BY <1>2 DEF Terms, Above
<1>6. Args.PrevLogIndex = p /\ Args'.PrevLogIndex = q /\ Args'.PrevLogTerm = LogTerm(leader, q)
  BY <1>2 DEF Args
<1>7. \/ rounds = 0
      \/ p \in 1..Len(origin) /\ rounds <= 1 + Cardinality(Above(p))
  BY <1>2 DEF RoundInv
<1>8. IsFiniteSet(Terms) /\ Cardinality(Terms) \in Nat
  BY <1>1, TermsFinite, FS_CardinalityType
<1>9. \A k \in 1..Len(origin) : Cardinality(Above(k)) \in Nat /\ Cardinality(Above(k)) + 1 <= Cardinality(Terms)
  BY <1>1, AboveCount
<1>10. rounds' <= Cardinality(Terms) + 1
  BY <1>4, <1>7, <1>8, <1>9
<1>11. PrevMatches(follower, Args)' => RoundInv'
  BY <1>4, <1>5, <1>10 DEF RoundInv
<1>12. q \in 0..Len(origin) /\ (q # 0 => LogTerm(leader, q) = leader[q].Term /\ LogTerm(origin, q) = origin[q].Term)
       => (PrevMatches(follower, Args)' <=> LogTerm(origin, q) = LogTerm(leader, q))
  BY <1>1, <1>2, <1>6 DEF PrevMatches
<1>13. CASE q = 0
  BY <1>1, <1>11, <1>12, <1>13 DEF LogTerm
<1>14. CASE q # 0
  <2>1. q \in 1..(p - 1) /\ LogTerm(leader, q) = leader[q].Term /\ LogTerm(origin, q) = origin[q].Term
    <3>1. q \in 1..(p - 1)
      <4> HIDE DEF p, q
      <4> QED
        BY <1>3, <1>14
    <3>2. ~(q = 0)
      BY <1>14
    <3> QED
      BY <3>1, <3>2, Zenon DEF LogTerm
  <2>2. CASE p > Len(origin)
    <3>1. Conflict(follower, Args) = [XTerm |-> -1, XIndex |-> Len(origin) + 1]
      BY <1>2, <1>6, <2>2 DEF Conflict
    <3>2. next' = Len(origin) + 1
      BY <1>2, <3>1 DEF Backoff
    <3>3. q = Len(origin) /\ q \in 1..Len(origin)
      BY <1>1, <1>14, <3>2
    <3>4. rounds' <= 1
      BY <1>1, <1>3, <1>4, <1>7, <2>2
    <3>5. rounds' <= 1 + Cardinality(Above(q))
      BY <1>4, <1>9, <3>3, <3>4
    <3> QED
      BY <1>2, <1>4, <1>5, <3>3, <3>5 DEF RoundInv
  <2>3. CASE p <= Len(origin)
    <3>1. p \in 1..Len(origin)
      BY <1>1, <1>3, <2>1, <2>3
    <3>2. q = Backoff(leader, p, Conflict(origin, Args)) - 1
      BY <1>2
    <3>3. q \in 1..Len(l) /\ (l[q].Term < l[p].Term \/ (l[q].Term = l[p].Term /\ leader[q].Term = l[q].Term))
      <4>1. BacksTo(leader, l, Args, p, q)
        BY <1>1, <1>6, <2>1, <3>1, <3>2, Zenon DEF BacksTo
      <4>2. LeavesTerm(leader, l, p, q)
        <5> HIDE DEF q, p, l
        <5> QED
          BY <4>1, BackoffLeavesTerm, Zenon
      <4> QED
        BY <4>2 DEF LeavesTerm
    <3>4. CASE l[q].Term < l[p].Term
      <4>1. Cardinality(Above(p)) + 1 <= Cardinality(Above(q))
        BY <1>1, <3>1, <3>3, <3>4, AboveCount, Zenon
      <4>2. rounds' <= 1 + Cardinality(Above(q))
        BY <1>4, <1>7, <1>9, <3>1, <3>3, <4>1
      <4> QED
        BY <1>2, <1>4, <1>5, <3>3, <4>2 DEF RoundInv
    <3>5. CASE l[q].Term = l[p].Term /\ leader[q].Term = l[q].Term
      BY <1>1, <1>11, <1>12, <2>1, <3>3, <3>5
    <3> QED
      BY <3>3, <3>4, <3>5
  <2> QED
    BY <1>1, <1>3, <2>2, <2>3
<1> QED
  BY <1>13, <1>14

\* Every step keeps the count.
LEMMA RoundStep == BackupInv /\ RoundInv /\ [Next]_vars => RoundInv'
<1> SUFFICES ASSUME BackupInv, RoundInv, [Next]_vars PROVE RoundInv'
  OBVIOUS
<1>1. CASE Reject
  BY <1>1, RejectRounds
<1>2. CASE Accept
  <2>1. matched' = TRUE /\ rounds' = rounds /\ Terms' = Terms
    BY <1>2 DEF Accept, Terms
  <2>2. LogsInv /\ rounds \in Nat
    BY DEF BackupInv, RoundInv
  <2>3. IsFiniteSet(Terms) /\ Cardinality(Terms) \in Nat
    BY <2>2, TermsFinite, FS_CardinalityType
  <2>4. rounds <= Cardinality(Terms) + 1
    <3>1. CASE next - 1 \in 1..Len(origin) /\ rounds <= 1 + Cardinality(Above(next - 1))
      <4>1. Cardinality(Above(next - 1)) \in Nat /\ Cardinality(Above(next - 1)) + 1 <= Cardinality(Terms)
        BY <2>2, <3>1, AboveCount
      <4> QED
        BY <2>2, <2>3, <3>1, <4>1
    <3> QED
      BY <2>2, <2>3, <3>1 DEF RoundInv
  <2> QED
    BY <2>1, <2>2, <2>4 DEF RoundInv
<1>3. CASE UNCHANGED vars
  BY <1>3 DEF vars, RoundInv, Terms, Above, Args
<1> QED
  BY <1>1, <1>2, <1>3 DEF Next

\* The conflict hint of AppendEntries lets the leader skip whole terms: for any two
\* logs the backup takes at most one rejected round more than the follower's log
\* has terms.
THEOREM RejectionsAreFew == Spec => []FewRounds
<1>1. Init => RoundInv
  BY DEF Init, RoundInv
<1>2. BackupInv /\ RoundInv => FewRounds
  <2> SUFFICES ASSUME BackupInv, RoundInv PROVE rounds <= Cardinality(Terms) + 1
    BY DEF FewRounds, Terms
  <2>1. LogsInv /\ rounds \in Nat
    BY DEF BackupInv, RoundInv
  <2>2. IsFiniteSet(Terms) /\ Cardinality(Terms) \in Nat
    BY <2>1, TermsFinite, FS_CardinalityType
  <2>3. CASE next - 1 \in 1..Len(origin) /\ rounds <= 1 + Cardinality(Above(next - 1))
    <3>1. Cardinality(Above(next - 1)) \in Nat /\ Cardinality(Above(next - 1)) + 1 <= Cardinality(Terms)
      BY <2>1, <2>3, AboveCount
    <3> QED
      BY <2>1, <2>2, <2>3, <3>1
  <2> QED
    BY <2>1, <2>2, <2>3 DEF RoundInv
<1> QED
  BY <1>1, <1>2, BackupInvariance, RoundStep, PTL DEF Spec

----------------------------------------------------------------------------
(* The merge in one piece and the loop that does it entry by entry.        *)

\* g is the function by which FoldLeft is defined, on the indices up to n: the
\* loop body for the last index, applied to what the indices before it give
LoopOn(n, l, es, g) ==
  g = [s \in SUBSET (1..n) |->
         IF s = {} THEN l ELSE MergeStep(g[s \ {Max(s)}], es[Max(s)])]

\* Such a function exists for every number of entries.
LEMMA LoopExists ==
  ASSUME NEW l, NEW es, NEW n \in Nat
  PROVE  \E g : LoopOn(n, l, es, g)
<1> DEFINE Bad == {m \in Nat : ~\E g : LoopOn(m, l, es, g)}
<1>1. ASSUME NEW m \in Nat, NEW g, LoopOn(m, l, es, g) PROVE \E h : LoopOn(m + 1, l, es, h)
  <2> DEFINE h == [s \in SUBSET (1..(m + 1)) |->
                     IF m + 1 \in s THEN MergeStep(g[s \ {m + 1}], es[m + 1]) ELSE g[s]]
             k == [s \in SUBSET (1..(m + 1)) |->
                     IF s = {} THEN l ELSE MergeStep(h[s \ {Max(s)}], es[Max(s)])]
  <2>1. ASSUME NEW s \in SUBSET (1..(m + 1)) PROVE h[s] = k[s]
    <3>1. CASE m + 1 \in s
      <4>1. s \in SUBSET (0..(m + 1)) /\ s # {} /\ m + 1 \in Nat
        BY <3>1
      <4>2. Max(s) \in s /\ \A y \in s : Max(s) >= y
        BY <4>1, MaxProperty, Zenon
      <4>3. Max(s) = m + 1
        <5>1. \A x \in 1..(m + 1) : x >= m + 1 => x = m + 1
          OBVIOUS
        <5>2. Max(s) \in 1..(m + 1) /\ Max(s) >= m + 1
          BY <3>1, <4>2, Zenon
        <5> QED
          BY <5>1, <5>2, Zenon
      <4>4. s \ {m + 1} \in SUBSET (1..(m + 1)) /\ m + 1 \notin s \ {m + 1}
        OBVIOUS
      <4>5. h[s \ {m + 1}] = g[s \ {m + 1}]
        BY <4>4, Zenon
      <4>6. h[s] = MergeStep(g[s \ {m + 1}], es[m + 1])
        BY <3>1, Zenon
      <4>7. k[s] = MergeStep(h[s \ {m + 1}], es[m + 1])
        BY <4>1, <4>3, Zenon
      <4> QED
        BY <4>5, <4>6, <4>7, Zenon
    <3>2. CASE m + 1 \notin s
      <4>1. s \in SUBSET (1..m) /\ s \in SUBSET (0..m)
        BY <3>2
      <4>2. h[s] = g[s]
        BY <3>2, Zenon
      <4>3. g[s] = IF s = {} THEN l ELSE MergeStep(g[s \ {Max(s)}], es[Max(s)])
        BY <1>1, <4>1, Zenon DEF LoopOn
      <4>4. h[s \ {Max(s)}] = g[s \ {Max(s)}]
        <5>1. s \ {Max(s)} \in SUBSET (1..(m + 1)) /\ m + 1 \notin s \ {Max(s)}
          BY <3>2, Zenon
        <5> QED
          BY <5>1, Zenon
      <4>5. k[s] = IF s = {} THEN l ELSE MergeStep(h[s \ {Max(s)}], es[Max(s)])
        BY Zenon
      <4> QED
        BY <4>2, <4>3, <4>4, <4>5, Zenon
    <3> QED
      BY <3>1, <3>2, Zenon
  <2>2. h = k
    BY <2>1, Zenon
  <2>3. LoopOn(m + 1, l, es, h)
    BY <2>2, Zenon DEF LoopOn
  <2> QED
    BY <2>3, Zenon
<1>2. 0 \notin Bad
  <2> DEFINE g == [s \in SUBSET (1..0) |-> l]
             k == [s \in SUBSET (1..0) |->
                     IF s = {} THEN l ELSE MergeStep(g[s \ {Max(s)}], es[Max(s)])]
  <2>1. \A s \in SUBSET (1..0) : s = {}
    OBVIOUS
  <2>2. g = k
    BY <2>1, Zenon
  <2>3. LoopOn(0, l, es, g)
    BY <2>2, Zenon DEF LoopOn
  <2> QED
    BY <2>3, Zenon
<1>3. ASSUME Bad # {} PROVE FALSE
  <2>1. Bad \in SUBSET Nat
    OBVIOUS
  <2>2. PICK m \in Bad : \A y \in Bad : m <= y
    <3> HIDE DEF Bad
    <3> QED
      BY <1>3, <2>1, LeastNatural
  <2>3. m \in Nat /\ m # 0
    BY <1>2
  <2>4. m - 1 \in Nat /\ (m - 1) + 1 = m /\ ~(m <= m - 1)
    BY <2>3
  <2>5. m - 1 \notin Bad
    BY <2>2, <2>4, Zenon
  <2>6. PICK g : LoopOn(m - 1, l, es, g)
    BY <2>4, <2>5, Zenon
  <2>7. \E h : LoopOn((m - 1) + 1, l, es, h)
    BY <1>1, <2>4, <2>6, Zenon
  <2>8. \E h : LoopOn(m, l, es, h)
    BY <2>4, <2>7, Zenon
  <2> QED
    BY <2>8
<1> QED
  BY <1>3, Zenon

\* The loop goes through the entries one after the other: after k rounds the log
\* is r[k].
LEMMA LoopRounds ==
  ASSUME NEW l, NEW es \in Seq(Entry)
  PROVE  \E r : /\ r[0] = l
                /\ \A k \in 1..Len(es) : r[k] = MergeStep(r[k - 1], es[k])
                /\ FoldLeft(MergeStep, l, es) = r[Len(es)]
<1>1. Len(es) \in Nat /\ DOMAIN es = 1..Len(es)
  OBVIOUS
<1> DEFINE n == Len(es)
           g == CHOOSE g : LoopOn(n, l, es, g)
           r == [k \in 0..n |-> g[1..k]]
<1>2. LoopOn(n, l, es, g)
  BY <1>1, LoopExists, Zenon
<1>3. FoldLeft(MergeStep, l, es) = g[1..n]
  <2>1. FoldLeft(MergeStep, l, es) =
          (CHOOSE f : f = [s \in SUBSET DOMAIN es |->
             IF s = {} THEN l ELSE MergeStep(f[s \ {Max(s)}], es[Max(s)])])[DOMAIN es]
    BY DEF FoldLeft, MapThenFoldSet
  <2> QED
    BY <1>1, <2>1, Zenon DEF LoopOn
<1> HIDE DEF g
<1>4. \A s \in SUBSET (1..n) :
        g[s] = IF s = {} THEN l ELSE MergeStep(g[s \ {Max(s)}], es[Max(s)])
  BY <1>2, Zenon DEF LoopOn
<1>5. r[0] = l
  <2>1. 1..0 = {} /\ 0 \in 0..n
    BY <1>1
  <2>2. r[0] = g[1..0]
    BY <2>1, Zenon
  <2>3. {} \in SUBSET (1..n)
    OBVIOUS
  <2> QED
    BY <1>4, <2>1, <2>2, <2>3, Zenon
<1>6. ASSUME NEW k \in 1..n PROVE r[k] = MergeStep(r[k - 1], es[k])
  <2>1. /\ k \in 0..n /\ k - 1 \in 0..n /\ k \in Nat
        /\ 1..k \in SUBSET (1..n) /\ 1..k # {} /\ 1..k \in SUBSET (0..k)
        /\ (1..k) \ {k} = 1..(k - 1) /\ k \in 1..k
    <3>1. \A a \in Nat : \A b \in 1..a :
            /\ b \in 0..a /\ b - 1 \in 0..a /\ b \in Nat
            /\ 1..b \subseteq 1..a /\ b \in 1..b /\ 1..b \subseteq 0..b
      OBVIOUS
    <3>2. \A b \in Nat : (1..b) \ {b} = 1..(b - 1)
      OBVIOUS
    <3> QED
      BY <1>1, <3>1, <3>2, Zenon
  <2>2. Max(1..k) \in 1..k /\ \A y \in 1..k : Max(1..k) >= y
    BY <2>1, MaxProperty, Zenon
  <2>3. Max(1..k) = k
    BY <2>1, <2>2
  <2>4. g[1..k] = MergeStep(g[(1..k) \ {Max(1..k)}], es[Max(1..k)])
    BY <1>4, <2>1, Zenon
  <2>5. g[1..k] = MergeStep(g[1..(k - 1)], es[k])
    BY <2>1, <2>3, <2>4, Zenon
  <2>6. r[k] = g[1..k] /\ r[k - 1] = g[1..(k - 1)]
    BY <2>1, Zenon
  <2> QED
    BY <2>5, <2>6, Zenon
<1>7. r[n] = g[1..n]
  <2>1. n \in 0..n
    BY <1>1
  <2> QED
    BY <2>1, Zenon
<1> QED
  BY <1>3, <1>5, <1>6, <1>7, Zenon

\* One round of the loop: the entry follows index p and the j - 1 entries before
\* it have been dealt with.  Before the first new entry, the q-th, nothing
\* happens; that one cuts or extends the log; the later ones extend it.
LEMMA LoopRound ==
  ASSUME NEW l \in Seq(Entry), NEW es \in Seq(Entry), NEW p \in 0..Len(l),
         \A k \in 1..Len(es) : es[k].Index = p + k,
         NEW j \in 1..Len(es)
  PROVE  /\ j \notin NewEntries(l, es) => MergeStep(l, es[j]) = l
         /\ j \in NewEntries(l, es) /\ (p + j) - 1 <= Len(l) =>
              MergeStep(l, es[j]) = Append(SubSeq(l, 1, (p + j) - 1), es[j])
         /\ \A m \in Seq(Entry) :
              Len(m) = (p + j) - 1 => MergeStep(m, es[j]) = Append(m, es[j])
<1>1. es[j].Index = p + j /\ es[j] \in Entry /\ p \in Nat /\ j \in Nat /\ Len(l) \in Nat
  OBVIOUS
<1>2. j \in NewEntries(l, es) <=> \/ p + j > Len(l)
                                 \/ LogTerm(l, p + j) # es[j].Term
  BY <1>1 DEF NewEntries
<1>3. \A m : MergeStep(m, es[j]) =
              IF p + j <= Len(m)
              THEN IF LogTerm(m, p + j) # es[j].Term
                   THEN Append(SubSeq(m, 1, (p + j) - 1), es[j]) ELSE m
              ELSE Append(m, es[j])
  BY <1>1, Zenon DEF MergeStep
<1>4. ASSUME j \notin NewEntries(l, es) PROVE MergeStep(l, es[j]) = l
  <2>1. p + j <= Len(l) /\ LogTerm(l, p + j) = es[j].Term
    BY <1>1, <1>2, <1>4
  <2> QED
    BY <1>3, <2>1, Zenon
<1>5. ASSUME j \in NewEntries(l, es), (p + j) - 1 <= Len(l)
      PROVE  MergeStep(l, es[j]) = Append(SubSeq(l, 1, (p + j) - 1), es[j])
  <2>1. CASE p + j <= Len(l)
    <3>1. LogTerm(l, p + j) # es[j].Term
      BY <1>1, <1>2, <1>5, <2>1
    <3> QED
      BY <1>3, <2>1, <3>1, Zenon
  <2>2. CASE ~(p + j <= Len(l))
    <3>1. (p + j) - 1 = Len(l)
      BY <1>1, <1>5, <2>2
    <3>2. \A s \in Seq(Entry) : SubSeq(s, 1, Len(s)) = s
      OBVIOUS
    <3>3. SubSeq(l, 1, (p + j) - 1) = l
      BY <3>1, <3>2, Zenon
    <3> QED
      BY <1>3, <2>2, <3>3, Zenon
  <2> QED
    BY <2>1, <2>2
<1>6. ASSUME NEW m \in Seq(Entry), Len(m) = (p + j) - 1
      PROVE  MergeStep(m, es[j]) = Append(m, es[j])
  <2>1. ~(p + j <= Len(m))
    BY <1>1, <1>6
  <2> QED
    BY <1>3, <2>1, Zenon
<1> QED
  BY <1>4, <1>5, <1>6, Zenon

\* The loop of AppendEntries, entry by entry, leaves the log MergeEntries
\* describes in one piece, for every pair of logs and every place the entries
\* may start at.
THEOREM LoopIsMerge ==
  ASSUME NEW l \in Seq(Entry), NEW es \in Seq(Entry), NEW p \in 0..Len(l),
         \A k \in 1..Len(es) : es[k].Index = p + k
  PROVE  MergeEntries(l, es) = FoldLeft(MergeStep, l, es)
<1> DEFINE n == Len(es)
           S == NewEntries(l, es)
           new == MergeEntries(l, es)
<1>0. n \in Nat /\ p \in Nat /\ Len(l) \in Nat /\ S \subseteq 1..n
  BY DEF NewEntries
<1>1. PICK r : /\ r[0] = l
               /\ \A k \in 1..n : r[k] = MergeStep(r[k - 1], es[k])
               /\ FoldLeft(MergeStep, l, es) = r[n]
  BY LoopRounds, Zenon
<1>2. \A j \in 1..n :
        /\ j \notin S => MergeStep(l, es[j]) = l
        /\ j \in S /\ (p + j) - 1 <= Len(l) =>
             MergeStep(l, es[j]) = Append(SubSeq(l, 1, (p + j) - 1), es[j])
        /\ \A m \in Seq(Entry) :
             Len(m) = (p + j) - 1 => MergeStep(m, es[j]) = Append(m, es[j])
  BY LoopRound, Zenon
<1>3. \/ S = {} /\ new = l
      \/ \E k \in S : MergeSplit(l, es, p, k, new)
  BY MergeCases, Zenon
<1> HIDE DEF S, new
\* up to the first new entry the log stays as it is
<1>4. ASSUME NEW q \in 0..n, \A k \in 1..q : k \notin S
      PROVE  r[q] = l
  <2> DEFINE Bad == {k \in 0..q : r[k] # l}
  <2>1. ASSUME Bad # {} PROVE FALSE
    <3>1. Bad \in SUBSET Nat
      BY <1>0
    <3>2. PICK k \in Bad : \A y \in Bad : k <= y
      <4> HIDE DEF Bad
      <4> QED
        BY <2>1, <3>1, LeastNatural
    <3>3. k \in 0..q /\ r[k] # l /\ k # 0
      BY <1>1, <3>2
    <3>4. k \in 1..n /\ k \in 1..q /\ k - 1 \in 0..q /\ ~(k <= k - 1)
      BY <1>0, <3>3
    <3>5. r[k - 1] = l
      BY <3>2, <3>4, Zenon
    <3>6. r[k] = MergeStep(l, es[k]) /\ k \notin S
      BY <1>1, <1>4, <3>4, <3>5, Zenon
    <3> QED
      BY <1>2, <3>3, <3>4, <3>6, Zenon
  <2>2. q \in 0..q
    BY <1>0
  <2> QED
    BY <2>1, <2>2, Zenon
<1>5. CASE S = {} /\ new = l
  <2>1. n \in 0..n
    BY <1>0
  <2>2. r[n] = l
    BY <1>4, <1>5, <2>1, Zenon
  <2> QED
    BY <1>1, <1>5, <2>2, Zenon DEF new
<1>6. ASSUME NEW q \in S, MergeSplit(l, es, p, q, new) PROVE r[n] = new
  \* what the log is after the k-th entry, k from the first new one on
  <2> DEFINE Upto(k) == /\ r[k] \in Seq(Entry) /\ Len(r[k]) = p + k
                        /\ \A x \in 1..(p + k) : r[k][x] = new[x]
             Bad == {k \in q..n : ~Upto(k)}
  <2>1. /\ \A y \in S : q <= y
        /\ q \in 1..n /\ p + q - 1 <= Len(l)
        /\ new \in Seq(Entry) /\ Len(new) = p + n
        /\ \A j \in 1..(p + q - 1) : new[j] = l[j]
        /\ \A j \in (p + q)..(p + n) : new[j] = es[j - p]
    BY <1>6 DEF MergeSplit, S
  <2>2. Upto(q)
    <3>1. q - 1 \in 0..n /\ \A k \in 1..(q - 1) : k \notin S
      BY <1>0, <2>1
    <3>2. r[q - 1] = l
      BY <1>4, <3>1, Zenon
    <3>3. (p + q) - 1 <= Len(l) /\ (p + q) - 1 \in Nat
      BY <1>0, <2>1
    <3>4. r[q] = Append(SubSeq(l, 1, (p + q) - 1), es[q])
      BY <1>1, <1>2, <2>1, <3>2, <3>3, Zenon
    <3>5. es[q] \in Entry /\ new[p + q] = es[q]
      BY <1>0, <2>1
    <3> DEFINE a == SubSeq(l, 1, (p + q) - 1)
    <3>6. /\ a \in Seq(Entry) /\ Len(a) = (p + q) - 1
          /\ \A x \in 1..((p + q) - 1) : a[x] = l[x]
      BY <3>3
    <3> HIDE DEF a
    <3>7. /\ r[q] \in Seq(Entry) /\ Len(r[q]) = Len(a) + 1 /\ r[q][Len(a) + 1] = es[q]
          /\ \A x \in 1..Len(a) : r[q][x] = a[x]
      BY SMTT(30), <3>4, <3>5, <3>6 DEF a
    <3>8. ASSUME NEW x \in 1..(p + q) PROVE r[q][x] = new[x]
      <4>1. CASE x = p + q
        BY <1>0, <2>1, <3>5, <3>6, <3>7, <4>1
      <4>2. CASE x # p + q
        <5>1. x \in 1..((p + q) - 1) /\ x \in 1..(p + q - 1) /\ x \in 1..Len(a)
          BY <1>0, <2>1, <3>6, <4>2
        <5> QED
          BY <2>1, <3>6, <3>7, <5>1, Zenon
      <4> QED
        BY <4>1, <4>2
    <3>9. Len(r[q]) = p + q
      BY <1>0, <2>1, <3>6, <3>7
    <3> QED
      BY <3>7, <3>8, <3>9, Zenon
  <2>3. ASSUME NEW k \in (q + 1)..n, Upto(k - 1) PROVE Upto(k)
    <3>1. k \in 1..n /\ k \in Nat /\ p + (k - 1) = (p + k) - 1 /\ p + k \in (p + q)..(p + n)
          /\ (p + k) - p = k
      BY <1>0, <2>1
    <3> DEFINE a == r[k - 1]
    <3>2. /\ a \in Seq(Entry) /\ Len(a) = (p + k) - 1
          /\ \A x \in 1..((p + k) - 1) : a[x] = new[x]
      BY <2>3, <3>1, Zenon
    <3>3. r[k] = Append(a, es[k])
      BY <1>1, <1>2, <3>1, <3>2, Zenon
    <3> HIDE DEF a
    <3>4. es[k] \in Entry
      BY <3>1
    <3>5. new[p + k] = es[k]
      BY <2>1, <3>1, Zenon
    <3>6. /\ r[k] \in Seq(Entry) /\ Len(r[k]) = Len(a) + 1 /\ r[k][Len(a) + 1] = es[k]
          /\ \A x \in 1..Len(a) : r[k][x] = a[x]
      BY <3>2, <3>3, <3>4
    <3>7. Len(a) + 1 = p + k
      BY <1>0, <3>1, <3>2
    <3>8. ASSUME NEW x \in 1..(p + k) PROVE r[k][x] = new[x]
      <4>1. CASE x = p + k
        BY <3>5, <3>6, <3>7, <4>1, Zenon
      <4>2. CASE x # p + k
        <5>1. x \in 1..((p + k) - 1) /\ x \in 1..Len(a)
          BY <1>0, <3>1, <3>2, <4>2
        <5> QED
          BY <3>2, <3>6, <5>1, Zenon
      <4> QED
        BY <4>1, <4>2
    <3>9. Len(r[k]) = p + k
      BY <3>6, <3>7, Zenon
    <3> QED
      BY <3>6, <3>8, <3>9, Zenon
  <2> HIDE DEF Upto
  <2>4. ASSUME Bad # {} PROVE FALSE
    <3>1. Bad \in SUBSET Nat
      BY <1>0, <2>1
    <3>2. PICK k \in Bad : \A y \in Bad : k <= y
      <4> HIDE DEF Bad
      <4> QED
        BY SMTT(30), <2>4, <3>1, LeastNatural
    <3>3. k \in q..n /\ ~Upto(k) /\ k # q
      BY <2>2, <3>2
    <3>4. k \in (q + 1)..n /\ k - 1 \in q..n /\ ~(k <= k - 1)
      BY <1>0, <2>1, <3>3
    <3>5. Upto(k - 1)
      BY <3>2, <3>4, Zenon
    <3> QED
      BY <2>3, <3>3, <3>4, <3>5, Zenon
  <2>5. n \in q..n
    BY <1>0, <2>1
  <2>6. Upto(n)
    BY <2>4, <2>5, Zenon
  <2>7. /\ r[n] \in Seq(Entry) /\ Len(r[n]) = p + n
        /\ \A x \in 1..(p + n) : r[n][x] = new[x]
    BY <2>6 DEF Upto
  <2> QED
    BY SMTT(30), <2>1, <2>7, SeqEqual
<1> QED
  BY <1>1, <1>3, <1>5, <1>6, Zenon DEF new

\* In every state of the backup the two descriptions of the merge agree, the
\* follower's log after the merge included.
THEOREM MergeLoop == Spec => []MergeIsTheLoop
<1> DEFINE FollowerType == follower \in Seq(Entry)
<1>1. ASSUME BackupInv, FollowerType, PrevMatches(follower, Args)
      PROVE  /\ Entries \in Seq(Entry) /\ next - 1 \in 0..Len(follower)
             /\ \A k \in 1..Len(Entries) : Entries[k].Index = (next - 1) + k
  <2>1. /\ leader \in Seq(Entry) /\ next \in 1..(Len(leader) + 1)
        /\ \A k \in 1..Len(leader) : leader[k].Index = k
    BY <1>1 DEF BackupInv, LogsInv, NextInLog
  <2>2. next - 1 <= Len(follower)
    BY <1>1 DEF PrevMatches, Args
  <2>3. Len(follower) \in Nat
    BY <1>1
  <2>4. /\ Entries \in Seq(Entry) /\ Len(Entries) = Len(leader) - next + 1
        /\ \A k \in 1..Len(Entries) : Entries[k] = leader[next + k - 1]
    BY <2>1 DEF Entries
  <2>5. \A k \in 1..Len(Entries) : /\ next + k - 1 \in 1..Len(leader)
                                   /\ next + k - 1 = (next - 1) + k
    BY <2>1, <2>4
  <2>6. \A k \in 1..Len(Entries) : Entries[k].Index = (next - 1) + k
    BY <2>1, <2>4, <2>5, Zenon
  <2> QED
    BY <2>1, <2>2, <2>3, <2>4, <2>6
<1>2. BackupInv /\ FollowerType => MergeIsTheLoop
  BY <1>1, LoopIsMerge, Zenon DEF MergeIsTheLoop
<1>3. Init => FollowerType
  BY InitBackup, Zenon DEF Init, LogsInv, BackupInv
<1>4. ASSUME BackupInv, FollowerType, [Next]_vars PROVE FollowerType'
  <2>1. CASE Accept
    <3>1. follower' = MergeEntries(follower, Entries) /\ PrevMatches(follower, Args)
      BY <2>1 DEF Accept
    <3>2. \/ MergeEntries(follower, Entries) = follower
          \/ \E k \in NewEntries(follower, Entries) :
               MergeSplit(follower, Entries, next - 1, k, MergeEntries(follower, Entries))
      BY <1>1, <1>4, <3>1, MergeCases, Zenon
    <3> QED
      BY <1>4, <3>1, <3>2, Zenon DEF MergeSplit
  <2>2. CASE Reject
    BY <1>4, <2>2 DEF Reject
  <2>3. CASE UNCHANGED vars
    BY <1>4, <2>3 DEF vars
  <2> QED
    BY <1>4, <2>1, <2>2, <2>3 DEF Next
<1> HIDE DEF FollowerType
<1>5. BackupInv /\ FollowerType /\ [Next]_vars => FollowerType'
  BY <1>4
<1> QED
  BY <1>2, <1>3, <1>5, BackupInvariance, PTL DEF Spec

=============================================================================
