--------------------------- MODULE RaftLogProofs ---------------------------
(***************************************************************************)
(* Facts about the log operators of RaftLog.tla, for logs of any length.   *)
(***************************************************************************)
EXTENDS RaftLog, TLAPS, WellFoundedInduction

\* Every non-empty set of naturals has a least element.
LEMMA LeastNatural ==
  ASSUME NEW S \in SUBSET Nat, S # {}
  PROVE  \E x \in S : \A y \in S : x <= y
<1> DEFINE R == OpToRel(<, Nat)
<1>1. IsWellFoundedOn(R, Nat)
  BY NatLessThanWellFounded
<1>2. PICK x \in S : \A y \in S : ~ (<<y, x>> \in R)
  <2> HIDE DEF R
  <2> QED
    BY <1>1, WFMin
<1>3. \A y \in S : ~ (y < x)
  BY <1>2 DEF OpToRel
<1> QED
  BY <1>3

\* Min, a CHOOSE expression, is the least element of a set of indices.
LEMMA MinProperty ==
  ASSUME NEW S \in SUBSET Nat, S # {}
  PROVE  Min(S) \in S /\ \A y \in S : Min(S) <= y
BY LeastNatural DEF Min

\* Max is the greatest element of a bounded set of indices.
LEMMA MaxProperty ==
  ASSUME NEW n \in Nat, NEW S \in SUBSET (0..n), S # {}
  PROVE  Max(S) \in S /\ \A y \in S : Max(S) >= y
<1> DEFINE T == {n - x : x \in S}
<1>1. T \in SUBSET Nat /\ T # {}
  <2>1. \A x \in S : n - x \in Nat
    OBVIOUS
  <2> QED
    BY <2>1
<1>2. PICK t \in T : \A y \in T : t <= y
  BY <1>1, LeastNatural
<1>3. PICK x \in S : t = n - x
  OBVIOUS
<1>4. \A y \in S : x >= y
  BY <1>2, <1>3
<1> QED
  BY <1>4 DEF Max

----------------------------------------------------------------------------
\* The term of the last or any earlier entry, dummy included, is a number.
LEMMA LogTermType ==
  ASSUME NEW l \in Seq(Entry), NEW k \in 0..Len(l)
  PROVE  LogTerm(l, k) \in Nat
<1>1. CASE k = 0
  BY <1>1 DEF LogTerm
<1>2. CASE k # 0
  <2>1. l[k] \in Entry
    BY <1>2
  <2> QED
    BY <1>2, <2>1 DEF LogTerm, Entry
<1> QED
  BY <1>1, <1>2

\* new is l up to the k-th entry of es, which follows index p, and es from there
MergeSplit(l, es, p, k, new) ==
  /\ \A y \in NewEntries(l, es) : k <= y
  /\ k \in 1..Len(es) /\ p + k - 1 <= Len(l)
  /\ new \in Seq(Entry) /\ Len(new) = p + Len(es)
  /\ \A j \in 1..(p + k - 1) : new[j] = l[j]
  /\ \A j \in (p + k)..(p + Len(es)) : new[j] = es[j - p]

\* The log the merge loop leaves: the old one, if nothing in es is new, or the
\* old one up to the first new entry and the rest of es after it.
LEMMA MergeCases ==
  ASSUME NEW l \in Seq(Entry), NEW es \in Seq(Entry), NEW p \in 0..Len(l),
         \A k \in 1..Len(es) : es[k].Index = p + k
  PROVE  \/ NewEntries(l, es) = {} /\ MergeEntries(l, es) = l
         \/ \E k \in NewEntries(l, es) : MergeSplit(l, es, p, k, MergeEntries(l, es))
<1> DEFINE S == NewEntries(l, es)
           k == Min(S)
           a == SubSeq(l, 1, es[k].Index - 1)
           b == SubSeq(es, k, Len(es))
<1>1. CASE S = {}
  BY <1>1 DEF MergeEntries
<1>2. CASE S # {}
  <2>1. S \in SUBSET Nat /\ S \subseteq 1..Len(es)
    BY DEF NewEntries
  <2>2. k \in S /\ \A y \in S : k <= y
    <3> HIDE DEF S
    <3> QED
      BY <1>2, <2>1, MinProperty
  <2>3. k \in 1..Len(es) /\ es[k].Index = p + k
    BY <2>1, <2>2
  <2>4. p + k - 1 <= Len(l)
    <3>1. CASE k = 1
      BY <3>1
    <3>2. CASE k > 1
      <4>1. k - 1 \in 1..Len(es) /\ k - 1 \notin S
        BY <2>2, <2>3, <3>2
      <4>2. es[k - 1].Index = p + (k - 1)
        BY <4>1
      <4>3. ~ (es[k - 1].Index > Len(l))
        BY <4>1 DEF NewEntries
      <4> QED
        BY <4>2, <4>3, <2>3
    <3> QED
      BY <2>3, <3>1, <3>2
  <2>5. /\ a \in Seq(Entry) /\ Len(a) = p + k - 1
        /\ \A j \in 1..Len(a) : a[j] = l[j]
    BY <2>3, <2>4
  <2>6. /\ b \in Seq(Entry) /\ Len(b) = Len(es) - k + 1
        /\ \A j \in 1..Len(b) : b[j] = es[k + j - 1]
    BY <2>3
  <2>7. MergeEntries(l, es) = a \o b
    BY <1>2 DEF MergeEntries
  <2> HIDE DEF a, b, k, S
  <2>8. /\ a \o b \in Seq(Entry) /\ Len(a \o b) = Len(a) + Len(b)
        /\ \A j \in 1..(Len(a) + Len(b)) :
             (a \o b)[j] = IF j <= Len(a) THEN a[j] ELSE b[j - Len(a)]
    <3>1. a \in Seq(Entry) /\ b \in Seq(Entry)
      BY <2>5, <2>6
    <3> QED
      BY <3>1
  <2>9. Len(a \o b) = p + Len(es)
    BY <2>3, <2>5, <2>6, <2>8
  <2>10. ASSUME NEW j \in 1..(p + k - 1) PROVE (a \o b)[j] = l[j]
    BY <2>3, <2>5, <2>6, <2>8, SMTT(30)
  <2>11. ASSUME NEW j \in (p + k)..(p + Len(es)) PROVE (a \o b)[j] = es[j - p]
    <3>1. j - Len(a) \in 1..Len(b) /\ (a \o b)[j] = b[j - Len(a)]
      BY <2>3, <2>5, <2>6, <2>8, SMTT(30)
    <3>2. b[j - Len(a)] = es[k + (j - Len(a)) - 1]
      BY <3>1, <2>6
    <3>3. k + (j - Len(a)) - 1 = j - p
      <4>1. k \in Int /\ p \in Int /\ j \in Int /\ Len(a) = p + k - 1
        BY <2>3, <2>5
      <4>2. \A x \in Int : x = p + k - 1 => k + (j - x) - 1 = j - p
        BY <4>1
      <4> QED
        BY <4>1, <4>2
    <3> QED
      BY <3>1, <3>2, <3>3
  <2>12. MergeSplit(l, es, p, k, a \o b)
    BY <2>2, <2>3, <2>4, <2>8, <2>9, <2>10, <2>11 DEF S, MergeSplit
  <2> QED
    BY <2>2, <2>7, <2>12 DEF S
<1> QED
  BY <1>1, <1>2

\* The merge loop of AppendEntries keeps the Index field of every entry equal
\* to its position, and an empty heartbeat leaves the log alone.
LEMMA MergeShape ==
  ASSUME NEW l \in Seq(Entry), NEW es \in Seq(Entry), NEW p \in 0..Len(l),
         \A k \in 1..Len(l) : l[k].Index = k,
         \A k \in 1..Len(es) : es[k].Index = p + k
  PROVE  /\ MergeEntries(l, es) \in Seq(Entry)
         /\ \A k \in 1..Len(MergeEntries(l, es)) : MergeEntries(l, es)[k].Index = k
         /\ es = <<>> => MergeEntries(l, es) = l
<1> DEFINE new == MergeEntries(l, es)
<1> HIDE DEF new
<1>1. CASE new = l
  BY <1>1 DEF new
<1>2. ASSUME NEW k, MergeSplit(l, es, p, k, new)
      PROVE  /\ new \in Seq(Entry)
             /\ \A j \in 1..Len(new) : new[j].Index = j
             /\ es = <<>> => new = l
  <2>1. /\ k \in 1..Len(es)
        /\ p + k - 1 <= Len(l)
        /\ new \in Seq(Entry)
        /\ Len(new) = p + Len(es)
        /\ \A j \in 1..(p + k - 1) : new[j] = l[j]
        /\ \A j \in (p + k)..(p + Len(es)) : new[j] = es[j - p]
    BY <1>2 DEF MergeSplit
  <2>2. ASSUME NEW j \in 1..Len(new) PROVE new[j].Index = j
    <3>0. p \in Nat /\ k \in Nat /\ Len(es) \in Nat /\ Len(l) \in Nat
      BY <2>1
    <3>1. CASE j <= p + k - 1
      <4>1. j \in 1..(p + k - 1) /\ j \in 1..Len(l)
        BY <2>1, <3>0, <3>1
      <4> QED
        BY <2>1, <4>1
    <3>2. CASE j > p + k - 1
      <4>1. j \in (p + k)..(p + Len(es)) /\ j - p \in 1..Len(es) /\ p + (j - p) = j
        BY <2>1, <3>0, <3>2
      <4>2. new[j] = es[j - p] /\ es[j - p].Index = p + (j - p)
        BY <2>1, <4>1
      <4> QED
        BY <4>1, <4>2
    <3> QED
      BY <3>0, <3>1, <3>2
  <2>3. es # <<>>
    BY <2>1
  <2> QED
    BY <2>1, <2>2, <2>3
<1>3. new = l \/ \E k : MergeSplit(l, es, p, k, new)
  BY MergeCases DEF new
<1> QED
  BY <1>1, <1>2, <1>3 DEF new

\* What the merged log holds: up to PrevLogIndex the old entries, then every
\* entry of the call, or one of its term that was already there; nothing from
\* elsewhere; and a log that conflicts with no entry of the call keeps all of
\* its own.
LEMMA MergeContents ==
  ASSUME NEW l \in Seq(Entry), NEW es \in Seq(Entry), NEW p \in 0..Len(l),
         \A k \in 1..Len(es) : es[k].Index = p + k
  PROVE  LET new == MergeEntries(l, es) IN
         /\ \A x \in 1..Len(new) : \/ x <= Len(l) /\ new[x] = l[x]
                                   \/ x - p \in 1..Len(es) /\ new[x] = es[x - p]
         /\ p + Len(es) <= Len(new)
         /\ \A x \in 1..p : new[x] = l[x]
         /\ \A x \in (p + 1)..(p + Len(es)) :
              \/ new[x] = es[x - p]
              \/ x <= Len(l) /\ new[x] = l[x] /\ l[x].Term = es[x - p].Term
         /\ (\A x \in (p + 1)..(p + Len(es)) : x <= Len(l) => l[x].Term = es[x - p].Term)
            => Len(l) <= Len(new) /\ \A x \in 1..Len(l) : new[x] = l[x]
<1> DEFINE new == MergeEntries(l, es)
           S == NewEntries(l, es)
<1>0. p \in Nat /\ Len(es) \in Nat /\ Len(l) \in Nat
  OBVIOUS
<1>1. ASSUME NEW x \in (p + 1)..(p + Len(es)), x - p \notin S
      PROVE  x <= Len(l) /\ l[x].Term = es[x - p].Term
  <2>1. x - p \in 1..Len(es) /\ es[x - p].Index = x /\ x # 0 /\ x \in Nat
    <3>1. x - p \in 1..Len(es) /\ p + (x - p) = x /\ x # 0 /\ x \in Nat
      BY <1>0
    <3>2. es[x - p].Index = p + (x - p)
      BY <3>1
    <3> QED
      BY <3>1, <3>2
  <2>2. ~(es[x - p].Index > Len(l)) /\ LogTerm(l, es[x - p].Index) = es[x - p].Term
    BY <1>1, <2>1 DEF NewEntries
  <2>3. ~(x > Len(l)) /\ LogTerm(l, x) = es[x - p].Term
    BY <2>1, <2>2
  <2> QED
    BY <1>0, <2>1, <2>3 DEF LogTerm
<1>2. CASE S = {} /\ new = l
  <2>1. \A x \in (p + 1)..(p + Len(es)) : x <= Len(l) /\ l[x].Term = es[x - p].Term
    BY <1>1, <1>2
  <2> HIDE DEF new, S
  <2>2. p + Len(es) <= Len(l)
    <3>1. CASE Len(es) = 0
      BY <1>0, <3>1
    <3>2. CASE Len(es) # 0
      <4>1. p + Len(es) \in (p + 1)..(p + Len(es))
        BY <1>0, <3>2
      <4> QED
        BY <2>1, <4>1
    <3> QED
      BY <3>1, <3>2
  <2>3. \A x \in 1..Len(new) : x <= Len(l) /\ new[x] = l[x]
    BY <1>0, <1>2
  <2>4. (\A x \in 1..p : new[x] = l[x]) /\ Len(l) <= Len(new) /\ \A x \in 1..Len(l) : new[x] = l[x]
    BY <1>0, <1>2
  <2>5. \A x \in (p + 1)..(p + Len(es)) : x <= Len(l) /\ new[x] = l[x] /\ l[x].Term = es[x - p].Term
    BY <1>2, <2>1
  <2>6. p + Len(es) <= Len(new)
    BY <1>2, <2>2
  <2> QED
    BY <2>3, <2>4, <2>5, <2>6, Zenon DEF new
<1>3. CASE \E k \in S : MergeSplit(l, es, p, k, new)
  <2>0. PICK k \in S : MergeSplit(l, es, p, k, new)
    BY <1>3
  <2>1. /\ k \in 1..Len(es) /\ p + k - 1 <= Len(l)
        /\ \A j \in 1..(p + k - 1) : new[j] = l[j]
        /\ \A j \in (p + k)..(p + Len(es)) : new[j] = es[j - p]
    BY <2>0 DEF MergeSplit
  <2>2. k \in Nat /\ k >= 1 /\ k <= Len(es)
    BY <1>0, <2>1
  <2>3. (es[k].Index > Len(l) \/ LogTerm(l, es[k].Index) # es[k].Term) /\ es[k].Index = p + k
    BY <2>1 DEF NewEntries
  <2>a. (\A y \in S : k <= y) /\ p + k - 1 <= Len(l) /\ Len(new) = p + Len(es)
    BY <2>0 DEF MergeSplit
  <2> HIDE DEF new, S
  <2>4. ASSUME NEW x \in 1..Len(new)
        PROVE  \/ x <= Len(l) /\ new[x] = l[x]
               \/ x - p \in 1..Len(es) /\ new[x] = es[x - p]
    <3>1. CASE x <= p + k - 1
      <4>1. x \in 1..(p + k - 1) /\ x <= Len(l)
        BY <1>0, <2>a, <2>2, <3>1
      <4> QED
        BY <2>1, <4>1
    <3>2. CASE x > p + k - 1
      <4>1. x \in (p + k)..(p + Len(es)) /\ x - p \in 1..Len(es)
        BY <1>0, <2>a, <2>2, <3>2
      <4> QED
        BY <2>1, <4>1
    <3> QED
      BY <1>0, <2>2, <3>1, <3>2
  <2>5. ASSUME NEW x \in 1..p PROVE new[x] = l[x]
    <3>1. x \in 1..(p + k - 1)
      BY <1>0, <2>2
    <3> QED
      BY <2>1, <3>1
  <2>6. ASSUME NEW x \in (p + 1)..(p + Len(es))
        PROVE  \/ new[x] = es[x - p]
               \/ x <= Len(l) /\ new[x] = l[x] /\ l[x].Term = es[x - p].Term
    <3>1. CASE x <= p + k - 1
      <4>1. x \in 1..(p + k - 1) /\ x - p \in Nat /\ ~(k <= x - p)
        BY <1>0, <2>2, <3>1
      <4>2. x - p \notin S
        BY <2>a, <4>1
      <4> QED
        BY <1>1, <2>1, <4>1, <4>2
    <3>2. CASE x > p + k - 1
      <4>1. x \in (p + k)..(p + Len(es))
        BY <1>0, <2>2, <3>2
      <4> QED
        BY <2>1, <4>1
    <3> QED
      BY <1>0, <2>2, <3>1, <3>2
  <2>7. ASSUME \A x \in (p + 1)..(p + Len(es)) : x <= Len(l) => l[x].Term = es[x - p].Term
        PROVE  Len(l) <= Len(new) /\ \A x \in 1..Len(l) : new[x] = l[x]
    <3>1. p + k \in (p + 1)..(p + Len(es)) /\ (p + k) - p = k /\ p + k # 0
      BY <1>0, <2>2
    <3>2. p + k > Len(l)
      <4>1. p + k <= Len(l) => l[p + k].Term = es[k].Term
        BY <2>7, <3>1
      <4>2. p + k > Len(l) \/ LogTerm(l, p + k) # es[k].Term
        BY <2>3
      <4> QED
        BY <1>0, <2>2, <3>1, <4>1, <4>2 DEF LogTerm
    <3>3. Len(l) = p + k - 1 /\ Len(l) <= Len(new)
      <4>1. p + k - 1 <= Len(l) /\ Len(new) = p + Len(es)
        BY <2>a
      <4>a. \A x \in Nat : p + k > x /\ p + k - 1 <= x => x = p + k - 1
        BY <1>0, <2>2
      <4>2. Len(l) = p + k - 1
        BY <1>0, <3>2, <4>1, <4>a, Zenon
      <4> QED
        BY <1>0, <2>2, <4>1, <4>2
    <3> QED
      BY <2>1, <3>3
  <2>8. p + Len(es) <= Len(new)
    BY <1>0, <2>a
  <2> QED
    BY <2>4, <2>5, <2>6, <2>7, <2>8, Zenon DEF new
<1>4. (S = {} /\ new = l) \/ \E k \in S : MergeSplit(l, es, p, k, new)
  BY MergeCases, Zenon
<1> QED
  BY <1>2, <1>3, <1>4

\* Where the follower's run of equal terms starts is an index of its log.
LEMMA RunStartBounds ==
  ASSUME NEW l \in Seq(Entry), NEW p \in 1..Len(l)
  PROVE  RunStart(l, p) \in 1..p
<1> DEFINE S == {x \in 1..p : \A y \in x..p : l[y].Term = l[p].Term}
<1>1. p \in S /\ S \subseteq 1..p /\ S \in SUBSET Nat
  OBVIOUS
<1>2. RunStart(l, p) = Min(S)
  BY DEF RunStart
<1> HIDE DEF S
<1>3. S # {}
  BY <1>1
<1> QED
  BY <1>1, <1>2, <1>3, MinProperty

\* The dummy entry matches every leader: a follower rejects only calls with
\* PrevLogIndex >= 1, and its hint is a term, or -1, and an index it could ask
\* for that is no larger than PrevLogIndex.
LEMMA ConflictBounds ==
  ASSUME NEW l \in Seq(Entry), NEW args, args.PrevLogIndex \in Nat,
         args.PrevLogIndex = 0 => args.PrevLogTerm = 0,
         ~PrevMatches(l, args)
  PROVE  /\ args.PrevLogIndex >= 1
         /\ Conflict(l, args).XTerm \in Int
         /\ Conflict(l, args).XIndex \in 1..args.PrevLogIndex
<1> DEFINE p == args.PrevLogIndex
<1>0. Len(l) \in Nat
  OBVIOUS
<1>1. CASE p > Len(l)
  <2>1. Conflict(l, args) = [XTerm |-> -1, XIndex |-> Len(l) + 1]
    BY <1>1 DEF Conflict
  <2> QED
    BY <1>0, <1>1, <2>1
<1>2. CASE p <= Len(l)
  <2>1. p >= 1
    BY <1>0, <1>2 DEF PrevMatches, LogTerm
  <2>2. p \in 1..Len(l)
    BY <1>0, <1>2, <2>1
  <2>3. RunStart(l, p) \in 1..p
    BY <2>2, RunStartBounds
  <2>4. LogTerm(l, p) \in Int
    <3>1. l[p] \in Entry /\ p # 0
      BY <2>2
    <3> QED
      BY <3>1 DEF LogTerm, Entry
  <2>5. Conflict(l, args) = [XTerm |-> LogTerm(l, p), XIndex |-> RunStart(l, p)]
    BY <1>0, <1>2 DEF Conflict
  <2> QED
    BY <2>1, <2>3, <2>4, <2>5
<1> QED
  BY <1>0, <1>1, <1>2

\* Whatever the hint, the leader takes the last entry it shares the term of, or
\* the index of the hint.
LEMMA BackoffBounds ==
  ASSUME NEW l, NEW prev \in Nat, NEW x
  PROVE  Backoff(l, prev, x) = x.XIndex \/ Backoff(l, prev, x) \in 1..prev
<1> DEFINE ends == TermEnds(l, prev, x.XTerm)
<1>1. ends \in SUBSET (0..prev) /\ ends \subseteq 1..prev
  BY DEF TermEnds
<1>2. CASE x.XTerm = -1 \/ ends = {}
  BY <1>2 DEF Backoff
<1>3. CASE ~(x.XTerm = -1 \/ ends = {})
  <2>1. Backoff(l, prev, x) = Max(ends)
    BY <1>3 DEF Backoff
  <2> HIDE DEF ends
  <2>2. Max(ends) \in ends
    BY <1>1, <1>3, MaxProperty
  <2> QED
    BY <1>1, <2>1, <2>2
<1> QED
  BY <1>2, <1>3

\* A rejection answered by the follower's own hint moves the leader strictly
\* down and never below the first index, whatever the two logs are: the loop of
\* sendHearbeat over rf.log[i-1] cannot send the leader in circles.
THEOREM BackoffProgress ==
  ASSUME NEW follower \in Seq(Entry), NEW leader \in Seq(Entry), NEW args,
         args.PrevLogIndex \in Nat,
         args.PrevLogIndex = 0 => args.PrevLogTerm = 0,
         ~PrevMatches(follower, args)
  PROVE  Backoff(leader, args.PrevLogIndex, Conflict(follower, args))
           \in 1..args.PrevLogIndex
<1> DEFINE x == Conflict(follower, args)
<1>1. x.XIndex \in 1..args.PrevLogIndex
  BY ConflictBounds
<1> HIDE DEF x
<1>2. \/ Backoff(leader, args.PrevLogIndex, x) = x.XIndex
      \/ Backoff(leader, args.PrevLogIndex, x) \in 1..args.PrevLogIndex
  BY BackoffBounds
<1> QED
  BY <1>1, <1>2 DEF x
============================================================================
