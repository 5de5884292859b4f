------------------------------ MODULE RaftLog ------------------------------
(***************************************************************************)
(* The log algorithms of raft.go as pure operators: the election           *)
(* restriction, the merge loop of AppendEntries, the conflict hint         *)
(* (XTerm, XIndex) a follower returns and the leader's use of it.          *)
(*                                                                         *)
(* The Go slice rf.log starts with a dummy Entry{Term: 0} at index 0.      *)
(* Here a log is a sequence whose position k is the Go index k; the dummy  *)
(* is implicit, so len(rf.log) is Len(l) + 1.                              *)
(***************************************************************************)
EXTENDS Integers, Sequences, FiniteSetsExt

CONSTANT Command                \* the commands a service passes to Start

\* type Entry
Entry == [Term : Nat, Command : Command, Index : Nat]

\* rf.log[k].Term and rf.log[k].Index, the dummy entry included
LogTerm(l, k) == IF k = 0 THEN 0 ELSE l[k].Term

LogIndex(l, k) == IF k = 0 THEN 0 ELSE l[k].Index

----------------------------------------------------------------------------
(* The election restriction.                                               *)

\* moreUpToDate: the candidate's length is compared with the Index FIELD of
\* the voter's last entry
moreUpToDate(args, l) ==
  \/ args.LastLogTerm > LogTerm(l, Len(l))
  \/ /\ args.LastLogTerm = LogTerm(l, Len(l))
     /\ args.LastLogIndex >= LogIndex(l, Len(l))

----------------------------------------------------------------------------
(* The merge loop of AppendEntries.                                        *)

\* positions of es whose entry the log lacks or holds with another term
NewEntries(l, es) ==
  {k \in 1..Len(es) : \/ es[k].Index > Len(l)
                      \/ LogTerm(l, es[k].Index) # es[k].Term}

\* faulty variant: a matching suffix is cut off as well
ReplaceSuffix(l, es) ==
  IF es = <<>> THEN l ELSE SubSeq(l, 1, es[1].Index - 1) \o es

\* the log after the loop: nothing is cut unless an entry conflicts, and then
\* everything from the first new entry on comes from es
MergeEntries(l, es) ==
  IF NewEntries(l, es) = {} THEN l
  ELSE LET k == Min(NewEntries(l, es))
       IN  SubSeq(l, 1, es[k].Index - 1) \o SubSeq(es, k, Len(es))

----------------------------------------------------------------------------
(* Fast backup.                                                            *)

\* faulty variant: the term of the entry before is not compared
PrevExists(l, args) == args.PrevLogIndex <= Len(l)

\* the first branches of AppendEntries: does the log have the leader's entry
\* before the new ones
PrevMatches(l, args) ==
  /\ args.PrevLogIndex <= Len(l)
  /\ LogTerm(l, args.PrevLogIndex) = args.PrevLogTerm

\* first index of the run of entries of term l[p].Term that ends in p: the
\* loop stops at the latest at the dummy entry, whose term is 0
RunStart(l, p) ==
  Min({x \in 1..p : \A y \in x..p : l[y].Term = l[p].Term})

\* faulty variant: the index before the run instead of its first index
ConflictBefore(l, args) ==
  IF args.PrevLogIndex > Len(l)
  THEN [XTerm |-> -1, XIndex |-> Len(l)]
  ELSE [XTerm |-> LogTerm(l, args.PrevLogIndex),
        XIndex |-> RunStart(l, args.PrevLogIndex) - 1]

\* what a follower whose log does not match answers
Conflict(l, args) ==
  IF args.PrevLogIndex > Len(l)
  THEN [XTerm |-> -1, XIndex |-> Len(l) + 1]
  ELSE [XTerm |-> LogTerm(l, args.PrevLogIndex),
        XIndex |-> RunStart(l, args.PrevLogIndex)]

\* the leader's loop: the last i in prev..1 with log[i-1].Term = XTerm
TermEnds(l, prev, xterm) == {i \in 1..prev : LogTerm(l, i - 1) = xterm}

\* faulty variant: the leader's own entries of the term are not searched from
\* PrevLogIndex but from the end of its log
BackoffFromEnd(l, prev, x) ==
  LET ends == TermEnds(l, Len(l) + 1, x.XTerm)
  IN  IF x.XTerm = -1 \/ ends = {} THEN x.XIndex ELSE Max(ends)

\* faulty variant: one entry per round trip, as without the hint
BackoffByOne(l, prev, x) == prev

\* nextIndex after a rejected AppendEntries with PrevLogIndex = prev
Backoff(l, prev, x) ==
  LET ends == TermEnds(l, prev, x.XTerm)
  IN  IF x.XTerm = -1 \/ ends = {} THEN x.XIndex ELSE Max(ends)
============================================================================
