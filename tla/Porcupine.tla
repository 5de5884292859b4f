----------------------------- MODULE Porcupine -----------------------------
(***************************************************************************)
(* The linearizability checker of porcupine/, with the key/value model of  *)
(* models/kv.go.  checkParallel starts one goroutine per partition of the  *)
(* history; each runs checkSingle, a search with backtracking over a       *)
(* doubly linked list of call and return entries.  One iteration of the    *)
(* loop of checkSingle is one step: between the reads of the flag kill a   *)
(* goroutine shares nothing.                                               *)
(*                                                                         *)
(* A string is the sequence of the pieces put or appended to it; a bitset  *)
(* is the set of its members; the hash of the cache, an index only, is     *)
(* left out.                                                               *)
(***************************************************************************)
EXTENDS Integers, Sequences, FiniteSets

\* the calls of the checker: a history of operations
\* [key, op, value, out, call, ret], the Ids of its events when it is handed over
\* as events (<<>> when as operations), verbose (computeInfo), and whether there
\* is a timeout
CONSTANT Checks

\* events come one after the other, and KvModel has no PartitionEvent, so that
\* they are about one key; the calls are in order
OneAfterTheOther(h) ==
  /\ \A i, j \in DOMAIN h :
       /\ h[i].key = h[j].key
       /\ i < j => h[i].call < h[j].call /\ h[i].ret # h[j].ret
       /\ h[i].ret # h[j].call

\* KvInput and KvOutput in an Operation
Operation == [key : STRING, op : {"get", "put", "append"}, value : Seq(Nat),
              out : Seq(Nat), call : Int, ret : Int]

ASSUME ChecksAssumption ==
  \A c \in Checks :
    /\ c.history \in Seq(Operation) /\ c.history # <<>>
    /\ c.verbose \in BOOLEAN /\ c.timeout \in BOOLEAN
    /\ \A i \in DOMAIN c.history : c.history[i].call < c.history[i].ret
    /\ c.ids # <<>> => /\ DOMAIN c.ids = DOMAIN c.history
                       /\ \A i, j \in DOMAIN c.ids : c.ids[i] = c.ids[j] => i = j
                       /\ OneAfterTheOther(c.history)

VARIABLES
  check,                          \* the arguments
  entries,                        \* the entries of each partition
  list, entry, linearized,        \* checkSingle, by partition
  cache, calls, state, longest, outcome,
  pc, ok, timedOut, kill, received, result    \* checkParallel

search == <<list, entry, linearized, cache, calls, state, longest, outcome>>
verdict == <<pc, ok, timedOut, kill, received, result>>
vars == <<check, entries, search, verdict>>

history == check.history

\* the ways to call the checker; a timeout of 0 is none
CheckOperations(h) ==
  [history |-> h, ids |-> <<>>, verbose |-> FALSE, timeout |-> FALSE]
CheckOperationsTimeout(h) == [CheckOperations(h) EXCEPT !.timeout = TRUE]
CheckOperationsVerbose(h, timeout) ==
  [CheckOperations(h) EXCEPT !.verbose = TRUE, !.timeout = timeout]
CheckEvents(h, ids) == [CheckOperations(h) EXCEPT !.ids = ids]
CheckEventsTimeout(h, ids) == [CheckOperationsTimeout(h) EXCEPT !.ids = ids]
CheckEventsVerbose(h, ids, timeout) ==
  [CheckOperationsVerbose(h, timeout) EXCEPT !.ids = ids]

----------------------------------------------------------------------------
(* models/kv.go.                                                           *)

\* the value of a key that was never written
KvInit == <<>>

\* may the operation o be answered as it was in state st
StepOk(st, o) == o.op = "get" => o.out = st

StepState(st, o) ==
  CASE o.op = "get" -> st
    [] o.op = "put" -> o.value
    [] o.op = "append" -> st \o o.value

Keys == {history[i].key : i \in DOMAIN history}

\* one subhistory per key
Partition(h, k) ==
  LET part[n \in 0..Len(h)] ==
        IF n = 0 THEN <<>>
        ELSE IF h[n].key = k THEN Append(part[n - 1], h[n]) ELSE part[n - 1]
  IN part[Len(h)]

----------------------------------------------------------------------------
(* Entries and the linked list.                                            *)

Ids(h) == DOMAIN h
CallAndReturn(h) == [id : Ids(h), kind : {"call", "return"}]
Time(h, e) == IF e.kind = "call" THEN h[e.id].call ELSE h[e.id].ret

\* sort.Sort is not stable: entries of the same time come in any order
SortedByTime(h, es) ==
  LET earliest(xs) == {e \in xs : \A f \in xs : Time(h, e) <= Time(h, f)}
      left(s) == es \ {s[i] : i \in DOMAIN s}
      sorted[n \in 0..Cardinality(es)] ==
        IF n = 0 THEN {<<>>}
        ELSE UNION {{Append(s, e) : e \in earliest(left(s))} : s \in sorted[n - 1]}
  IN sorted[Cardinality(es)]

makeEntries(h) == SortedByTime(h, CallAndReturn(h))

\* the history of check as a sequence of events
Events ==
  LET es == CHOOSE es \in makeEntries(history) : TRUE IN
  [n \in DOMAIN es |->
     [Id |-> check.ids[es[n].id],
      Kind |-> IF es[n].kind = "call" THEN "CallEvent" ELSE "ReturnEvent"]]

\* ids in the order in which they first occur
renumber(events) ==
  LET seen(n) == {events[m].Id : m \in 1..n}
      first(n) == CHOOSE m \in 1..n : /\ events[m].Id = events[n].Id
                                     /\ events[n].Id \notin seen(m - 1)
  IN [n \in DOMAIN events |->
        [events[n] EXCEPT !.Id = Cardinality(seen(first(n)))]]

\* the place of an event is its time
convertEntries(events) ==
  [n \in DOMAIN events |->
     [id |-> events[n].Id,
      kind |-> IF events[n].Kind = "ReturnEvent" THEN "return" ELSE "call"]]

\* checkEvents and checkOperations: the entries of the partition of key k
EntriesOf(k) ==
  IF check.ids # <<>> THEN {convertEntries(renumber(Events))}
  ELSE makeEntries(Partition(history, k))

----------------------------------------------------------------------------
(* bitset.go.                                                              *)

newBitset == {}
set(b, pos) == b \cup {pos}
clear(b, pos) == b \ {pos}
equals(b, b2) == b = b2

Nil == -1
Head0 == 0                        \* headEntry; entry i is node i

\* the return of the call at node i, and Nil at the node of a return
Match(es, i) ==
  LET later == {j \in i..Len(es) : /\ es[i].kind = "call" /\ es[j].kind = "return"
                                   /\ es[j].id = es[i].id}
  IN IF later = {} THEN Nil ELSE CHOOSE j \in later : TRUE

\* the nodes in the order of the entries, behind headEntry
makeLinkedEntries(es) ==
  [next |-> [i \in 0..Len(es) |-> IF i = Len(es) THEN Nil ELSE i + 1],
   prev |-> [i \in 0..Len(es) |-> i - 1]]

Unlink(l, i) ==
  [next |-> [l.next EXCEPT ![l.prev[i]] = l.next[i]],
   prev |-> IF l.next[i] = Nil THEN l.prev
            ELSE [l.prev EXCEPT ![l.next[i]] = l.prev[i]]]

Relink(l, i) ==
  [next |-> [l.next EXCEPT ![l.prev[i]] = i],
   prev |-> IF l.next[i] = Nil THEN l.prev ELSE [l.prev EXCEPT ![l.next[i]] = i]]

lift(l, i, match) == Unlink(Unlink(l, i), match)

\* faulty variant: the return stays out of the list
UnliftCall(l, i, match) == Relink(l, i)

unlift(l, i, match) == Relink(Relink(l, match), i)

----------------------------------------------------------------------------
(* The start of a check.                                                   *)

\* partition the history, make the entries, start checkSingle
Init ==
  /\ check \in Checks
  /\ \E made \in {[k \in Keys |-> EntriesOf(k)]} :
       /\ entries \in [Keys -> UNION {made[k] : k \in Keys}]
       /\ \A k \in Keys : entries[k] \in made[k]
  /\ list = [k \in Keys |-> makeLinkedEntries(entries[k])]
  /\ entry = [k \in Keys |-> 1]
  /\ linearized = [k \in Keys |-> newBitset]
  /\ cache = [k \in Keys |-> {}]
  /\ calls = [k \in Keys |-> <<>>]
  /\ state = [k \in Keys |-> KvInit]
  /\ longest = [k \in Keys |-> [i \in Ids(Partition(history, k)) |-> <<>>]]
  /\ outcome = [k \in Keys |-> "running"]
  /\ pc = "loop" /\ ok = TRUE /\ timedOut = FALSE /\ kill = FALSE
  /\ received = {} /\ result = "none"

----------------------------------------------------------------------------
(* checkSingle on the partition of key k.                                  *)

ops(k) == Partition(history, k)
Id(k, i) == entries[k][i].id
SeqOfCalls(k) == [i \in DOMAIN calls[k] |-> Id(k, calls[k][i].entry)]

Running(k) == outcome[k] = "running"

\* headEntry.next == nil: every operation has its place
AllLinearized(k) ==
  /\ Running(k) /\ list[k].next[Head0] = Nil
  /\ longest' = [longest EXCEPT ![k] = [i \in DOMAIN @ |-> SeqOfCalls(k)]]
  /\ outcome' = [outcome EXCEPT ![k] = "true"]
  /\ UNCHANGED <<check, entries, list, entry, linearized, cache, calls, state,
                 verdict>>

Killed(k) ==
  /\ Running(k) /\ list[k].next[Head0] # Nil /\ kill
  /\ outcome' = [outcome EXCEPT ![k] = "false"]
  /\ UNCHANGED <<check, entries, list, entry, linearized, cache, calls, state,
                 longest, verdict>>

Goes(k) == Running(k) /\ list[k].next[Head0] # Nil /\ ~kill

cacheContains(c, lin, st) == \E x \in c : equals(lin, x[1]) /\ x[2] = st

\* a call that the model allows, in a configuration not seen before, is the next
\* of the linearization; else the search looks at the next entry
TryCall(k) ==
  LET i == entry[k]
      match == Match(entries[k], i)
      o == ops(k)[Id(k, i)]
      lin == set(linearized[k], Id(k, i))
      st == StepState(state[k], o)
  IN
  /\ Goes(k) /\ match # Nil
  /\ IF StepOk(state[k], o) /\ ~cacheContains(cache[k], lin, st)
     THEN /\ cache' = [cache EXCEPT ![k] = @ \cup {<<lin, st>>}]
          /\ calls' = [calls EXCEPT
                         ![k] = Append(@, [entry |-> i, state |-> state[k]])]
          /\ state' = [state EXCEPT ![k] = st]
          /\ linearized' = [linearized EXCEPT ![k] = lin]
          /\ list' = [list EXCEPT ![k] = lift(@, i, match)]
          /\ entry' = [entry EXCEPT ![k] = list'[k].next[Head0]]
     ELSE /\ entry' = [entry EXCEPT ![k] = list[k].next[i]]
          /\ UNCHANGED <<cache, calls, state, linearized, list>>
  /\ UNCHANGED <<check, entries, longest, outcome, verdict>>

\* faulty variant: the last dead end is kept, not the longest
RecordLast(k) ==
  [i \in DOMAIN longest[k] |->
     IF \E j \in DOMAIN calls[k] : Id(k, calls[k][j].entry) = i
     THEN SeqOfCalls(k) ELSE longest[k][i]]

\* faulty variant: recorded when the last call has left the stack
RecordAfterPop(k) ==
  LET s == SubSeq(SeqOfCalls(k), 1, Len(calls[k]) - 1) IN
  [i \in DOMAIN longest[k] |->
     IF (\E j \in DOMAIN s : s[j] = i) /\ Len(s) > Len(longest[k][i])
     THEN s ELSE longest[k][i]]

\* longest linearizable prefix that includes the given entry
Record(k) ==
  [i \in DOMAIN longest[k] |->
     IF /\ \E j \in DOMAIN calls[k] : Id(k, calls[k][j].entry) = i
        /\ Len(calls[k]) > Len(longest[k][i])
     THEN SeqOfCalls(k) ELSE longest[k][i]]

\* callsTop.state
StateBefore(k) == calls[k][Len(calls[k])].state

\* a return whose call has no place yet: the last choice is taken back
Backtrack(k) ==
  /\ Goes(k) /\ Match(entries[k], entry[k]) = Nil
  /\ IF calls[k] = <<>>
     THEN /\ outcome' = [outcome EXCEPT ![k] = "false"]
          /\ UNCHANGED <<list, entry, linearized, calls, state, longest>>
     ELSE LET n == Len(calls[k])
              i == calls[k][n].entry
          IN /\ longest' = IF check.verbose
                           THEN [longest EXCEPT ![k] = Record(k)] ELSE longest
             /\ state' = [state EXCEPT ![k] = StateBefore(k)]
             /\ linearized' = [linearized EXCEPT ![k] = clear(@, Id(k, i))]
             /\ calls' = [calls EXCEPT ![k] = SubSeq(@, 1, n - 1)]
             /\ list' = [list EXCEPT ![k] = unlift(@, i, Match(entries[k], i))]
             /\ entry' = [entry EXCEPT ![k] = list'[k].next[i]]
             /\ UNCHANGED outcome
  /\ UNCHANGED <<check, entries, cache, verdict>>

----------------------------------------------------------------------------
(* checkParallel, in the goroutine of the caller.                          *)

\* faulty variant: one result more is waited for
MoreThanAll(n) == n > Cardinality(Keys)

\* count >= len(history)
AllReceived(n) == n >= Cardinality(Keys)

Results == {k \in Keys : outcome[k] # "running" /\ k \notin received}

\* a result from the channel; the first failure ends the check unless partial
\* linearizations are wanted
Receive(k) ==
  /\ pc = "loop" /\ k \in Results
  /\ received' = received \cup {k}
  /\ ok' = (ok /\ outcome[k] = "true")
  /\ LET failed == ~ok' /\ ~check.verbose IN
     /\ kill' = (kill \/ failed)
     /\ pc' = IF failed \/ AllReceived(Cardinality(received'))
              THEN "drain" ELSE pc
  /\ UNCHANGED <<check, entries, search, timedOut, result>>

Timeout ==
  /\ pc = "loop" /\ check.timeout
  /\ timedOut' = TRUE /\ kill' = TRUE /\ pc' = "drain"
  /\ UNCHANGED <<check, entries, search, ok, received, result>>

\* faulty variant: the results of killed goroutines count
OkAnded(k) == ok /\ outcome[k] = "true"

\* results after the loop are waited for, not looked at
OkAfter(k) == ok

Drain(k) ==
  /\ pc = "drain" /\ check.verbose /\ k \in Results
  /\ received' = received \cup {k}
  /\ ok' = OkAfter(k)
  /\ UNCHANGED <<check, entries, search, pc, timedOut, kill, result>>

Return ==
  /\ pc = "drain" /\ (check.verbose => AllReceived(Cardinality(received)))
  /\ result' = IF ~ok THEN "Illegal" ELSE IF timedOut THEN "Unknown" ELSE "Ok"
  /\ pc' = "done"
  /\ UNCHANGED <<check, entries, search, ok, timedOut, kill, received>>

checkSingle(k) == AllLinearized(k) \/ Killed(k) \/ TryCall(k) \/ Backtrack(k)
checkParallel == Timeout \/ Return \/ \E k \in Keys : Receive(k) \/ Drain(k)

Next == checkParallel \/ \E k \in Keys : checkSingle(k)

Spec == Init /\ [][Next]_vars

\* every goroutine goes on
FairSpec ==
  Spec /\ WF_vars(checkParallel) /\ WF_vars(\E k \in Keys : checkSingle(k))

----------------------------------------------------------------------------
(* What the checker ought to find.                                         *)

\* the states of a store along a sequence of operations, from the empty store
Legal(s) ==
  LET store[i \in 0..Len(s)] ==
        IF i = 0 THEN [k \in Keys |-> KvInit]
        ELSE [store[i - 1] EXCEPT ![s[i].key] = StepState(@, s[i])]
  IN \A i \in DOMAIN s : StepOk(store[i - 1][s[i].key], s[i])

Injections(n, S) ==
  {f \in [1..n -> S] : \A i, j \in 1..n : i # j => f[i] # f[j]}

\* some order of all operations on the whole store, all keys together, explains
\* the answers; an operation that has returned before another is called comes
\* first, and whether it has when the times are the same is up to Before
Linearizable(Before(_, _)) ==
  \E f \in Injections(Len(history), DOMAIN history) :
    /\ \A i, j \in DOMAIN f :
         Before(history[f[j]].ret, history[f[i]].call) => j < i
    /\ Legal([i \in DOMAIN f |-> history[f[i]]])

\* the orders in which some of the operations of a partition may come first
ReturnedBefore(k, i, j) ==
  \E m, n \in DOMAIN entries[k] :
    /\ m < n
    /\ entries[k][m] = [id |-> i, kind |-> "return"]
    /\ entries[k][n] = [id |-> j, kind |-> "call"]

Explains(k, s) == Legal([i \in DOMAIN s |-> ops(k)[s[i]]])

Prefixes(k) ==
  {s \in UNION {Injections(n, Ids(ops(k))) : n \in 1..Len(ops(k))} :
     /\ \A i \in DOMAIN s, o \in Ids(ops(k)) :
          ReturnedBefore(k, o, s[i]) => \E j \in 1..(i - 1) : s[j] = o
     /\ Explains(k, s)}

----------------------------------------------------------------------------
(* Properties.                                                             *)

\* The verdict is right whatever the goroutines, the timer and the flag kill do:
\* Ok only for a history that is linearizable on the whole store, although every
\* key was searched on its own; Illegal only for one that is not, so never
\* because a search was killed; Unknown only after the timeout.
VerdictIsRight ==
  /\ result = "Ok" => Linearizable(LAMBDA r, c : r < c)
  /\ result = "Illegal" => ~Linearizable(LAMBDA r, c : r <= c)
  /\ result = "Unknown" => timedOut

\* behind headEntry the list holds the entries of the operations that have no
\* place yet, in their order and doubly linked
ListIsRest ==
  \A k \in Keys :
    LET l == list[k]
        rest == {i \in DOMAIN entries[k] : Id(k, i) \notin linearized[k]}
        nodes == rest \cup {Head0}
    IN \A i \in nodes :
         LET after == {j \in rest : j > i} IN
         /\ (l.next[i] = Nil) = (after = {})
         /\ after # {} => /\ l.next[i] \in after
                          /\ \A j \in after : l.next[i] <= j
                          /\ l.prev[l.next[i]] = i

\* the calls on the stack are a linearizable prefix, the state is the one they
\* lead to and linearized their set
PathIsPrefix ==
  \A k \in Keys :
    LET s == SeqOfCalls(k)
        st[i \in 0..Len(s)] ==
          IF i = 0 THEN KvInit ELSE StepState(st[i - 1], ops(k)[s[i]])
    IN /\ s = <<>> \/ s \in Prefixes(k)
       /\ state[k] = st[Len(s)]
       /\ linearized[k] = {s[i] : i \in DOMAIN s}

\* However often the search goes forward and back, the list, the stack, the state
\* and the bitset agree: nothing of a choice that was taken back is left.
ChoicesTakenBack == ListIsRest /\ PathIsPrefix

\* what Visualize draws in red after a partial linearization: an operation is a
\* possible next one if no other operation must come before it
PossibleNext(k, s) ==
  LET others == Ids(ops(k)) \ {s[i] : i \in DOMAIN s} IN
  {i \in others : \A j \in others : ops(k)[i].call < ops(k)[j].ret}

Partials(k) == {longest[k][i] : i \in DOMAIN longest[k]} \ {<<>>}

\* the length of the partial linearization that Visualize shows for operation i
largestSize(k, i) ==
  LET sizes == {Len(s) : s \in {s \in Partials(k) : \E j \in DOMAIN s : s[j] = i}}
  IN IF sizes = {} THEN 0 ELSE CHOOSE n \in sizes : \A m \in sizes : m <= n

\* The partial linearizations of a verbose check are legal, so that Visualize
\* does not panic on them, and none of the operations it draws in red could have
\* been the next, although the search may have been killed on its way.
DeadEndsAreDead ==
  result # "none" /\ check.verbose =>
    \A k \in Keys : \A s \in Partials(k) :
      /\ s \in Prefixes(k)
      /\ \A i \in PossibleNext(k, s) : ~Explains(k, Append(s, i))

\* A verbose check that is not cut short has, for every operation, a linearizable
\* prefix with it if there is one; no longer one exists, and Visualize, which
\* looks through the prefixes of all operations, finds none either.
LongestIsLongest ==
  result # "none" /\ check.verbose /\ ~timedOut =>
    \A k \in Keys : \A i \in Ids(ops(k)) :
      LET with == {s \in Prefixes(k) : \E j \in DOMAIN s : s[j] = i} IN
      /\ longest[k][i] = <<>> <=> with = {}
      /\ with # {} => /\ longest[k][i] \in with
                      /\ \A s \in with : Len(s) <= Len(longest[k][i])
      /\ largestSize(k, i) = Len(longest[k][i])

\* Every check returns.
CheckReturns == <>(pc = "done")
============================================================================
