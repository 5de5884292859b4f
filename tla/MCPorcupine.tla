---------------------------- MODULE MCPorcupine ----------------------------
(* Instances of Porcupine for TLC.                                         *)
EXTENDS Porcupine

Get(k, v) == [key |-> k, op |-> "get", value |-> <<>>, out |-> v]
Put(k, v) == [key |-> k, op |-> "put", value |-> v, out |-> <<>>]
Add(k, v) == [key |-> k, op |-> "append", value |-> v, out |-> <<>>]

\* the operation o with its times
At(o, t) == [key |-> o.key, op |-> o.op, value |-> o.value, out |-> o.out,
             call |-> t[1], ret |-> t[2]]
Histories(n, Ops, Shapes) ==
  {[i \in 1..n |-> At(o[i], t[i])] : o \in [1..n -> Ops], t \in Shapes}

Spans(last) == {t \in (1..last) \X (1..last) : t[1] < t[2]}

\* times of n operations in the order of their calls, all different
Distinct(n) ==
  {t \in [1..n -> Spans(2 * n)] :
     /\ \A i \in 1..(n - 1) : t[i][1] < t[i + 1][1]
     /\ \A i, j \in 1..n : i # j => t[i][2] # t[j][2] /\ t[i][2] # t[j][1]}

\* times of n operations with ties
Tied(n) ==
  {t \in [1..n -> Spans(3)] : \A i \in 1..(n - 1) : t[i][1] <= t[i + 1][1]}

One == <<1>>
Two == <<2>>
OneKey == {Get("x", <<>>), Get("x", One), Get("x", <<1, 2>>), Put("x", One),
           Add("x", Two)}
TwoKeys == {Get("x", One), Put("x", One), Get("y", One), Put("y", One)}

\* the Ids of three events, which need be neither in order nor from 0 on
SomeIds(n) == SubSeq(<<7, 3, 5>>, 1, n)

SmallChecks ==
  LET short == Histories(2, OneKey, Distinct(2))
      tied == Histories(3, {Put("x", One), Put("x", Two), Get("x", One)}, Tied(3))
      twoKeys == Histories(3, TwoKeys, Distinct(3))
  IN
  {CheckOperationsVerbose(h, FALSE) : h \in Histories(3, OneKey, Distinct(3))}
  \cup {CheckOperations(h) : h \in short \cup tied}
  \cup {CheckOperationsTimeout(h) : h \in short \cup twoKeys}
  \cup {CheckOperationsVerbose(h, TRUE) : h \in short \cup twoKeys}
  \cup {CheckEvents(h, SomeIds(2)) : h \in short}
  \cup {CheckEventsTimeout(h, SomeIds(2)) : h \in short}
  \cup {CheckEventsVerbose(h, SomeIds(3), FALSE) :
           h \in Histories(3, {Get("x", <<1, 2>>), Put("x", One), Add("x", Two)},
                            Distinct(3))}
============================================================================
