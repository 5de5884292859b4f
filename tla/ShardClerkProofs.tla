-------------------------- MODULE ShardClerkProofs --------------------------
(***************************************************************************)
(* Proofs about the clerks of ShardClerk.tla, for any number of shards,    *)
(* groups, masters and operations: what a return of Get or PutAppend means *)
(* and what a clerk knows after a query.                                   *)
(***************************************************************************)
EXTENDS ShardClerk, TLAPS

\* one field for each of the three of Config, and a map of groups
IsConfig(c) ==
  /\ c = [Num |-> c.Num, Shards |-> c.Shards, Groups |-> c.Groups]
  /\ c.Groups = [g \in DOMAIN c.Groups |-> c.Groups[g]]

\* the calls that the tester has still to make, or has given up, are well-formed
CallsInv ==
  /\ todo \in Seq(Update)
  /\ \A u \in late : u.type = "update" => u.update \in Update

\* The shardmaster makes a whole configuration from a whole one.
LEMMA UpdatedIsConfig ==
  ASSUME NEW c, IsConfig(c), NEW u \in Update, NEW d \in Updated(c, u)
  PROVE  IsConfig(d)
<1> DEFINE assigned(gs) == [Num : {c.Num + 1}, Groups : {gs},
                            Shards : [Shard -> IF gs = <<>> THEN {0} ELSE DOMAIN gs]]
<1>1. ASSUME NEW gs, gs = [g \in DOMAIN gs |-> gs[g]], d \in assigned(gs)
      PROVE  IsConfig(d)
  BY <1>1 DEF IsConfig
<1>2. CASE d = c
  BY <1>2
<1>3. CASE u.kind = "Join" /\ d \in assigned([g \in DOMAIN c.Groups \cup u.gids |-> Groups0[g]])
  <2> HIDE DEF assigned
  <2> QED
    BY <1>1, <1>3
<1>4. CASE u.kind = "Leave" /\ d \in assigned(Restrict(c.Groups, DOMAIN c.Groups \ u.gids))
  <2> DEFINE gs == Restrict(c.Groups, DOMAIN c.Groups \ u.gids)
  <2>1. gs = [g \in DOMAIN gs |-> gs[g]]
    BY DEF Restrict
  <2> HIDE DEF assigned, gs
  <2> QED
    BY <1>1, <1>4, <2>1 DEF gs
<1>5. CASE u.kind = "Move" /\ d = [c EXCEPT !.Num = @ + 1, !.Shards[u.shard] = u.gid]
  <2>1. c = [Num |-> c.Num, Shards |-> c.Shards, Groups |-> c.Groups]
    BY DEF IsConfig
  <2>2. d.Groups = c.Groups /\ d = [Num |-> d.Num, Shards |-> d.Shards, Groups |-> d.Groups]
    BY <1>5, <2>1
  <2> QED
    BY <2>2 DEF IsConfig
<1>6. u.kind \in {"Join", "Leave", "Move"}
  BY DEF Update
<1> QED
  BY <1>2, <1>3, <1>4, <1>5, <1>6, Zenon DEF Updated

\* Decoded into a fresh reply, a configuration is what was sent.
LEMMA FreshDecode ==
  ASSUME NEW c, IsConfig(c), NEW w
  PROVE  Decode(FreshReply, [WrongLeader |-> w, Config |-> c]).Config = c
<1> DEFINE gs == [g \in DOMAIN Config0.Groups \cup DOMAIN c.Groups |->
                    IF g \in DOMAIN c.Groups THEN c.Groups[g] ELSE Config0.Groups[g]]
<1>1. DOMAIN Config0.Groups = {}
  BY DEF Config0
<1>2. gs = [g \in DOMAIN c.Groups |-> c.Groups[g]]
  BY <1>1
<1>3. gs = c.Groups
  BY <1>2 DEF IsConfig
<1>4. FreshReply.Config = Config0 /\ Config0.Num = 0
  BY DEF FreshReply, Config0
<1>5. Decode(FreshReply, [WrongLeader |-> w, Config |-> c]).Config =
        [Num |-> Override(0, 0, c.Num),
         Shards |-> Override(Config0.Shards, Config0.Shards, c.Shards), Groups |-> gs]
  BY <1>4 DEF Decode
<1>6. Override(0, 0, c.Num) = c.Num /\ Override(Config0.Shards, Config0.Shards, c.Shards) = c.Shards
  BY DEF Override
<1> QED
  BY <1>3, <1>5, <1>6 DEF IsConfig

\* the calls are well-formed and the last configuration is whole, whatever is
\* executed late or twice
ServiceInv == CallsInv /\ IsConfig(latest)

\* The tester's calls are well-formed and Config{} is whole.
LEMMA ServiceInit == Init => ServiceInv
<1> SUFFICES ASSUME Init PROVE ServiceInv
  OBVIOUS
<1>1. todo = Updates /\ late = {} /\ latest = Config0
  BY DEF Init
<1>2. CallsInv
  BY <1>1, UpdatesAssumption DEF CallsInv
<1>3. Config0.Groups = <<>>
  BY DEF Config0
<1>4. <<>> = [g \in DOMAIN <<>> |-> <<>>[g]]
  OBVIOUS
<1>5. IsConfig(Config0)
  BY <1>3, <1>4 DEF IsConfig, Config0
<1> QED
  BY <1>1, <1>2, <1>5 DEF ServiceInv

\* No step of the clerks or of a late request breaks either.
LEMMA ServiceStep == ServiceInv /\ [Next]_vars => ServiceInv'
<1> SUFFICES ASSUME ServiceInv, [Next]_vars PROVE ServiceInv'
  OBVIOUS
<1>0. CallsInv /\ IsConfig(latest)
  BY DEF ServiceInv
<1>1. ASSUME NEW u \in Update, ApplyUpdate(u) PROVE IsConfig(latest')
  BY <1>0, <1>1, UpdatedIsConfig, Zenon DEF ApplyUpdate
<1>2. CASE LateUpdate
  <2>1. PICK u \in late : /\ u.type = "update" /\ ApplyUpdate(u.update) /\ late' = late \ {u}
                          /\ UNCHANGED todo
    BY <1>2, Zenon DEF LateUpdate, admin
  <2>2. u.update \in Update
    BY <1>0, <2>1, Zenon DEF CallsInv
  <2>3. IsConfig(latest')
    BY <1>1, <2>1, <2>2, Zenon
  <2>4. CallsInv'
    BY <1>0, <2>1 DEF CallsInv
  <2> QED
    BY <2>3, <2>4 DEF ServiceInv
<1>3. CASE LateOp
  <2>1. /\ UNCHANGED <<todo, latest>>
        /\ \E u \in late : late' = late \ {u}
    BY <1>3, Zenon DEF LateOp, admin
  <2> QED
    BY <1>0, <2>1 DEF ServiceInv, CallsInv
<1>4. CASE UpdateServed
  <2>1. /\ todo # <<>> /\ ApplyUpdate(Head(todo)) /\ todo' = Tail(todo) /\ late' = late
    BY <1>4 DEF UpdateServed
  <2>2. Head(todo) \in Update /\ Tail(todo) \in Seq(Update)
    BY <1>0, <2>1 DEF CallsInv
  <2>3. IsConfig(latest')
    BY <1>1, <2>1, <2>2, Zenon
  <2> QED
    BY <1>0, <2>1, <2>2, <2>3 DEF ServiceInv, CallsInv
<1>5. CASE UpdateFails
  <2>1. /\ todo # <<>> /\ todo' = todo
        /\ \/ UNCHANGED <<latest, late>>
           \/ ApplyUpdate(Head(todo)) /\ late' = late
           \/ /\ late' = late \cup {[type |-> "update", update |-> Head(todo)]}
              /\ latest' = latest
    BY <1>5 DEF UpdateFails, service
  <2>2. Head(todo) \in Update
    BY <1>0, <2>1 DEF CallsInv
  <2>3. IsConfig(latest')
    BY <1>0, <1>1, <2>1, <2>2, Zenon
  <2>4. CallsInv'
    BY <1>0, <2>1, <2>2 DEF CallsInv
  <2> QED
    BY <2>3, <2>4 DEF ServiceInv
<1>6. CASE CallFails
  <2>1. /\ UNCHANGED <<todo, latest>>
        /\ \/ late' = late
           \/ late' = late \cup {[type |-> "op", n |-> n, key |-> op.key, gid |-> Gid]}
    BY <1>6 DEF CallFails, Answer, ApplyOp, service, admin
  <2> QED
    BY <1>0, <2>1 DEF ServiceInv, CallsInv
<1>7. ASSUME UNCHANGED <<todo, latest, late>> PROVE ServiceInv'
  BY <1>0, <1>7 DEF ServiceInv, CallsInv, IsConfig
<1>8. CASE \E o \in Op : Begin(o)
  <2>1. UNCHANGED <<todo, latest, late>>
    BY <1>8 DEF Begin, service, admin
  <2> QED
    BY <1>7, <2>1
<1>9. CASE Lookup \/ GiveUp \/ Served \/ WrongGroup \/ WrongLeader
  <2>1. UNCHANGED <<todo, latest, late>>
    BY <1>9 DEF Lookup, GiveUp, Served, WrongGroup, WrongLeader, Answer, service, admin
  <2> QED
    BY <1>7, <2>1
<1>10. CASE QueryServed \/ QueryWrongLeader \/ QueryFails
  <2>1. UNCHANGED <<todo, latest, late>>
    BY <1>10 DEF QueryServed, QueryWrongLeader, QueryFails, Queried, service, admin
  <2> QED
    BY <1>7, <2>1
<1>11. CASE UNCHANGED vars
  <2>1. UNCHANGED <<todo, latest, late>>
    BY <1>11 DEF vars, service, admin
  <2> QED
    BY <1>7, <2>1
<1> QED
  BY <1>2, <1>3, <1>4, <1>5, <1>6, <1>8, <1>9, <1>10, <1>11, Zenon
  DEF Next, Clerk, Admin

\* Both hold throughout.
LEMMA ServiceInvariance == Spec => []ServiceInv
  BY ServiceInit, ServiceStep, PTL DEF Spec

\* A clerk changes its configuration only for the one the shardmaster has at that
\* moment, and takes it over as a whole: with the reply variable of each Query
\* fresh, the fields that the encoding leaves out do not keep old values.
THEOREM WholeConfigs == Spec => ConfigIsWhole
<1>1. ASSUME ServiceInv, [Next]_vars, config' # config PROVE config' = latest
  <2>0. IsConfig(latest)
    BY <1>1 DEF ServiceInv
  <2>1. CASE QueryServed
    <3>1. Queried(Decode(FreshReply, [WrongLeader |-> FALSE, Config |-> latest]))
      BY <2>1 DEF QueryServed
    <3>2. config' = Decode(FreshReply, [WrongLeader |-> FALSE, Config |-> latest]).Config
      BY <1>1, <3>1, Zenon DEF Queried
    <3> QED
      BY <2>0, <3>2, FreshDecode, Zenon
  <2>2. ~QueryWrongLeader
    <3> SUFFICES ASSUME QueryWrongLeader PROVE FALSE
      OBVIOUS
    <3>1. Decode(FreshReply, [WrongLeader |-> TRUE, Config |-> Config0]).WrongLeader
      BY DEF Decode, FreshReply
    <3>2. config' = config
      BY <3>1, Zenon DEF QueryWrongLeader, Queried
    <3> QED
      BY <1>1, <3>2
  <2>3. ~(QueryFails \/ Lookup \/ GiveUp \/ Served \/ WrongGroup \/ WrongLeader \/ CallFails)
    BY <1>1 DEF QueryFails, Lookup, GiveUp, Served, WrongGroup, WrongLeader, CallFails, Answer
  <2>4. ~(Admin \/ LateUpdate \/ LateOp \/ UNCHANGED vars)
    BY <1>1 DEF Admin, UpdateServed, UpdateFails, LateUpdate, LateOp, vars, clerk
  <2>5. ~\E o \in Op : Begin(o)
    BY <1>1 DEF Begin
  <2> QED
    BY <1>1, <2>1, <2>2, <2>3, <2>4, <2>5, Zenon DEF Next, Clerk
<1>2. ServiceInv /\ [Next]_vars => [config' # config => config' = latest]_vars
  BY <1>1, Zenon
<1> QED
  BY <1>2, ServiceInvariance, PTL DEF Spec, ConfigIsWhole

----------------------------------------------------------------------------
\* every operation the clerk has begun has been executed, but for the one that
\* it is still trying
ExecutedInv ==
  /\ n \in Nat
  /\ \A i \in 1..n : i \in executed \/ (i = n /\ pc # "idle")

\* No answer but a success ends an operation, and a success means execution.
LEMMA ExecutedStep == ExecutedInv /\ [Next]_vars => ExecutedInv'
<1> SUFFICES ASSUME ExecutedInv, [Next]_vars PROVE ExecutedInv'
  OBVIOUS
<1>0. n \in Nat /\ \A i \in 1..n : i \in executed \/ (i = n /\ pc # "idle")
  BY DEF ExecutedInv
<1>1. ASSUME n' = n, executed \subseteq executed', pc' = "idle" => pc = "idle"
      PROVE  ExecutedInv'
  BY <1>0, <1>1 DEF ExecutedInv
<1>2. CASE \E o \in Op : Begin(o)
  <2>1. pc = "idle" /\ pc' = "lookup" /\ n' = n + 1 /\ executed' = executed
    BY <1>2 DEF Begin, service
  <2> QED
    BY <1>0, <2>1 DEF ExecutedInv
<1>3. CASE Served
  <2>1. n' = n /\ executed' = executed \cup {n}
    BY <1>3 DEF Served, Answer, ApplyOp
  <2> QED
    BY <1>0, <2>1 DEF ExecutedInv
\* an answer that is no success, or no answer, is no reason to return
<1>4. ASSUME NEW ok \in BOOLEAN, NEW err, Answer(ok, err),
             ~ok \/ err \in {"ErrWrongGroup", "ErrWrongLeader"}
      PROVE  pc' # "idle" /\ n' = n
  <2>1. ~(ok /\ Accepted(err))
    BY <1>4 DEF Accepted
  <2> QED
    BY <1>4, <2>1 DEF Answer
<1>5. CASE WrongGroup \/ WrongLeader
  <2>1. executed' = executed /\ pc' # "idle" /\ n' = n
    BY <1>4, <1>5 DEF WrongGroup, WrongLeader, service
  <2> QED
    BY <1>1, <2>1
<1>6. CASE CallFails
  <2>1. pc' # "idle" /\ n' = n
    BY <1>4, <1>6 DEF CallFails
  <2>2. executed \subseteq executed'
    BY <1>6 DEF CallFails, ApplyOp, service
  <2> QED
    BY <1>1, <2>1, <2>2
<1>7. CASE Lookup \/ GiveUp
  <2>1. executed' = executed /\ pc' # "idle" /\ n' = n
    BY <1>7 DEF Lookup, GiveUp, service
  <2> QED
    BY <1>1, <2>1
<1>8. CASE QueryServed \/ QueryWrongLeader \/ QueryFails
  <2>1. executed' = executed /\ pc' # "idle" /\ n' = n
    BY <1>8 DEF QueryServed, QueryWrongLeader, QueryFails, Queried, service
  <2> QED
    BY <1>1, <2>1
<1>9. CASE Admin \/ LateUpdate
  <2>1. executed' = executed /\ pc' = pc /\ n' = n
    BY <1>9 DEF Admin, UpdateServed, UpdateFails, LateUpdate, clerk, service
  <2> QED
    BY <1>1, <2>1
<1>10. CASE LateOp
  <2>1. executed \subseteq executed' /\ pc' = pc /\ n' = n
    BY <1>10 DEF LateOp, ApplyOp, clerk
  <2> QED
    BY <1>1, <2>1
<1>11. CASE UNCHANGED vars
  <2>1. executed' = executed /\ pc' = pc /\ n' = n
    BY <1>11 DEF vars, clerk, service
  <2> QED
    BY <1>1, <2>1
<1> QED
  BY <1>2, <1>3, <1>5, <1>6, <1>7, <1>8, <1>9, <1>10, <1>11, Zenon DEF Next, Clerk

\* When Get or PutAppend of the shardkv clerk returns, a group that had the shard
\* has executed the operation, and so every operation before it.
THEOREM ReturnedIsExecuted == Spec => []ReturnMeansExecuted
<1>1. Init => ExecutedInv
  BY DEF Init, ExecutedInv
<1>2. ExecutedInv => ReturnMeansExecuted
  BY DEF ExecutedInv, ReturnMeansExecuted
<1> QED
  BY <1>1, <1>2, ExecutedStep, PTL DEF Spec

=============================================================================
