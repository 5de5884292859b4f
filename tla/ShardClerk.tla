----------------------------- MODULE ShardClerk -----------------------------
(***************************************************************************)
(* The clerks of shardkv/client.go and shardmaster/client.go: one clerk of *)
(* the sharded store, which asks the shardmaster where a shard is, and one *)
(* of the shardmaster, which reconfigures meanwhile.  Both retry for ever. *)
(*                                                                         *)
(* The handlers of the two services are not in the repository: what they   *)
(* do is modelled from how the clerks, the comments of shardmaster/common.go*)
(* and the testers use them.  A service has one leader that executes       *)
(* requests; any server may answer that it is not the leader; a request,   *)
(* or the reply to it, is lost, or the request is executed after the       *)
(* caller has given it up.                                                 *)
(***************************************************************************)
EXTENDS Naturals, Sequences, FiniteSets, Functions

CONSTANTS NShards,
          Groups0,            \* gid -> server names: the groups that may join
          Leader,             \* gid -> the server that leads the group
          Masters,            \* the number of shardmaster servers
          MasterLeader,       \* the one that leads
          Updates,            \* the calls of the tester: Join, Leave, Move
          Key,                \* keys, as sequences of bytes
          MaxOps              \* bound: operations of the clerk

ASSUME ClerkAssumption ==
  /\ NShards \in Nat \ {0} /\ MasterLeader \in 1..Masters
  /\ 0 \notin DOMAIN Groups0          \* gid 0 is the invalid group
  /\ \A g \in DOMAIN Groups0 : Leader[g] \in Range(Groups0[g])

\* what a call of Join, Leave or Move asks for
Update == [kind : {"Join", "Leave"}, gids : SUBSET DOMAIN Groups0]
            \cup [kind : {"Move"}, gid : DOMAIN Groups0, shard : 0..(NShards - 1)]

ASSUME UpdatesAssumption == Updates \in Seq(Update)

VARIABLES
  pc, op, n,                  \* shardkv.Clerk: control, operation, its number
  config, si, mi,             \* ck.config, the next server, the next master
  todo, ai,                   \* shardmaster.Clerk: calls left, the next master
  latest,                     \* external: the last configuration
  executed,                   \* external: the operations some group executed
  late                        \* external: requests that were given up

clerk == <<pc, op, n, config, si, mi>>
admin == <<todo, ai>>
service == <<latest, executed, late>>
vars == <<clerk, admin, service>>

----------------------------------------------------------------------------
(* Configurations and their encoding.                                      *)

Shard == 0..(NShards - 1)

key2shard(key) == IF key = <<>> THEN 0 ELSE Head(key) % NShards

\* no groups, all shards in the invalid group: also Go's zero value
Config0 == [Num |-> 0, Shards |-> [s \in Shard |-> 0], Groups |-> <<>>]

Override(old, zero, new) == IF new = zero THEN old ELSE new

\* Decode of a QueryReply into the variable r: fields that are zero were not
\* sent, and the entries of a map are added to those it has
Decode(r, sent) ==
  [WrongLeader |-> r.WrongLeader \/ sent.WrongLeader,
   Config |->
     [Num |-> Override(r.Config.Num, 0, sent.Config.Num),
      Shards |-> Override(r.Config.Shards, Config0.Shards, sent.Config.Shards),
      Groups |-> [g \in DOMAIN r.Config.Groups \cup DOMAIN sent.Config.Groups |->
                    IF g \in DOMAIN sent.Config.Groups
                    THEN sent.Config.Groups[g] ELSE r.Config.Groups[g]]]]

\* faulty variant: the reply is decoded into the configuration of the clerk
ReplyInClerk == [WrongLeader |-> FALSE, Config |-> config]

\* var reply QueryReply
FreshReply == [WrongLeader |-> FALSE, Config |-> Config0]

----------------------------------------------------------------------------
(* The services (external).                                                *)

\* what may follow configuration c: nothing new when the request has been
\* executed before; the shards of Join and Leave go to any of the groups
Updated(c, u) ==
  LET assigned(gs) == [Num : {c.Num + 1}, Groups : {gs},
                       Shards : [Shard -> IF gs = <<>> THEN {0} ELSE DOMAIN gs]]
  IN CASE u.kind = "Join" ->
            IF u.gids \subseteq DOMAIN c.Groups THEN {c}
            ELSE assigned([g \in DOMAIN c.Groups \cup u.gids |-> Groups0[g]])
       [] u.kind = "Leave" ->
            IF u.gids \cap DOMAIN c.Groups = {} THEN {c}
            ELSE assigned(Restrict(c.Groups, DOMAIN c.Groups \ u.gids))
       [] u.kind = "Move" ->
            IF u.gid \notin DOMAIN c.Groups \/ c.Shards[u.shard] = u.gid THEN {c}
            ELSE {[c EXCEPT !.Num = @ + 1, !.Shards[u.shard] = u.gid]}

ApplyUpdate(u) == latest' \in Updated(latest, u)

\* the group that has the shard now executes operation i
ApplyOp(i, key, gid) ==
  /\ latest.Shards[key2shard(key)] = gid
  /\ executed' = executed \cup {i}

\* a request that the network was slow to deliver
LateUpdate ==
  \E u \in late :
    /\ u.type = "update" /\ ApplyUpdate(u.update) /\ late' = late \ {u}
    /\ UNCHANGED <<clerk, admin, executed>>

LateOp ==
  \E u \in late :
    /\ u.type = "op" /\ ApplyOp(u.n, u.key, u.gid) /\ late' = late \ {u}
    /\ UNCHANGED <<clerk, admin, latest>>

----------------------------------------------------------------------------
(* shardkv.Clerk.                                                          *)

\* MakeClerk: a zero configuration
Init ==
  /\ pc = "idle" /\ op = [kind |-> "none", key |-> <<>>] /\ n = 0
  /\ config = Config0 /\ si = 1 /\ mi = 1
  /\ todo = Updates /\ ai = 1
  /\ latest = Config0 /\ executed = {} /\ late = {}

Begin(o) ==
  /\ pc = "idle" /\ n < MaxOps
  /\ pc' = "lookup" /\ op' = o /\ n' = n + 1
  /\ UNCHANGED <<config, si, mi, admin, service>>

Gid == config.Shards[key2shard(op.key)]

\* the servers of the group of the shard, if the configuration has it; else, and
\* when all have been tried, sleep and ask the master
Lookup ==
  /\ pc = "lookup"
  /\ pc' = IF Gid \in DOMAIN config.Groups THEN "call" ELSE "query"
  /\ UNCHANGED <<op, n, config, si, mi, admin, service>>

\* faulty variant: the last server of the group is not tried
LastLeftOut(g) == si >= Len(config.Groups[g])

\* si < len(servers) no longer holds
Exhausted(g) == si > Len(config.Groups[g])

GiveUp ==
  /\ pc = "call" /\ Exhausted(Gid) /\ pc' = "query" /\ si' = 1
  /\ UNCHANGED <<op, n, config, mi, admin, service>>

Server == config.Groups[Gid][si]

\* faulty variant: a server that is not the leader is taken at its word
AcceptedAny(err) == err # "ErrWrongGroup"

\* the answers after which Get and PutAppend return
Accepted(err) == err = "OK" \/ (op.kind = "Get" /\ err = "ErrNoKey")

\* what follows Call: return, out of the loop, or on to the next server
Answer(ok, err) ==
  /\ pc' = CASE ok /\ Accepted(err) -> "idle"
             [] ok /\ err = "ErrWrongGroup" -> "query"
             [] OTHER -> "call"
  /\ si' = IF pc' = "call" THEN si + 1 ELSE 1
  /\ UNCHANGED <<op, n, config, mi, admin>>

Calling == pc = "call" /\ ~Exhausted(Gid)

Served ==
  /\ Calling /\ Server = Leader[Gid] /\ ApplyOp(n, op.key, Gid)
  /\ \E err \in {"OK"} \cup (IF op.kind = "Get" THEN {"ErrNoKey"} ELSE {}) :
       Answer(TRUE, err)
  /\ UNCHANGED <<latest, late>>

WrongGroup ==
  /\ Calling /\ Server = Leader[Gid] /\ latest.Shards[key2shard(op.key)] # Gid
  /\ Answer(TRUE, "ErrWrongGroup")
  /\ UNCHANGED service

WrongLeader == Calling /\ Answer(TRUE, "ErrWrongLeader") /\ UNCHANGED service

\* the request or the reply is lost, or the request is delayed
CallFails ==
  /\ Calling /\ Answer(FALSE, "")
  /\ \/ UNCHANGED service
     \/ Server = Leader[Gid] /\ ApplyOp(n, op.key, Gid) /\ UNCHANGED <<latest, late>>
     \/ /\ Server = Leader[Gid]
        /\ late' = late \cup {[type |-> "op", n |-> n, key |-> op.key, gid |-> Gid]}
        /\ UNCHANGED <<latest, executed>>

\* the next of ck.servers; after the last, sleep and start again
NextMaster(i) == (i % Masters) + 1

\* ck.sm.Query(-1): the master that leads answers with its last configuration
Queried(reply) ==
  /\ IF reply.WrongLeader
     THEN mi' = NextMaster(mi) /\ UNCHANGED <<pc, config>>
     ELSE pc' = "lookup" /\ config' = reply.Config /\ mi' = 1
  /\ UNCHANGED <<op, n, si, admin, service>>

QueryServed ==
  /\ pc = "query" /\ mi = MasterLeader
  /\ Queried(Decode(FreshReply, [WrongLeader |-> FALSE, Config |-> latest]))

QueryWrongLeader ==
  /\ pc = "query"
  /\ Queried(Decode(FreshReply, [WrongLeader |-> TRUE, Config |-> Config0]))

QueryFails ==
  /\ pc = "query" /\ mi' = NextMaster(mi)
  /\ UNCHANGED <<pc, op, n, config, si, admin, service>>

----------------------------------------------------------------------------
(* shardmaster.Clerk: Join, Leave and Move.                                *)

UpdateServed ==
  /\ todo # <<>> /\ ai = MasterLeader
  /\ ApplyUpdate(Head(todo))
  /\ todo' = Tail(todo) /\ ai' = 1
  /\ UNCHANGED <<clerk, executed, late>>

\* not ok, or WrongLeader
UpdateFails ==
  /\ todo # <<>> /\ ai' = NextMaster(ai)
  /\ \/ UNCHANGED service
     \/ ai = MasterLeader /\ ApplyUpdate(Head(todo)) /\ UNCHANGED <<executed, late>>
     \/ /\ ai = MasterLeader
        /\ late' = late \cup {[type |-> "update", update |-> Head(todo)]}
        /\ UNCHANGED <<latest, executed>>
  /\ UNCHANGED <<clerk, todo>>

----------------------------------------------------------------------------
Op == [kind : {"Get", "PutAppend"}, key : Key]

Clerk ==
  \/ Lookup \/ GiveUp \/ Served \/ WrongGroup \/ WrongLeader \/ CallFails
  \/ QueryServed \/ QueryWrongLeader \/ QueryFails

Admin == UpdateServed \/ UpdateFails

Next == (\E o \in Op : Begin(o)) \/ Clerk \/ Admin \/ LateUpdate \/ LateOp

Spec == Init /\ [][Next]_vars

\* the clerks go on; a leader that is asked again and again answers at last,
\* since the network loses some messages and not all
FairSpec ==
  /\ Spec
  /\ WF_vars(Clerk) /\ WF_vars(Admin)
  /\ SF_vars(Served) /\ SF_vars(QueryServed) /\ SF_vars(UpdateServed)

----------------------------------------------------------------------------
(* Properties.                                                             *)

\* Get and PutAppend return only when a group that had the shard has executed the
\* operation, whatever was lost and however the shards moved meanwhile.
ReturnMeansExecuted == pc = "idle" => \A i \in 1..n : i \in executed

\* The configuration a clerk works with is at every change the one that the
\* shardmaster has now, as a whole: groups that have left are not in it, although
\* fields that are zero do not overwrite what they are decoded into.
ConfigIsWhole == [][config' # config => config' = latest]_vars

\* "keeps trying forever in the face of all other errors": operations that have
\* begun and changes that the tester has asked for are all done at last.
ClerksReturn == pc # "idle" \/ todo # <<>> ~> pc = "idle" /\ todo = <<>>
=============================================================================
