------------------------------ MODULE KvTester ------------------------------
(***************************************************************************)
(* The tester of kvraft/config.go over the network of LabRPC: servers that *)
(* are shut down and started anew while calls are under way, partitions,   *)
(* clerks and their connections.  An old instance cannot really be killed: *)
(* it keeps its ends, its Persister and the handlers that run in it.       *)
(*                                                                         *)
(* An operation of the tester is several steps, since it takes the locks   *)
(* of the network and of the persisters anew for each of them.  The Enable *)
(* calls of one loop are one step: a call looks at one end only.           *)
(***************************************************************************)
EXTENDS LabRPC

VARIABLES cur,                \* the instance cfg.endnames belongs to
          step, todo,         \* the operation under way, servers left to treat
          side                \* partition: one side

tester == <<cur, step, todo, side>>
vars == <<table, disks, callVars, tester>>

\* a Persister made anew for each start and each shutdown
Version == 0..(2 * MaxStarts)

EndsOf(s, i) == [owner : {s}, inst : {i}, to : Server]

\* after make_config: every server started once, ConnectAll; no clerk yet
Init ==
  /\ NetInit
  /\ ends = UNION {EndsOf(s, 1) : s \in Server}
  /\ enabled = ends
  /\ servers = [s \in Server |-> 1]
  /\ cur = [s \in Server |-> 1]
  /\ disk = [s \in Server |-> [v \in Version |-> {}]]
  /\ saved = [s \in Server |-> 0]
  /\ pers = [s \in Server |-> [i \in Instance |-> 0]]
  /\ step = "free" /\ todo = {} /\ side = {}

TypeOK ==
  /\ NetTypeOK
  /\ cur \in [Server -> Instance]
  /\ saved \in [Server -> Version]
  /\ pers \in [Server -> [Instance -> Version]]
  /\ disk \in [Server -> [Version -> SUBSET Call]]
  /\ step \in {"free", "delete", "save", "copy", "add", "wire"}
  /\ todo \subseteq Server /\ side \subseteq Server

----------------------------------------------------------------------------
(* Connections between servers.                                            *)

Outgoing(s, peers) == {[owner |-> s, inst |-> cur[s], to |-> t] : t \in peers}
Incoming(s, peers) == {[owner |-> t, inst |-> cur[t], to |-> s] : t \in peers}

\* connectUnlocked
Connecting(s, to) == Outgoing(s, to) \cup Incoming(s, to)

\* faulty variant: only the incoming ends are disabled
OnlyIncoming(s, from) == Incoming(s, from)

\* disconnectUnlocked
Disconnecting(s, from) == Outgoing(s, from) \cup Incoming(s, from)

Free == step = "free" /\ net = "up"
AllUp == \A s \in Server : servers[s] # None

Rewire(p1, p2) ==
  /\ Free /\ AllUp
  /\ step' = "wire" /\ side' = p1 /\ todo' = p1 \cup p2
  /\ UNCHANGED <<table, disks, callVars, cur>>

\* the tests partition and reconnect while all servers run
partition(p1) == Rewire(p1, Server \ p1)
ConnectAll == Rewire(Server, {})

\* one iteration of the loops of partition and ConnectAll
Wire(s) ==
  LET own == IF s \in side THEN side ELSE Server \ side IN
  /\ step = "wire" /\ s \in todo
  /\ Enable(Connecting(s, own), Disconnecting(s, Server \ own))
  /\ todo' = todo \ {s}
  /\ IF todo' = {} THEN step' = "free" /\ side' = {} ELSE UNCHANGED <<step, side>>
  /\ UNCHANGED <<ends, servers, net, disks, callVars, cur>>

----------------------------------------------------------------------------
(* ShutdownServer and StartServer.                                         *)

\* faulty variant: the old instance and the new one share a Persister
SamePersister(s) == saved[s]

\* saved[i].Copy()
FreshPersister(s) == saved[s] + 1

Copy(s) ==
  /\ saved' = [saved EXCEPT ![s] = FreshPersister(s)]
  /\ disk' = [disk EXCEPT ![s][FreshPersister(s)] = disk[s][saved[s]]]
  /\ UNCHANGED pers

\* faulty variant: the Persister is superseded while the server may still answer
CopyFirst(now) == [free |-> "save", save |-> "delete", delete |-> "free"][now]

\* disable client connections, then delete the server, then copy its state, and
\* kill it at last, which changes nothing here
ShutdownOrder(now) == [free |-> "delete", delete |-> "save", save |-> "free"][now]

\* the next step of an operation on server s
Continue(s, next) ==
  /\ step' = next
  /\ todo' = IF next = "free" THEN {} ELSE {s}
  /\ UNCHANGED side

ShutdownServer(s) ==
  /\ Free /\ servers[s] # None
  /\ Enable({}, Disconnecting(s, Server))
  /\ Continue(s, ShutdownOrder("free"))
  /\ UNCHANGED <<ends, servers, net, disks, callVars, cur>>

Delete(s) ==
  /\ step = "delete" /\ s \in todo
  /\ DeleteServer(s)
  /\ Continue(s, ShutdownOrder("delete"))
  /\ UNCHANGED <<ends, enabled, net, disks, callVars, cur>>

Save(s) ==
  /\ step = "save" /\ s \in todo
  /\ Copy(s)
  /\ Continue(s, ShutdownOrder("save"))
  /\ UNCHANGED <<table, callVars, cur>>

\* a fresh set of ends, not enabled, for the instance that is about to start; the
\* bound on the number of starts
StartServer(s) ==
  /\ Free /\ servers[s] = None /\ cur[s] < MaxStarts
  /\ cur' = [cur EXCEPT ![s] = @ + 1]
  /\ MakeEnds(EndsOf(s, cur[s] + 1))
  /\ Continue(s, "copy")
  /\ UNCHANGED <<enabled, servers, net, disks, callVars>>

CopySaved(s) ==
  /\ step = "copy" /\ s \in todo
  /\ Copy(s)
  /\ Continue(s, "add")
  /\ UNCHANGED <<table, callVars, cur>>

\* StartKVServer with saved[i], then AddServer
Add(s) ==
  /\ step = "add" /\ s \in todo
  /\ AddServer(s, cur[s])
  /\ pers' = [pers EXCEPT ![s][cur[s]] = saved[s]]
  /\ Continue(s, "free")
  /\ UNCHANGED <<ends, enabled, net, disk, saved, callVars, cur>>

----------------------------------------------------------------------------
(* Clerks and calls.                                                       *)

ClerkEnds(k, to) == [owner : {k}, inst : {1}, to : to]

\* cfg.mu is free: the tester is between operations, or in StartKVServer
Unlocked == step \in {"free", "add"}

makeClient(k, to) ==
  /\ Unlocked /\ ClerkEnds(k, Server) \cap ends = {}
  /\ MakeEnds(ClerkEnds(k, Server))
  /\ Enable(ClerkEnds(k, to), {})
  /\ UNCHANGED <<servers, net, disks, callVars, tester>>

ConnectClient(k, to) ==
  /\ Unlocked /\ ClerkEnds(k, Server) \subseteq ends
  /\ Enable(ClerkEnds(k, to), {})
  /\ UNCHANGED <<ends, servers, net, disks, callVars, tester>>

DisconnectClient(k, from) ==
  /\ Unlocked /\ ClerkEnds(k, Server) \subseteq ends
  /\ Enable({}, ClerkEnds(k, from))
  /\ UNCHANGED <<ends, servers, net, disks, callVars, tester>>

\* a clerk, or an instance of a server, whether it still runs or not, calls
Issue(c) == \E e \in ends : e.owner # e.to /\ Send(c, e) /\ UNCHANGED tester

cleanup == Free /\ Cleanup /\ UNCHANGED tester

Tester ==
  \/ \E s \in Server :
       \/ ShutdownServer(s) \/ Delete(s) \/ Save(s)
       \/ StartServer(s) \/ CopySaved(s) \/ Add(s)
       \/ Wire(s)
  \/ \E p1 \in SUBSET Server : partition(p1)
  \/ ConnectAll \/ cleanup

Clerks ==
  \E k \in Client, to \in SUBSET Server :
    makeClient(k, to) \/ ConnectClient(k, to) \/ DisconnectClient(k, to)

NetworkStep(c) == CallStep(c) /\ UNCHANGED tester
Handler(c) == (Execute(c) \/ Finish(c)) /\ UNCHANGED tester
Listen == StopListening /\ UNCHANGED tester

Next ==
  \/ Tester \/ Clerks \/ Listen
  \/ \E c \in Call : Issue(c) \/ NetworkStep(c) \/ Handler(c)

Spec == Init /\ [][Next]_vars

\* the goroutines of the network go on, and timers fire; the tester, the clients
\* and the handlers owe nothing
FairSpec == Spec /\ \A c \in Call : WF_vars(NetworkStep(c))

----------------------------------------------------------------------------
(* Properties.                                                             *)

Status(c) ==
  IF pc[c] \in {"idle", "true", "false"} THEN pc[c] ELSE "pending"

\* A call is executed at most once, and true is returned only after that, while
\* ends are disabled and enabled and servers replaced under processReq.
R == INSTANCE RemoteCall WITH status <- [c \in Call |-> Status(c)]
RemoteCallSpec == R!Spec

\* A client that gets a positive reply can rely on the update: it is in the
\* Persister from which the next instance of the server will start, although the
\* server may have been replaced since the request was dispatched.
PositiveReplyIsDurable ==
  \A c \in Call :
    pc[c] \in {"yes", "true"} =>
      LET s == end[c].to IN c \in disk[s][saved[s]]

\* The ends of an instance that was shut down stay disabled for ever, so it
\* cannot send, whatever partitions come later.
OldInstanceSilent ==
  \A e \in enabled :
    e.owner \in Server =>
      e.inst = cur[e.owner] /\ servers[e.owner] # None

\* An old instance whose handlers still run does not write to the Persister of
\* the instance that has taken its place.
OldInstanceWritesApart ==
  [][\A c \in Call :
       executed'[c] # executed[c] =>
         LET s == end[c].to IN
         inst[c] # cur[s] => disk'[s][saved[s]] = disk[s][saved[s]]]_vars

\* processReq waits for a handler that has not returned, in a server that has not
\* been replaced
Blocked(c) ==
  pc[c] = "waiting" /\ hpc[c] # "returned" /\ servers[end[c].to] = inst[c]

\* Call returns: it can be held up by a handler that does not return, and by
\* nothing else, and by that one only until its server is shut down.
CallReturns ==
  \A c \in Call : pc[c] # "idle" ~> pc[c] \in {"true", "false"} \/ Blocked(c)
=============================================================================
