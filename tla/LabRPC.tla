------------------------------- MODULE LabRPC -------------------------------
(***************************************************************************)
(* The simulated network of labrpc.go.  Call hands the request to the      *)
(* network, processReq looks up where it goes, runs the handler in another *)
(* goroutine and watches meanwhile whether the server is still there.      *)
(* The table of end points and servers changes under it: the tester        *)
(* enables and disables ends and replaces servers (KvTester).              *)
(*                                                                         *)
(* The network is unreliable and reorders replies: what a reliable one     *)
(* does is among its behaviours.  A handler saves its update with the      *)
(* Persister of its instance before it returns, as the handlers of Raft    *)
(* do; arguments and replies are left out.                                 *)
(***************************************************************************)
EXTENDS Naturals, FiniteSets

CONSTANTS Server,             \* server names
          Client,             \* clerks
          Call,               \* the calls that are made
          MaxStarts           \* bound: how often a server is started

\* every server is started at least once
ASSUME StartsAssumption == MaxStarts \in Nat \ {0}

\* the random names of the ends tell servers and clerks apart
ASSUME NamesAssumption == Server \cap Client = {}

None == 0                     \* no instance

\* instances of a server are numbered by StartServer; the ends of an instance,
\* and those of a clerk, have names of their own
Instance == 1..MaxStarts
End == [owner : Server, inst : Instance, to : Server]
       \cup [owner : Client, inst : {1}, to : Server]

VARIABLES
  ends, enabled,              \* Network.ends, Network.enabled
  servers,                    \* Network.servers: the instance, or None
  net,                        \* the network: up, closing (Cleanup) or down
  pc, end, inst,              \* a call: control, ClientEnd, server of the call
  hpc,                        \* the goroutine that runs the handler
  executed,                   \* how often the handler ran
  disk,                       \* what each Persister holds
  saved, pers                 \* the tester's Persister, those of the instances

table == <<ends, enabled, servers, net>>
disks == <<disk, saved, pers>>
callVars == <<pc, end, inst, hpc, executed>>

Steps == {"idle", "sent", "admitted", "waiting", "answered", "dead", "yes", "no",
          "true", "false"}

NetTypeOK ==
  /\ enabled \subseteq ends /\ ends \subseteq End
  /\ servers \in [Server -> Instance \cup {None}]
  /\ net \in {"up", "closing", "down"}
  /\ pc \in [Call -> Steps]
  /\ hpc \in [Call -> {"none", "running", "saved", "returned"}]
  /\ end \in [Call -> End] /\ inst \in [Call -> Instance \cup {None}]
  /\ executed \in [Call -> Nat]

\* MakeNetwork, before the first end and the first server
NetInit ==
  /\ net = "up"
  /\ pc = [c \in Call |-> "idle"]
  /\ end = [c \in Call |-> CHOOSE e \in End : TRUE]
  /\ inst = [c \in Call |-> None]
  /\ hpc = [c \in Call |-> "none"]
  /\ executed = [c \in Call |-> 0]

Move(c, from, to) == pc[c] = from /\ pc' = [pc EXCEPT ![c] = to]

----------------------------------------------------------------------------
(* ClientEnd.Call.                                                         *)

\* e.ch <- req, or <-e.done once the network is being destroyed; both may happen
\* as long as the goroutine of MakeNetwork has not seen rn.done itself
Send(c, e) ==
  /\ \/ net # "down" /\ Move(c, "idle", "sent")
     \/ net # "up" /\ Move(c, "idle", "false")
  /\ end' = [end EXCEPT ![c] = e]
  /\ UNCHANGED <<table, disks, inst, hpc, executed>>

\* rep := <-req.replyCh
Receive(c) ==
  /\ Move(c, "yes", "true") \/ Move(c, "no", "false")
  /\ UNCHANGED <<table, disks, end, inst, hpc, executed>>

----------------------------------------------------------------------------
(* processReq.                                                             *)

\* readEndnameInfo: the server of the end, if there is one and the end is
\* enabled; else the reply is a late failure
Lookup(c) ==
  LET s == servers[end[c].to] IN
  /\ IF end[c] \in enabled /\ s # None
     THEN Move(c, "sent", "admitted") /\ inst' = [inst EXCEPT ![c] = s]
     ELSE Move(c, "sent", "no") /\ UNCHANGED inst
  /\ UNCHANGED <<table, disks, end, hpc, executed>>

\* after the short delay the request is dropped, or dispatched to the server that
\* was looked up before it
Dispatch(c) ==
  /\ \/ Move(c, "admitted", "no") /\ UNCHANGED hpc
     \/ Move(c, "admitted", "waiting") /\ hpc' = [hpc EXCEPT ![c] = "running"]
  /\ UNCHANGED <<table, disks, end, inst, executed>>

\* faulty variant: the server is not looked at
DeadIfDisabled(c) == end[c] \notin enabled

isServerDead(c) == end[c] \notin enabled \/ servers[end[c].to] # inst[c]

\* the handler answers, or the server is gone at one of the looks at it
Wait(c) ==
  /\ \/ Move(c, "waiting", "answered") /\ hpc[c] = "returned"
     \/ Move(c, "waiting", "dead") /\ isServerDead(c)
  /\ UNCHANGED <<table, disks, end, inst, hpc, executed>>

\* faulty variant: that the handler has answered is taken for granted
AliveNow(c) == ~isServerDead(c)

\* replyOK == true and serverDead == false
MayReply(c) == pc[c] = "answered" /\ ~isServerDead(c)

\* the last look at the server; the reply may be dropped, or take its time
Reply(c) ==
  /\ pc[c] \in {"answered", "dead"}
  /\ \E to \in {"no"} \cup (IF MayReply(c) THEN {"yes"} ELSE {}) :
       pc' = [pc EXCEPT ![c] = to]
  /\ UNCHANGED <<table, disks, end, inst, hpc, executed>>

----------------------------------------------------------------------------
(* Server.dispatch, in its own goroutine.                                  *)

\* the handler: persist() of the instance the request was dispatched to
Execute(c) ==
  /\ hpc[c] = "running"
  /\ LET s == end[c].to
         p == pers[s][inst[c]]
     IN disk' = [disk EXCEPT ![s][p] = @ \cup {c}]
  /\ executed' = [executed EXCEPT ![c] = @ + 1]
  /\ hpc' = [hpc EXCEPT ![c] = "saved"]
  /\ UNCHANGED <<table, saved, pers, pc, end, inst>>

\* the handler returns; some never do
Finish(c) ==
  /\ hpc[c] = "saved"
  /\ hpc' = [hpc EXCEPT ![c] = "returned"]
  /\ UNCHANGED <<table, disks, pc, end, inst, executed>>

CallStep(c) == Receive(c) \/ Lookup(c) \/ Dispatch(c) \/ Wait(c) \/ Reply(c)

----------------------------------------------------------------------------
(* The table, each operation under the lock of the network.                *)

MakeEnds(es) == ends' = ends \cup es

\* Enable(endname, true) for the ends of the first set, false for the second
Enable(on, off) == enabled' = (enabled \cup on) \ off

AddServer(s, i) == servers' = [servers EXCEPT ![s] = i]

DeleteServer(s) == servers' = [servers EXCEPT ![s] = None]

Cleanup ==
  /\ net = "up" /\ net' = "closing"
  /\ UNCHANGED <<ends, enabled, servers, disks, callVars>>

\* the goroutine of MakeNetwork receives from rn.done and returns
StopListening ==
  /\ net = "closing" /\ net' = "down"
  /\ UNCHANGED <<ends, enabled, servers, disks, callVars>>
=============================================================================
