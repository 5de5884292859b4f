--------------------------- MODULE KvTesterProofs ---------------------------
(***************************************************************************)
(* Proofs about the tester and the network under it, for any number of     *)
(* servers, clerks, calls and restarts: the network implements RemoteCall, *)
(* a positive reply is durable, old instances are silent and write apart.  *)
(***************************************************************************)
EXTENDS KvTester, TLAPS

\* the tester is at one of these steps of an operation on s
Doing(s, steps) == step \in steps /\ s \in todo

\* the goroutine of a call and that of its handler
CallInv ==
  /\ pc \in [Call -> Steps]
  /\ hpc \in [Call -> {"none", "running", "saved", "returned"}]
  /\ executed \in [Call -> Nat]
  /\ \A c \in Call :
       /\ pc[c] \in {"idle", "sent", "admitted"} => hpc[c] = "none"
       /\ hpc[c] \in {"none", "running"} => executed[c] = 0
       /\ hpc[c] \in {"saved", "returned"} => executed[c] = 1
       /\ pc[c] \in {"answered", "yes", "true"} => hpc[c] = "returned"

\* the network knows the newest instance of a server or none, and which of the
\* two follows from how far the tester has come
TableInv ==
  /\ ends \subseteq End /\ side \subseteq Server
  /\ cur \in [Server -> Instance]
  /\ servers \in [Server -> Instance \cup {None}]
  /\ IF step = "wire" THEN AllUp ELSE \A s, t \in todo : s = t
  /\ \A s \in Server :
       /\ servers[s] # None => servers[s] = cur[s] /\ ~Doing(s, {"save", "copy", "add"})
       /\ servers[s] = None => ~Doing(s, {"delete"})

\* the ends of a server are disabled before it is deleted
SilentInv ==
  \A e \in enabled :
    /\ e \in End
    /\ e.owner \in Server => /\ e.inst = cur[e.owner]
                             /\ servers[e.owner] # None
                             /\ ~Doing(e.owner, {"delete"})

\* persisters are numbered in the order in which they are made: the tester's is
\* the last, a running server has the same one, an old instance an older one
Numbered(s) ==
  /\ saved[s] < 2 * cur[s]
  /\ servers[s] # None \/ Doing(s, {"save", "add"}) => saved[s] + 1 < 2 * cur[s]
  /\ Doing(s, {"copy"}) => saved[s] + 2 < 2 * cur[s]
  /\ servers[s] # None => pers[s][cur[s]] = saved[s]
  /\ \A i \in Instance :
       /\ pers[s][i] <= saved[s]
       /\ i < cur[s] => pers[s][i] < saved[s]
       /\ i > cur[s] => pers[s][i] = 0
       /\ i = cur[s] /\ servers[s] = None /\ ~Doing(s, {"save"}) =>
            pers[s][i] < saved[s]

PersInv ==
  /\ saved \in [Server -> Nat]
  /\ pers \in [Server -> [Instance -> Nat]]
  /\ \A s \in Server : Numbered(s)

\* a call knows an instance that has been started, and what its handler has saved
\* is in the Persister of that instance
DiskInv ==
  /\ disk \in [Server -> [Version -> SUBSET Call]]
  /\ inst \in [Call -> Instance \cup {None}]
  /\ end = [c \in Call |-> end[c]]
  /\ \A c \in Call :
       LET s == end[c].to IN
       /\ pc[c] # "idle" => s \in Server
       /\ pc[c] \in {"idle", "sent"} => inst[c] = None
       /\ pc[c] = "admitted" \/ hpc[c] # "none" => inst[c] # None
       /\ inst[c] # None => /\ inst[c] <= cur[s]
                            /\ inst[c] = cur[s] => ~Doing(s, {"copy", "add"})
       /\ hpc[c] \in {"saved", "returned"} => c \in disk[s][pers[s][inst[c]]]
       /\ pc[c] \in {"yes", "true"} => c \in disk[s][saved[s]]

IndInv == CallInv /\ TableInv /\ SilentInv /\ PersInv /\ DiskInv

----------------------------------------------------------------------------
(* Who changes what.                                                       *)

\* ShutdownServer deletes the server before it copies the Persister.
LEMMA Order ==
  /\ ShutdownOrder("free") = "delete"
  /\ ShutdownOrder("delete") = "save"
  /\ ShutdownOrder("save") = "free"
  BY DEF ShutdownOrder

\* The steps of the tester and of the clerks leave the calls alone.
LEMMA TesterLeavesCalls == Tester \/ Clerks \/ Listen => UNCHANGED callVars
<1>1. ASSUME NEW s \in Server PROVE
        ShutdownServer(s) \/ Delete(s) \/ Save(s) \/ StartServer(s) \/ CopySaved(s)
        \/ Add(s) \/ Wire(s) => UNCHANGED callVars
  BY DEF ShutdownServer, Delete, Save, StartServer, CopySaved, Add, Wire
<1>2. ASSUME NEW p1 \in SUBSET Server PROVE partition(p1) => UNCHANGED callVars
  BY DEF partition, Rewire
<1>3. ConnectAll \/ cleanup \/ Listen => UNCHANGED callVars
  BY DEF ConnectAll, Rewire, cleanup, Cleanup, Listen, StopListening
<1>4. Clerks => UNCHANGED callVars
  BY DEF Clerks, makeClient, ConnectClient, DisconnectClient
<1> QED
  BY <1>1, <1>2, <1>3, <1>4 DEF Tester

\* The steps of calls and handlers leave the tester, the table of the network and
\* the choice of persisters alone.
LEMMA CallsLeaveTester ==
  ASSUME NEW c \in Call, Issue(c) \/ NetworkStep(c) \/ Handler(c)
  PROVE UNCHANGED <<table, saved, pers, tester>>
<1>1. CASE Issue(c)
  BY <1>1 DEF Issue, Send, disks
<1>2. CASE NetworkStep(c)
  BY <1>2 DEF NetworkStep, CallStep, Receive, Lookup, Dispatch, Wait, Reply, disks
<1>3. CASE Handler(c)
  BY <1>3 DEF Handler, Execute, Finish, disks
<1> QED
  BY <1>1, <1>2, <1>3

\* Clerks, and the end of the network, change only the ends and net.
LEMMA ClerksLeaveServers ==
  ASSUME Clerks \/ Listen \/ cleanup
  PROVE UNCHANGED <<servers, disks, callVars, tester>>
  BY DEF Clerks, makeClient, ConnectClient, DisconnectClient, Listen, StopListening,
         cleanup, Cleanup

----------------------------------------------------------------------------
(* Restarts.                                                               *)

\* The operations of the tester keep the table in step with the instances.
LEMMA TableInvStep == ASSUME TableInv, [Next]_vars PROVE TableInv'
<1>1. CASE UNCHANGED <<table, tester>>
  BY <1>1 DEF TableInv, AllUp, Doing, table, tester
<1>2. ASSUME NEW s \in Server, ShutdownServer(s) PROVE TableInv'
  BY <1>2, Order DEF TableInv, AllUp, Doing, ShutdownServer, Continue, Free
<1>3. ASSUME NEW s \in Server, Delete(s) PROVE TableInv'
  BY <1>3, Order DEF TableInv, AllUp, Doing, Delete, DeleteServer, Continue, None
<1>4. ASSUME NEW s \in Server, Save(s) PROVE TableInv'
  BY <1>4, Order DEF TableInv, AllUp, Doing, Save, Continue, table
<1>5. ASSUME NEW s \in Server, StartServer(s) PROVE TableInv'
  <2>1. EndsOf(s, cur[s] + 1) \subseteq End /\ cur[s] + 1 \in Instance
    BY <1>5, StartsAssumption DEF TableInv, StartServer, EndsOf, End, Instance
  <2> QED
    BY <1>5, <2>1 DEF TableInv, AllUp, Doing, StartServer, MakeEnds, Continue, Free
<1>6. ASSUME NEW s \in Server, CopySaved(s) PROVE TableInv'
  BY <1>6 DEF TableInv, AllUp, Doing, CopySaved, Continue, table
<1>7. ASSUME NEW s \in Server, Add(s) PROVE TableInv'
  BY <1>7 DEF TableInv, AllUp, Doing, Add, AddServer, Continue
<1>8. ASSUME NEW s \in Server, Wire(s) PROVE TableInv'
  BY <1>8 DEF TableInv, AllUp, Doing, Wire
<1>9. ASSUME NEW p1 \in SUBSET Server, NEW p2, Rewire(p1, p2) PROVE TableInv'
  BY <1>9 DEF TableInv, AllUp, Doing, Rewire, Free, table
<1>10. CASE Clerks \/ Listen \/ cleanup
  <2>1. UNCHANGED <<servers, tester>>
    BY <1>10, ClerksLeaveServers
  <2>2. ends' \subseteq End
    <3>1. ASSUME NEW k \in Client PROVE ClerkEnds(k, Server) \subseteq End
      BY DEF ClerkEnds, End
    <3> QED
      BY <1>10, <3>1 DEF TableInv, Clerks, makeClient, ConnectClient, DisconnectClient,
         Listen, StopListening, cleanup, Cleanup, MakeEnds
  <2> QED
    BY <2>1, <2>2 DEF TableInv, AllUp, Doing, tester
<1>11. ASSUME NEW c \in Call, Issue(c) \/ NetworkStep(c) \/ Handler(c)
       PROVE UNCHANGED <<table, tester>>
  BY <1>11, CallsLeaveTester
<1> QED
  BY <1>1, <1>2, <1>3, <1>4, <1>5, <1>6, <1>7, <1>8, <1>9, <1>10, <1>11
  DEF Next, Tester, partition, ConnectAll, vars, tester

\* Only ends of running servers are enabled, and those of a server are disabled
\* before it is deleted.
LEMMA SilentInvStep == ASSUME TableInv, SilentInv, [Next]_vars PROVE SilentInv'
<1>1. CASE UNCHANGED <<table, tester>>
  BY <1>1 DEF SilentInv, Doing, table, tester
<1>2. ASSUME NEW s \in Server, ShutdownServer(s) PROVE SilentInv'
  <2>1. enabled' = enabled \ Disconnecting(s, Server)
    BY <1>2 DEF ShutdownServer, Enable
  <2>2. ASSUME NEW e \in enabled', e.owner = s PROVE FALSE
    <3>1. e = [owner |-> s, inst |-> cur[s], to |-> e.to] /\ e.to \in Server
      BY <2>1, <2>2 DEF SilentInv, End
    <3> QED
      BY <2>1, <3>1 DEF Disconnecting, Outgoing
  <2> QED
    BY <1>2, <2>1, <2>2, Order DEF SilentInv, Doing, ShutdownServer, Continue
<1>3. ASSUME NEW s \in Server, Delete(s) PROVE SilentInv'
  BY <1>3, Order DEF TableInv, SilentInv, Doing, Delete, DeleteServer, Continue
<1>4. ASSUME NEW s \in Server, Save(s) PROVE SilentInv'
  BY <1>4, Order DEF SilentInv, Doing, Save, Continue, table
<1>5. ASSUME NEW s \in Server, StartServer(s) PROVE SilentInv'
  BY <1>5 DEF TableInv, SilentInv, Doing, StartServer, Continue
<1>6. ASSUME NEW s \in Server, CopySaved(s) PROVE SilentInv'
  BY <1>6 DEF SilentInv, Doing, CopySaved, Continue, table
<1>7. ASSUME NEW s \in Server, Add(s) PROVE SilentInv'
  BY <1>7 DEF TableInv, SilentInv, Doing, Add, AddServer, Continue, None, Instance
<1>8. ASSUME NEW s \in Server, Wire(s) PROVE SilentInv'
  <2> DEFINE own == IF s \in side THEN side ELSE Server \ side
  <2>1. enabled' \subseteq enabled \cup Connecting(s, own)
    BY <1>8 DEF Wire, Enable
  <2>2. ASSUME NEW e \in Connecting(s, own) PROVE e \in End /\ e.inst = cur[e.owner]
    BY <2>2 DEF TableInv, Connecting, Outgoing, Incoming, End
  <2> QED
    BY <1>8, <2>1, <2>2 DEF TableInv, SilentInv, AllUp, Doing, Wire
<1>9. ASSUME NEW p1 \in SUBSET Server, NEW p2, Rewire(p1, p2) PROVE SilentInv'
  BY <1>9 DEF SilentInv, Doing, Rewire, table
<1>10. CASE Clerks \/ Listen \/ cleanup
  <2>1. UNCHANGED <<servers, tester>>
    BY <1>10, ClerksLeaveServers
  <2>2. ASSUME NEW e \in enabled' PROVE e \in enabled \/ (e \in End /\ e.owner \notin Server)
    <3>1. ASSUME NEW k \in Client, NEW to \in SUBSET Server, e \in ClerkEnds(k, to)
          PROVE e \in End /\ e.owner \notin Server
      BY <3>1, NamesAssumption DEF ClerkEnds, End
    <3> QED
      BY <1>10, <2>2, <3>1 DEF Clerks, makeClient, ConnectClient, DisconnectClient,
         Listen, StopListening, cleanup, Cleanup, Enable
  <2> QED
    BY <2>1, <2>2 DEF SilentInv, Doing, tester
<1>11. ASSUME NEW c \in Call, Issue(c) \/ NetworkStep(c) \/ Handler(c)
       PROVE UNCHANGED <<table, tester>>
  BY <1>11, CallsLeaveTester
<1> QED
  BY <1>1, <1>2, <1>3, <1>4, <1>5, <1>6, <1>7, <1>8, <1>9, <1>10, <1>11
  DEF Next, Tester, partition, ConnectAll, vars, tester

----------------------------------------------------------------------------
(* Persisters.                                                             *)

\* The numbers below twice that of an instance are numbers of persisters.
LEMMA VersionRange ==
  ASSUME NEW v \in Nat, NEW w \in Nat, NEW i \in Instance, v <= w, w < 2 * i
  PROVE  v \in Version
  BY StartsAssumption DEF Version, Instance

\* Every Copy makes a Persister that no instance has, within the numbers there
\* are, and what the old one held is in it.
LEMMA CopyIsFresh ==
  ASSUME IndInv, NEW s \in Server, step \in {"save", "copy"}, s \in todo, Copy(s)
  PROVE  /\ saved[s] \in Version /\ saved[s] + 1 \in Version
         /\ saved' = [saved EXCEPT ![s] = saved[s] + 1]
         /\ disk' = [disk EXCEPT ![s] = [disk[s] EXCEPT ![saved[s] + 1] = disk[s][saved[s]]]]
         /\ pers' = pers
<1>1. saved[s] \in Nat /\ saved[s] + 1 < 2 * cur[s] /\ cur[s] \in Instance
  <2>1. saved[s] \in Nat /\ cur[s] \in Instance /\ Numbered(s)
    BY DEF IndInv, PersInv, TableInv
  <2> QED
    BY <2>1 DEF Numbered, Doing, Instance
<1>2. saved[s] \in Version /\ saved[s] + 1 \in Version
  <2>1. saved[s] + 1 \in Nat /\ saved[s] <= saved[s] + 1 /\ saved[s] + 1 <= saved[s] + 1
    BY <1>1
  <2> QED
    BY <1>1, <2>1, VersionRange, Zenon
<1> QED
  BY <1>2 DEF Copy, FreshPersister

\* An operation on one server leaves the numbers of the others as they are.
LEMMA OthersNumbered ==
  ASSUME TableInv, PersInv, NEW s \in Server, NEW t \in Server, t # s,
         UNCHANGED <<saved[t], cur[t], servers[t], pers[t]>>,
         step = "free" \/ (s \in todo /\ step # "wire"),
         todo' \subseteq {s}
  PROVE  Numbered(t)'
<1>1. Numbered(t)
  BY DEF PersInv
<1>2. \A steps : "free" \notin steps => ~Doing(t, steps) /\ ~Doing(t, steps)'
  BY DEF TableInv, Doing
<1> QED
  BY <1>1, <1>2 DEF Numbered

\* The numbers of the persisters grow with every copy.
LEMMA PersInvStep == ASSUME IndInv, [Next]_vars PROVE PersInv'
<1> USE DEF None
<1>0. TableInv /\ PersInv
  BY DEF IndInv
<1>1. CASE UNCHANGED <<servers, saved, pers, tester>>
  BY <1>0, <1>1 DEF PersInv, Numbered, Doing, tester
<1>t. ASSUME NEW s \in Server PROVE
        /\ Numbered(s) /\ cur[s] \in Instance /\ cur[s] \in Nat /\ saved[s] \in Nat
        /\ pers[s] \in [Instance -> Nat]
        /\ \A i \in Instance : i \in Nat /\ pers[s][i] \in Nat
        /\ servers[s] # None => servers[s] = cur[s] /\ ~Doing(s, {"save", "copy", "add"})
        /\ servers[s] = None => ~Doing(s, {"delete"})
  BY <1>0, StartsAssumption DEF TableInv, PersInv, Instance
<1>2. ASSUME NEW s \in Server, ShutdownServer(s) PROVE PersInv'
  <2>1. /\ step = "free" /\ servers[s] # None /\ step' = "delete" /\ todo' = {s}
        /\ UNCHANGED <<servers, saved, pers, cur>>
    BY <1>2, Order DEF ShutdownServer, Continue, Free, disks
  <2>2. /\ saved' \in [Server -> Nat] /\ pers' \in [Server -> [Instance -> Nat]]
        /\ \A t \in Server \ {s} : UNCHANGED <<saved[t], cur[t], servers[t], pers[t]>>
    BY <1>0, <1>t, <2>1 DEF TableInv, PersInv
  <2>3. Numbered(s)'
    BY <1>0, <1>t, <2>1 DEF TableInv, PersInv, Numbered, Doing, Instance
  <2> QED
    BY <1>0, <2>1, <2>2, <2>3, OthersNumbered DEF PersInv
<1>3. ASSUME NEW s \in Server, Delete(s) PROVE PersInv'
  <2>1. /\ step = "delete" /\ s \in todo /\ step' = "save" /\ todo' = {s}
        /\ servers' = [servers EXCEPT ![s] = None] /\ UNCHANGED <<saved, pers, cur>>
    BY <1>3, Order DEF Delete, DeleteServer, Continue, disks
  <2>2. /\ saved' \in [Server -> Nat] /\ pers' \in [Server -> [Instance -> Nat]]
        /\ \A t \in Server \ {s} : UNCHANGED <<saved[t], cur[t], servers[t], pers[t]>>
    BY <1>0, <1>t, <2>1 DEF TableInv, PersInv
  <2>3. Numbered(s)'
    BY <1>0, <1>t, <2>1 DEF TableInv, PersInv, Numbered, Doing, Instance
  <2> QED
    BY <1>0, <2>1, <2>2, <2>3, OthersNumbered DEF PersInv
<1>4. ASSUME NEW s \in Server, Save(s) PROVE PersInv'
  <2>1. /\ step = "save" /\ s \in todo /\ step' = "free" /\ todo' = {}
        /\ saved' = [saved EXCEPT ![s] = saved[s] + 1] /\ UNCHANGED <<servers, pers, cur>>
    BY <1>4, Order, CopyIsFresh DEF Save, Continue, table
  <2>2. /\ saved' \in [Server -> Nat] /\ pers' \in [Server -> [Instance -> Nat]]
        /\ \A t \in Server \ {s} : UNCHANGED <<saved[t], cur[t], servers[t], pers[t]>>
    BY <1>0, <1>t, <2>1 DEF TableInv, PersInv
  <2>3. Numbered(s)'
    <3>1. /\ saved'[s] = saved[s] + 1 /\ pers'[s] = pers[s] /\ cur'[s] = cur[s]
          /\ servers'[s] = None /\ saved[s] + 1 < 2 * cur[s]
      BY <1>0, <1>t, <2>1 DEF TableInv, PersInv, Numbered, Doing
    <3>2. ~Doing(s, {"save", "add"})' /\ ~Doing(s, {"copy"})'
      BY <2>1 DEF Doing
    <3>3. ASSUME NEW i \in Instance
          PROVE /\ pers'[s][i] <= saved'[s]
                /\ i < cur'[s] => pers'[s][i] < saved'[s]
                /\ i > cur'[s] => pers'[s][i] = 0
                /\ i = cur'[s] => pers'[s][i] < saved'[s]
      BY <1>t, <3>1 DEF Numbered
    <3> QED
      BY <1>t, <3>1, <3>2, <3>3 DEF Numbered
  <2> QED
    BY <1>0, <2>1, <2>2, <2>3, OthersNumbered DEF PersInv
<1>5. ASSUME NEW s \in Server, StartServer(s) PROVE PersInv'
  <2>1. /\ step = "free" /\ servers[s] = None /\ step' = "copy" /\ todo' = {s}
        /\ cur[s] < MaxStarts /\ cur' = [cur EXCEPT ![s] = @ + 1]
        /\ UNCHANGED <<servers, saved, pers>>
    BY <1>5 DEF StartServer, Continue, Free, disks
  <2>2. /\ saved' \in [Server -> Nat] /\ pers' \in [Server -> [Instance -> Nat]]
        /\ \A t \in Server \ {s} : UNCHANGED <<saved[t], cur[t], servers[t], pers[t]>>
    BY <1>0, <1>t, <2>1 DEF TableInv, PersInv
  <2>3. Numbered(s)'
    <3>1. /\ saved'[s] = saved[s] /\ pers'[s] = pers[s] /\ cur'[s] = cur[s] + 1
          /\ servers'[s] = None /\ servers[s] = None /\ ~Doing(s, {"save"})
      BY <1>0, <1>t, <2>1 DEF TableInv, PersInv, Numbered, Doing
    <3>2. ~Doing(s, {"save", "add"})'
      BY <2>1 DEF Doing
    <3>3. ASSUME NEW i \in Instance
          PROVE /\ pers'[s][i] <= saved'[s]
                /\ i < cur'[s] => pers'[s][i] < saved'[s]
                /\ i > cur'[s] => pers'[s][i] = 0
                /\ i = cur'[s] => pers'[s][i] < saved'[s]
      BY <1>t, <3>1 DEF Numbered
    <3> QED
      BY <1>t, <3>1, <3>2, <3>3 DEF Numbered
  <2> QED
    BY <1>0, <2>1, <2>2, <2>3, OthersNumbered DEF PersInv
<1>6. ASSUME NEW s \in Server, CopySaved(s) PROVE PersInv'
  <2>1. /\ step = "copy" /\ s \in todo /\ step' = "add" /\ todo' = {s}
        /\ saved' = [saved EXCEPT ![s] = saved[s] + 1] /\ UNCHANGED <<servers, pers, cur>>
    BY <1>6, CopyIsFresh DEF CopySaved, Continue, table
  <2>2. /\ saved' \in [Server -> Nat] /\ pers' \in [Server -> [Instance -> Nat]]
        /\ \A t \in Server \ {s} : UNCHANGED <<saved[t], cur[t], servers[t], pers[t]>>
    BY <1>0, <1>t, <2>1 DEF TableInv, PersInv
  <2>3. Numbered(s)'
    <3>1. /\ saved'[s] = saved[s] + 1 /\ pers'[s] = pers[s] /\ cur'[s] = cur[s]
          /\ servers'[s] = None /\ saved[s] + 2 < 2 * cur[s] /\ ~Doing(s, {"save"})
      BY <1>0, <1>t, <2>1 DEF TableInv, PersInv, Numbered, Doing
    <3>2. ~Doing(s, {"copy"})'
      BY <2>1 DEF Doing
    <3>3. ASSUME NEW i \in Instance
          PROVE /\ pers'[s][i] <= saved'[s]
                /\ i < cur'[s] => pers'[s][i] < saved'[s]
                /\ i > cur'[s] => pers'[s][i] = 0
                /\ i = cur'[s] => pers'[s][i] < saved'[s]
      BY <1>t, <3>1 DEF Numbered
    <3> QED
      BY <1>t, <3>1, <3>2, <3>3 DEF Numbered
  <2> QED
    BY <1>0, <2>1, <2>2, <2>3, OthersNumbered DEF PersInv
<1>7. ASSUME NEW s \in Server, Add(s) PROVE PersInv'
  <2>1. /\ step = "add" /\ s \in todo /\ step' = "free" /\ todo' = {}
        /\ pers' = [pers EXCEPT ![s] = [pers[s] EXCEPT ![cur[s]] = saved[s]]]
        /\ servers' = [servers EXCEPT ![s] = cur[s]] /\ UNCHANGED <<saved, cur>>
    BY <1>7 DEF Add, AddServer, Continue
  <2>2. /\ saved' \in [Server -> Nat] /\ pers' \in [Server -> [Instance -> Nat]]
        /\ \A t \in Server \ {s} : UNCHANGED <<saved[t], cur[t], servers[t], pers[t]>>
    BY <1>0, <1>t, <2>1 DEF TableInv, PersInv
  <2>3. Numbered(s)'
    <3>1. /\ saved'[s] = saved[s] /\ pers'[s] = [pers[s] EXCEPT ![cur[s]] = saved[s]]
          /\ cur'[s] = cur[s] /\ servers'[s] = cur[s] /\ saved[s] + 1 < 2 * cur[s]
      BY <1>0, <1>t, <2>1 DEF TableInv, PersInv, Numbered, Doing
    <3>2. ~Doing(s, {"copy"})'
      BY <2>1 DEF Doing
    <3>3. ASSUME NEW i \in Instance
          PROVE /\ pers'[s][i] <= saved'[s]
                /\ i < cur'[s] => pers'[s][i] < saved'[s]
                /\ i > cur'[s] => pers'[s][i] = 0
      BY <1>t, <3>1 DEF Numbered
    <3> QED
      BY <1>t, <3>1, <3>2, <3>3 DEF Numbered
  <2> QED
    BY <1>0, <2>1, <2>2, <2>3, OthersNumbered DEF PersInv
<1>8. ASSUME NEW s \in Server, Wire(s) PROVE PersInv'
  BY <1>0, <1>8 DEF PersInv, Numbered, Doing, Wire, disks
<1>9. ASSUME NEW p1 \in SUBSET Server, NEW p2, Rewire(p1, p2) PROVE PersInv'
  BY <1>0, <1>9 DEF PersInv, Numbered, Doing, Rewire, Free, disks, table
<1>10. CASE Clerks \/ Listen \/ cleanup
  BY <1>1, <1>10, ClerksLeaveServers DEF disks
<1>11. ASSUME NEW c \in Call, Issue(c) \/ NetworkStep(c) \/ Handler(c) PROVE PersInv'
  BY <1>1, <1>11, CallsLeaveTester DEF table
<1> QED
  BY <1>1, <1>2, <1>3, <1>4, <1>5, <1>6, <1>7, <1>8, <1>9, <1>10, <1>11
  DEF Next, Tester, partition, ConnectAll, vars, table, disks

\* What a handler has saved stays in the Persister of its instance, and what was
\* answered goes on into every later one: the steps of the tester.
LEMMA DiskInvTester == ASSUME IndInv, Tester \/ Clerks \/ Listen PROVE DiskInv'
<1> USE DEF None
<1>0. TableInv /\ PersInv /\ DiskInv
  BY DEF IndInv
<1>1. UNCHANGED <<pc, end, inst, hpc>>
  BY TesterLeavesCalls DEF callVars
<1>2. ASSUME NEW c \in Call PROVE /\ hpc[c] # "none" => end[c].to \in Server
                                 /\ inst[c] # None => end[c].to \in Server
  BY DEF IndInv, CallInv, DiskInv
<1>3. ASSUME UNCHANGED <<disk, saved, pers, cur>>,
             \A s \in Server : ~Doing(s, {"copy", "add"})'
      PROVE DiskInv'
  BY <1>0, <1>1, <1>2, <1>3 DEF DiskInv
<1>4. ASSUME NEW s \in Server, step \in {"save", "copy"}, s \in todo, Copy(s),
             UNCHANGED cur,
             \A t \in Server : Doing(t, {"copy", "add"})' => Doing(t, {"copy", "add"})
      PROVE DiskInv'
  <2>1. /\ saved[s] \in Version /\ saved[s] + 1 \in Version
        /\ saved' = [saved EXCEPT ![s] = saved[s] + 1]
        /\ disk' = [disk EXCEPT ![s] = [disk[s] EXCEPT ![saved[s] + 1] = disk[s][saved[s]]]]
        /\ pers' = pers
    BY <1>4, CopyIsFresh
  <2>2. disk' \in [Server -> [Version -> SUBSET Call]]
    BY <1>0, <2>1 DEF DiskInv
  <2>3. ASSUME NEW c \in Call, hpc[c] \in {"saved", "returned"}
        PROVE c \in disk'[end[c].to][pers[end[c].to][inst[c]]]
    <3>1. /\ end[c].to \in Server /\ inst[c] \in Instance
          /\ c \in disk[end[c].to][pers[end[c].to][inst[c]]]
      BY <1>0, <1>2, <2>3 DEF DiskInv
    <3>2. pers[end[c].to][inst[c]] \in Nat /\ pers[end[c].to][inst[c]] <= saved[end[c].to]
          /\ saved[end[c].to] \in Nat
      BY <1>0, <3>1 DEF PersInv, Numbered
    <3>3. end[c].to = s => pers[end[c].to][inst[c]] # saved[s] + 1
      BY <3>2
    <3> QED
      <4>1. CASE end[c].to = s
        <5>1. disk[s] \in [Version -> SUBSET Call]
          BY <1>0, <1>4 DEF DiskInv
        <5>2. disk'[s] = [disk[s] EXCEPT ![saved[s] + 1] = disk[s][saved[s]]]
          BY <1>0, <1>4, <2>1 DEF DiskInv
        <5>3. pers[s][inst[c]] \in Version
          BY <2>1, <3>2, <4>1, StartsAssumption DEF Version
        <5> QED
          BY <3>1, <3>3, <4>1, <5>1, <5>2, <5>3
      <4>2. CASE end[c].to # s
        <5>1. disk'[end[c].to] = disk[end[c].to]
          BY <1>0, <2>1, <3>1, <4>2 DEF DiskInv
        <5> QED
          BY <3>1, <5>1
      <4> QED
        BY <4>1, <4>2
  <2>4. ASSUME NEW c \in Call, pc[c] \in {"yes", "true"}
        PROVE c \in disk'[end[c].to][saved'[end[c].to]]
    BY <1>0, <2>1, <2>4 DEF DiskInv, PersInv
  <2> QED
    BY <1>0, <1>1, <1>2, <1>4, <2>1, <2>2, <2>3, <2>4 DEF DiskInv
<1>5. ASSUME NEW s \in Server, ShutdownServer(s) PROVE DiskInv'
  BY <1>3, <1>5, Order DEF ShutdownServer, Continue, Doing, disks
<1>6. ASSUME NEW s \in Server, Delete(s) PROVE DiskInv'
  BY <1>3, <1>6, Order DEF Delete, Continue, Doing, disks
<1>7. ASSUME NEW s \in Server, Save(s) PROVE DiskInv'
  BY <1>4, <1>7, Order DEF Save, Continue, Doing
<1>8. ASSUME NEW s \in Server, StartServer(s) PROVE DiskInv'
  <2>1. /\ cur' = [cur EXCEPT ![s] = @ + 1] /\ UNCHANGED <<disk, saved, pers>>
        /\ step = "free" /\ todo' = {s} /\ step' = "copy"
    BY <1>8 DEF StartServer, Continue, Free, disks
  <2>2. ASSUME NEW c \in Call, inst[c] # None
        PROVE /\ inst[c] <= cur'[end[c].to]
              /\ inst[c] = cur'[end[c].to] => ~Doing(end[c].to, {"copy", "add"})'
    <3>1. /\ end[c].to \in Server /\ inst[c] \in Instance /\ inst[c] <= cur[end[c].to]
          /\ cur \in [Server -> Instance]
      BY <1>0, <1>2, <2>2 DEF TableInv, DiskInv
    <3>2. CASE end[c].to = s
      BY <2>1, <3>1, <3>2 DEF Instance
    <3>3. CASE end[c].to # s
      <4>1. cur'[end[c].to] = cur[end[c].to] /\ end[c].to \notin todo'
        BY <2>1, <3>1, <3>3
      <4> QED
        BY <1>1, <3>1, <4>1 DEF Doing
    <3> QED
      BY <3>2, <3>3
  <2> QED
    BY <1>0, <1>1, <2>1, <2>2 DEF DiskInv
<1>9. ASSUME NEW s \in Server, CopySaved(s) PROVE DiskInv'
  BY <1>4, <1>9 DEF CopySaved, Continue, Doing
<1>10. ASSUME NEW s \in Server, Add(s) PROVE DiskInv'
  <2>1. /\ pers' = [pers EXCEPT ![s] = [pers[s] EXCEPT ![cur[s]] = saved[s]]]
        /\ step = "add" /\ s \in todo /\ step' = "free" /\ UNCHANGED <<disk, saved, cur>>
    BY <1>10 DEF Add, Continue
  <2>2. ASSUME NEW c \in Call, hpc[c] \in {"saved", "returned"}
        PROVE pers'[end[c].to][inst[c]] = pers[end[c].to][inst[c]]
    <3>1. end[c].to \in Server /\ inst[c] \in Instance
      BY <1>0, <1>2, <2>2 DEF DiskInv
    <3>2. end[c].to = s => inst[c] # cur[s]
      BY <1>0, <2>1, <3>1 DEF DiskInv, Doing, Instance
    <3>3. pers = [t \in Server |-> [i \in Instance |-> pers[t][i]]]
      BY <1>0 DEF PersInv
    <3> QED
      BY <2>1, <3>1, <3>2, <3>3
  <2>3. \A t : Doing(t, {"copy", "add"})' => Doing(t, {"copy", "add"})
    BY <2>1 DEF Doing
  <2>4. ASSUME NEW c \in Call, hpc'[c] \in {"saved", "returned"}
        PROVE c \in disk'[end'[c].to][pers'[end'[c].to][inst'[c]]]
    <3>1. hpc[c] \in {"saved", "returned"} /\ c \in disk[end[c].to][pers[end[c].to][inst[c]]]
      BY <1>0, <1>1, <2>4, Zenon DEF DiskInv
    <3> QED
      BY <1>1, <2>1, <2>2, <3>1
  <2> QED
    BY <1>0, <1>1, <2>1, <2>3, <2>4, Zenon DEF DiskInv
<1>11. ASSUME NEW s \in Server, Wire(s) PROVE DiskInv'
  BY <1>3, <1>11 DEF Wire, Doing, disks
<1>12. ASSUME NEW p1 \in SUBSET Server, NEW p2, Rewire(p1, p2) PROVE DiskInv'
  BY <1>3, <1>12 DEF Rewire, Doing, disks
<1>13. CASE Clerks \/ Listen \/ cleanup
  <2>1. UNCHANGED <<disk, saved, pers, cur, step, todo>>
    BY <1>13, ClerksLeaveServers DEF disks, tester
  <2> QED
    BY <1>0, <1>1, <2>1, Zenon DEF DiskInv, Doing
<1> QED
  BY <1>5, <1>6, <1>7, <1>8, <1>9, <1>10, <1>11, <1>12, <1>13
  DEF Tester, partition, ConnectAll

----------------------------------------------------------------------------
(* The network implements RemoteCall.                                      *)

\* A step of a call keeps its goroutines in step with each other.
LEMMA CallInvStep == ASSUME CallInv, [Next]_vars PROVE CallInv'
<1>1. CASE UNCHANGED callVars
  BY <1>1 DEF CallInv, callVars
<1>2. ASSUME NEW c \in Call, Issue(c) PROVE CallInv'
  BY <1>2 DEF CallInv, Issue, Send, Move, Steps
<1>3. ASSUME NEW c \in Call, NetworkStep(c) PROVE CallInv'
  <2>1. CASE Receive(c)
    BY <2>1 DEF CallInv, Receive, Move, Steps
  <2>2. CASE Lookup(c)
    BY <2>2 DEF CallInv, Lookup, Move, Steps
  <2>3. CASE Dispatch(c)
    BY <2>3 DEF CallInv, Dispatch, Move, Steps
  <2>4. CASE Wait(c)
    BY <2>4 DEF CallInv, Wait, Move, Steps
  <2>5. CASE Reply(c)
    BY <2>5 DEF CallInv, Reply, MayReply, Steps
  <2> QED
    BY <1>3, <2>1, <2>2, <2>3, <2>4, <2>5 DEF NetworkStep, CallStep
<1>4. ASSUME NEW c \in Call, Handler(c) PROVE CallInv'
  <2>1. CASE Execute(c)
    <3>1. /\ hpc[c] = "running" /\ UNCHANGED pc
          /\ executed' = [executed EXCEPT ![c] = executed[c] + 1]
          /\ hpc' = [hpc EXCEPT ![c] = "saved"]
      BY <2>1 DEF Execute
    <3>2. executed[c] = 0 /\ executed'[c] = 1 /\ executed' \in [Call -> Nat]
      BY <3>1 DEF CallInv
    <3>3. pc[c] \notin {"idle", "sent", "admitted", "answered", "yes", "true"}
      BY <3>1 DEF CallInv
    <3> QED
      BY <3>1, <3>2, <3>3 DEF CallInv
  <2>2. CASE Finish(c)
    BY <2>2 DEF CallInv, Finish
  <2> QED
    BY <1>4, <2>1, <2>2 DEF Handler
<1> QED
  BY <1>1, <1>2, <1>3, <1>4, TesterLeavesCalls DEF Next, vars

\* Every step of the network is a step of RemoteCall or none.
LEMMA CallStepRefines == ASSUME CallInv, [Next]_vars PROVE [R!Next]_R!vars
<1> DEFINE status == [c \in Call |-> Status(c)]
<1>1. CASE UNCHANGED callVars
  BY <1>1 DEF callVars, R!vars, Status
<1>2. ASSUME NEW c \in Call, pc \in [Call -> Steps],
             NEW to \in Steps, pc' = [pc EXCEPT ![c] = to]
      PROVE status' = [status EXCEPT ![c] =
                         IF to \in {"idle", "true", "false"} THEN to ELSE "pending"]
  BY <1>2 DEF Status
<1>3. pc \in [Call -> Steps]
  BY DEF CallInv
<1>4. ASSUME NEW c \in Call, Issue(c) PROVE R!Next
  <2>1. /\ pc[c] = "idle" /\ UNCHANGED executed
        /\ \/ pc' = [pc EXCEPT ![c] = "sent"]
           \/ pc' = [pc EXCEPT ![c] = "false"]
    BY <1>4 DEF Issue, Send, Move
  <2>2. status[c] = "idle"
    BY <2>1 DEF Status
  <2>3. CASE pc' = [pc EXCEPT ![c] = "sent"]
    <3>1. status' = [status EXCEPT ![c] = "pending"]
      BY <1>2, <1>3, <2>3 DEF Steps
    <3> QED
      BY <2>1, <2>2, <3>1 DEF R!Next, R!Issue, R!Become
  <2>4. CASE pc' = [pc EXCEPT ![c] = "false"]
    <3>1. status' = [status EXCEPT ![c] = "false"]
      BY <1>2, <1>3, <2>4 DEF Steps
    <3> QED
      BY <2>1, <2>2, <3>1 DEF R!Next, R!Fail, R!Become
  <2> QED
    BY <2>1, <2>3, <2>4
<1>5. ASSUME NEW c \in Call, NetworkStep(c) PROVE R!Next \/ UNCHANGED R!vars
  <2>1. UNCHANGED executed
    BY <1>5 DEF NetworkStep, CallStep, Receive, Lookup, Dispatch, Wait, Reply
  <2>2. CASE Receive(c)
    <3>1. CASE pc[c] = "yes" /\ pc' = [pc EXCEPT ![c] = "true"]
      <4>1. status[c] = "pending" /\ status' = [status EXCEPT ![c] = "true"]
        BY <1>2, <1>3, <3>1 DEF Steps, Status
      <4>2. executed[c] = 1
        BY <3>1 DEF CallInv
      <4> QED
        BY <2>1, <4>1, <4>2 DEF R!Next, R!Succeed, R!Become
    <3>2. CASE pc[c] = "no" /\ pc' = [pc EXCEPT ![c] = "false"]
      <4>1. status[c] = "pending" /\ status' = [status EXCEPT ![c] = "false"]
        BY <1>2, <1>3, <3>2 DEF Steps, Status
      <4> QED
        BY <2>1, <4>1 DEF R!Next, R!Fail, R!Become
    <3> QED
      BY <2>2, <3>1, <3>2 DEF Receive, Move
  <2>3. CASE Lookup(c) \/ Dispatch(c) \/ Wait(c) \/ Reply(c)
    <3>1. PICK to \in Steps \ {"idle", "true", "false"} :
            pc' = [pc EXCEPT ![c] = to] /\ pc[c] \notin {"idle", "true", "false"}
      BY <2>3 DEF Lookup, Dispatch, Wait, Reply, Move, Steps
    <3>2. status[c] = "pending" /\ status' = [status EXCEPT ![c] = "pending"]
      BY <1>2, <1>3, <3>1 DEF Status
    <3>3. status' = status
      BY <3>2
    <3> QED
      BY <2>1, <3>3 DEF R!vars
  <2> QED
    BY <1>5, <2>2, <2>3 DEF NetworkStep, CallStep
<1>6. ASSUME NEW c \in Call, Handler(c) PROVE R!Next \/ UNCHANGED R!vars
  <2>1. status' = status
    BY <1>6 DEF Handler, Execute, Finish, Status
  <2>2. CASE Execute(c)
    <3>1. executed[c] = 0 /\ executed' = [executed EXCEPT ![c] = 1]
      <4>1. executed[c] = 0
        BY <2>2 DEF Execute, CallInv
      <4>2. executed' = [executed EXCEPT ![c] = executed[c] + 1]
        BY <2>2 DEF Execute
      <4> QED
        BY <4>1, <4>2
    <3>2. status[c] \in {"pending", "false"}
      BY <2>2 DEF Execute, CallInv, Steps, Status
    <3> QED
      BY <2>1, <3>1, <3>2 DEF R!Next, R!Execute
  <2>3. CASE Finish(c)
    BY <2>1, <2>3 DEF Finish, R!vars
  <2> QED
    BY <1>6, <2>2, <2>3 DEF Handler
<1> QED
  BY <1>1, <1>4, <1>5, <1>6, TesterLeavesCalls DEF Next, vars, callVars

\* A call is executed at most once, and true is returned only when it has been,
\* whatever the tester does to ends and servers while processReq is under way:
\* the network of labrpc.go implements RemoteCall.
THEOREM NetworkRefines == Spec => RemoteCallSpec
<1>1. Init => CallInv /\ R!Init
  BY DEF Init, NetInit, CallInv, Steps, R!Init, Status
<1>2. CallInv /\ [Next]_vars => CallInv' /\ [R!Next]_R!vars
  BY CallInvStep, CallStepRefines
<1> QED
  BY <1>1, <1>2, PTL DEF Spec, RemoteCallSpec, R!Spec

----------------------------------------------------------------------------
(* What the persisters hold.                                               *)

\* A call that moves on, without an instance, an execution or an answer that it did
\* not have before, keeps the invariant on disks.
LEMMA DiskFrame ==
  ASSUME DiskInv, UNCHANGED <<disk, end, inst, saved, pers, cur, step, todo>>,
         \A d \in Call :
           /\ pc'[d] # "idle" => pc[d] # "idle"
           /\ pc'[d] \in {"idle", "sent"} => pc[d] \in {"idle", "sent"}
           /\ pc'[d] = "admitted" \/ hpc'[d] # "none" =>
                pc[d] = "admitted" \/ hpc[d] # "none"
           /\ hpc'[d] \in {"saved", "returned"} => hpc[d] \in {"saved", "returned"}
           /\ pc'[d] \in {"yes", "true"} => pc[d] \in {"yes", "true"}
  PROVE  DiskInv'
<1>1. \A t, u : Doing(t, u)' <=> Doing(t, u)
  BY DEF Doing
<1> QED
  BY <1>1, Zenon DEF DiskInv

\* A call that is sent or admitted keeps the invariant on disks.
LEMMA DiskOne ==
  ASSUME DiskInv, UNCHANGED <<disk, saved, pers, cur, step, todo, hpc>>, NEW c \in Call,
         inst' \in [Call -> Instance \cup {None}], end' = [d \in Call |-> end'[d]],
         \A d \in Call :
           d # c => pc'[d] = pc[d] /\ inst'[d] = inst[d] /\ end'[d] = end[d],
         hpc[c] = "none", pc'[c] \in {"sent", "false", "admitted"}, end'[c].to \in Server,
         pc'[c] = "sent" => inst'[c] = None,
         pc'[c] = "admitted" => inst'[c] # None,
         inst'[c] # None => /\ inst'[c] <= cur[end'[c].to]
                            /\ inst'[c] = cur[end'[c].to] =>
                                 ~Doing(end'[c].to, {"copy", "add"})
  PROVE  DiskInv'
<1>1. \A t, u : Doing(t, u)' <=> Doing(t, u)
  BY DEF Doing
<1>2. ASSUME NEW d \in Call
      PROVE LET s == end'[d].to IN
            /\ pc'[d] # "idle" => s \in Server
            /\ pc'[d] \in {"idle", "sent"} => inst'[d] = None
            /\ pc'[d] = "admitted" \/ hpc'[d] # "none" => inst'[d] # None
            /\ inst'[d] # None => /\ inst'[d] <= cur'[s]
                                  /\ inst'[d] = cur'[s] => ~Doing(s, {"copy", "add"})
            /\ hpc'[d] \in {"saved", "returned"} => d \in disk'[s][pers'[s][inst'[d]]]
            /\ pc'[d] \in {"yes", "true"} => d \in disk'[s][saved'[s]]
  <2>1. CASE d = c
    BY <2>1
  <2>2. CASE d # c
    BY <2>2 DEF DiskInv
  <2> QED
    BY <2>1, <2>2
<1> QED
  BY <1>1, <1>2, Zenon DEF DiskInv

\* What a handler has saved is in the Persister of its instance, and what was
\* answered in the one of the tester: the steps of calls and handlers.
LEMMA DiskInvCalls ==
  ASSUME IndInv, NEW c \in Call, Issue(c) \/ NetworkStep(c) \/ Handler(c) PROVE DiskInv'
<1> USE DEF None
<1>0. CallInv /\ TableInv /\ PersInv /\ DiskInv
  BY DEF IndInv
<1>1. UNCHANGED <<servers, saved, pers, cur, step, todo>>
  BY CallsLeaveTester DEF table, tester
<1>2. CASE Issue(c)
  <2>1. PICK e \in ends : Send(c, e)
    BY <1>2 DEF Issue
  <2>2. /\ pc[c] = "idle" /\ end' = [end EXCEPT ![c] = e] /\ UNCHANGED <<disk, inst, hpc>>
        /\ pc' = [pc EXCEPT ![c] = "sent"] \/ pc' = [pc EXCEPT ![c] = "false"]
    BY <2>1 DEF Send, Move, disks
  <2>3. e.to \in Server
    BY <1>0, <2>1 DEF TableInv, End
  <2>4. inst[c] = None /\ hpc[c] = "none"
    BY <1>0, <2>2 DEF CallInv, DiskInv
  <2>5. /\ pc'[c] \in {"sent", "false"} /\ end'[c] = e
        /\ \A d \in Call : d # c => pc'[d] = pc[d] /\ end'[d] = end[d]
        /\ end' = [d \in Call |-> end'[d]] /\ inst \in [Call -> Instance \cup {None}]
    BY <1>0, <2>2 DEF CallInv, DiskInv
  <2> QED
    BY <1>0, <1>1, <2>2, <2>3, <2>4, <2>5, DiskOne
<1>3. CASE Receive(c)
  <2>1. /\ UNCHANGED <<disk, end, inst, hpc>>
        /\ \/ pc[c] = "yes" /\ pc' = [pc EXCEPT ![c] = "true"]
           \/ pc[c] = "no" /\ pc' = [pc EXCEPT ![c] = "false"]
    BY <1>3 DEF Receive, Move, disks
  <2>2. pc \in [Call -> Steps]
    BY <1>0 DEF CallInv
  <2> QED
    BY <1>0, <1>1, <2>1, <2>2, DiskFrame
<1>4. CASE Lookup(c)
  <2>1. /\ pc[c] = "sent" /\ UNCHANGED <<disk, end, hpc>>
        /\ \/ /\ servers[end[c].to] # None /\ pc' = [pc EXCEPT ![c] = "admitted"]
              /\ inst' = [inst EXCEPT ![c] = servers[end[c].to]]
           \/ pc' = [pc EXCEPT ![c] = "no"] /\ UNCHANGED inst
    BY <1>4 DEF Lookup, Move, disks
  <2>2. /\ end[c].to \in Server /\ hpc[c] = "none"
        /\ servers[end[c].to] \in Instance \cup {None} /\ cur[end[c].to] \in Nat
        /\ servers[end[c].to] # None =>
             servers[end[c].to] = cur[end[c].to] /\ ~Doing(end[c].to, {"copy", "add"})
    BY <1>0, <2>1, StartsAssumption DEF CallInv, TableInv, DiskInv, Doing, Instance
  <2>3. CASE pc' = [pc EXCEPT ![c] = "no"] /\ UNCHANGED inst
    BY <1>0, <1>1, <2>1, <2>2, <2>3 DEF CallInv, DiskInv, Doing
  <2>4. CASE /\ servers[end[c].to] # None /\ pc' = [pc EXCEPT ![c] = "admitted"]
             /\ inst' = [inst EXCEPT ![c] = servers[end[c].to]]
    <3>1. inst' \in [Call -> Instance \cup {None}]
      BY <1>0, <2>2, <2>4 DEF DiskInv
    <3>2. /\ inst'[c] = cur[end[c].to] /\ inst'[c] # None /\ pc'[c] = "admitted"
          /\ \A d \in Call : d # c => inst'[d] = inst[d] /\ pc'[d] = pc[d]
      BY <1>0, <2>2, <2>4 DEF CallInv, DiskInv
    <3>3. cur[end[c].to] <= cur[end[c].to]
      BY <2>2
    <3>4. end' = end /\ end' = [d \in Call |-> end'[d]]
      BY <1>0, <2>1 DEF DiskInv
    <3>5. /\ \A d \in Call :
               d # c => pc'[d] = pc[d] /\ inst'[d] = inst[d] /\ end'[d] = end[d]
          /\ pc'[c] \in {"sent", "false", "admitted"} /\ pc'[c] # "sent"
          /\ inst'[c] # None /\ end'[c].to \in Server
          /\ inst'[c] <= cur[end'[c].to] /\ ~Doing(end'[c].to, {"copy", "add"})
      BY <2>2, <2>4, <3>2, <3>3, <3>4
    <3> QED
      BY <1>0, <1>1, <2>1, <2>2, <3>1, <3>4, <3>5, DiskOne, Zenon
  <2> QED
    BY <2>1, <2>3, <2>4
<1>5. CASE Dispatch(c)
  <2>1. /\ UNCHANGED <<disk, end, inst>> /\ pc[c] = "admitted"
        /\ \/ pc' = [pc EXCEPT ![c] = "no"] /\ UNCHANGED hpc
           \/ pc' = [pc EXCEPT ![c] = "waiting"] /\ hpc' = [hpc EXCEPT ![c] = "running"]
    BY <1>5 DEF Dispatch, Move, disks
  <2>2. pc \in [Call -> Steps] /\ hpc \in [Call -> {"none", "running", "saved", "returned"}]
    BY <1>0 DEF CallInv
  <2> QED
    BY <1>0, <1>1, <2>1, <2>2, DiskFrame
<1>6. CASE Wait(c)
  <2>1. /\ UNCHANGED <<disk, end, inst, hpc>> /\ pc[c] = "waiting"
        /\ pc' = [pc EXCEPT ![c] = "answered"] \/ pc' = [pc EXCEPT ![c] = "dead"]
    BY <1>6 DEF Wait, Move, disks
  <2>2. pc \in [Call -> Steps]
    BY <1>0 DEF CallInv
  <2> QED
    BY <1>0, <1>1, <2>1, <2>2, DiskFrame
<1>7. CASE Reply(c)
  <2>1. PICK to \in {"no", "yes"} :
          pc' = [pc EXCEPT ![c] = to] /\ (to = "yes" => MayReply(c))
    BY <1>7 DEF Reply
  <2>2. pc[c] \in {"answered", "dead"} /\ UNCHANGED <<disk, end, inst, hpc>>
    BY <1>7 DEF Reply, disks
  <2>3. ASSUME to = "yes" PROVE c \in disk[end[c].to][saved[end[c].to]]
    <3>1. /\ end[c].to \in Server /\ inst[c] # None /\ servers[end[c].to] = inst[c]
          /\ c \in disk[end[c].to][pers[end[c].to][inst[c]]]
      BY <1>0, <2>1, <2>3 DEF CallInv, DiskInv, MayReply, isServerDead
    <3>2. pers[end[c].to][inst[c]] = saved[end[c].to]
      BY <1>0, <3>1 DEF TableInv, PersInv, Numbered
    <3> QED
      BY <3>1, <3>2
  <2> QED
    BY <1>0, <1>1, <2>1, <2>2, <2>3 DEF CallInv, DiskInv, Doing
<1>8. CASE Execute(c)
  <2> DEFINE s == end[c].to
             p == pers[s][inst[c]]
  <2>1. /\ disk' = [disk EXCEPT ![s] = [disk[s] EXCEPT ![p] = disk[s][p] \cup {c}]]
        /\ hpc[c] = "running" /\ hpc' = [hpc EXCEPT ![c] = "saved"]
        /\ UNCHANGED <<pc, end, inst>>
    BY <1>8 DEF Execute
  <2>2. s \in Server /\ inst[c] \in Instance
    BY <1>0, <2>1 DEF CallInv, DiskInv
  <2>3. p \in Version
    <3>1. /\ p \in Nat /\ saved[s] \in Nat /\ p <= saved[s] /\ saved[s] < 2 * cur[s]
          /\ cur[s] \in Instance
      BY <1>0, <2>2 DEF TableInv, PersInv, Numbered
    <3> QED
      BY <3>1, VersionRange
  <2> HIDE DEF s, p
  <2>4. /\ disk' \in [Server -> [Version -> SUBSET Call]]
        /\ \A t \in Server, v \in Version : disk[t][v] \subseteq disk'[t][v]
        /\ c \in disk'[s][p]
    BY <1>0, <2>1, <2>2, <2>3 DEF DiskInv
  <2>5. ASSUME NEW d \in Call
        PROVE /\ hpc'[d] \in {"saved", "returned"} =>
                   d \in disk'[end[d].to][pers[end[d].to][inst[d]]]
              /\ pc[d] \in {"yes", "true"} => d \in disk'[end[d].to][saved[end[d].to]]
    <3>1. ASSUME NEW t \in Server, NEW i \in Instance
          PROVE pers[t][i] \in Version /\ saved[t] \in Version
      <4>1. /\ pers[t][i] \in Nat /\ saved[t] \in Nat /\ pers[t][i] <= saved[t]
            /\ saved[t] < 2 * cur[t] /\ cur[t] \in Instance
        BY <1>0 DEF TableInv, PersInv, Numbered
      <4> QED
        BY <4>1, VersionRange
    <3>2. /\ hpc[d] # "none" => end[d].to \in Server /\ inst[d] \in Instance
          /\ pc[d] \in {"yes", "true"} => end[d].to \in Server /\ inst[d] \in Instance
      BY <1>0 DEF CallInv, DiskInv
    <3>3. d # c => hpc'[d] = hpc[d]
      BY <1>0, <2>1 DEF CallInv
    <3>4. CASE d = c
      BY <1>0, <2>1, <2>4, <3>4 DEF CallInv, s, p
    <3>5. CASE d # c
      BY <1>0, <2>4, <3>1, <3>2, <3>3, <3>5 DEF CallInv, DiskInv
    <3> QED
      BY <3>4, <3>5
  <2> QED
    BY <1>0, <1>1, <2>1, <2>2, <2>4, <2>5 DEF CallInv, DiskInv, Doing
<1>9. CASE Finish(c)
  BY <1>0, <1>1, <1>9 DEF CallInv, DiskInv, Doing, Finish, disks
<1> QED
  BY <1>2, <1>3, <1>4, <1>5, <1>6, <1>7, <1>8, <1>9 DEF NetworkStep, CallStep, Handler

\* The invariant holds at the start: make_config has started every server.
LEMMA InitInv == Init => IndInv
<1> SUFFICES ASSUME Init PROVE IndInv
  OBVIOUS
<1> USE DEF Init, NetInit, None
<1>1. 1 \in Instance /\ 0 \in Version
  BY StartsAssumption DEF Instance, Version
<1>2. CallInv
  BY DEF CallInv, Steps
<1>3. ends \subseteq End
  BY <1>1 DEF EndsOf, End
<1>4. TableInv
  BY <1>1, <1>3 DEF TableInv, Doing
<1>5. SilentInv
  <2>1. \A e \in enabled : e.inst = 1
    BY DEF EndsOf
  <2> QED
    BY <1>3, <2>1 DEF SilentInv, Doing
<1>6. PersInv
  BY <1>1, StartsAssumption DEF PersInv, Numbered, Doing, Instance
<1>7. DiskInv
  BY <1>1 DEF DiskInv
<1> QED
  BY <1>2, <1>4, <1>5, <1>6, <1>7 DEF IndInv

\* Every step preserves the invariant.
LEMMA StepInv == IndInv /\ [Next]_vars => IndInv'
<1> SUFFICES ASSUME IndInv, [Next]_vars PROVE IndInv'
  OBVIOUS
<1>1. CallInv' /\ TableInv' /\ SilentInv' /\ PersInv'
  BY CallInvStep, TableInvStep, SilentInvStep, PersInvStep DEF IndInv
<1>2. DiskInv'
  <2>1. CASE UNCHANGED vars
    BY <2>1 DEF vars, disks, callVars, tester, IndInv, DiskInv, Doing
  <2>2. CASE Next
    BY <2>2, DiskInvTester, DiskInvCalls DEF Next
  <2> QED
    BY <2>1, <2>2
<1> QED
  BY <1>1, <1>2 DEF IndInv

\* An update whose call was answered is in the Persister from which the server
\* will next be started, through any number of shutdowns and restarts.
THEOREM RepliesAreDurable == Spec => []PositiveReplyIsDurable
<1>1. IndInv => PositiveReplyIsDurable
  BY DEF IndInv, DiskInv, PositiveReplyIsDurable
<1> QED
  BY <1>1, InitInv, StepInv, PTL DEF Spec

\* No end of an instance that was shut down is ever enabled again, whatever
\* partition and ConnectAll do.
THEOREM OldInstancesAreSilent == Spec => []OldInstanceSilent
<1>1. IndInv => OldInstanceSilent
  BY DEF IndInv, SilentInv, OldInstanceSilent
<1> QED
  BY <1>1, InitInv, StepInv, PTL DEF Spec

\* A handler that still runs in an old instance writes to a Persister of which
\* the tester has a copy, never to the one the next instance gets.
THEOREM OldInstancesWriteApart == Spec => OldInstanceWritesApart
<1> DEFINE Apart ==
      \A c \in Call :
        executed'[c] # executed[c] =>
          LET s == end[c].to IN
          inst[c] # cur[s] => disk'[s][saved[s]] = disk[s][saved[s]]
<1>1. IndInv /\ [Next]_vars => [Apart]_vars
  <2> SUFFICES ASSUME IndInv, Next, NEW c \in Call, executed'[c] # executed[c],
                      inst[c] # cur[end[c].to]
               PROVE disk'[end[c].to][saved[end[c].to]] = disk[end[c].to][saved[end[c].to]]
    OBVIOUS
  <2>1. PICK d \in Call : Execute(d)
    <3>1. Tester \/ Clerks \/ Listen => UNCHANGED executed
      BY TesterLeavesCalls DEF callVars
    <3>2. ASSUME NEW d \in Call, Issue(d) \/ NetworkStep(d) PROVE UNCHANGED executed
      BY <3>2 DEF Issue, Send, NetworkStep, CallStep, Receive, Lookup, Dispatch, Wait, Reply
    <3>3. ASSUME NEW d \in Call, Finish(d) PROVE UNCHANGED executed
      BY <3>3 DEF Finish
    <3> QED
      BY <3>1, <3>2, <3>3 DEF Next, Handler
  <2>2. d = c
    BY <2>1 DEF Execute, IndInv, CallInv
  <2>3. hpc[c] = "running" /\ end[c].to \in Server /\ inst[c] \in Instance
        /\ inst[c] < cur[end[c].to]
    <3>1. hpc[c] = "running"
      BY <2>1, <2>2 DEF Execute
    <3>2. end[c].to \in Server /\ inst[c] \in Instance /\ inst[c] <= cur[end[c].to]
      BY <3>1 DEF IndInv, CallInv, DiskInv
    <3>3. cur[end[c].to] \in Nat /\ inst[c] \in Nat
      BY <3>2, StartsAssumption DEF IndInv, TableInv, Instance
    <3> QED
      BY <3>1, <3>2, <3>3
  <2>4. pers[end[c].to][inst[c]] # saved[end[c].to]
    BY <2>3 DEF IndInv, PersInv, Numbered
  <2>5. disk' = [disk EXCEPT ![end[c].to] =
                   [disk[end[c].to] EXCEPT ![pers[end[c].to][inst[c]]] = @ \cup {c}]]
    BY <2>1, <2>2 DEF Execute
  <2>6. disk[end[c].to] \in [Version -> SUBSET Call] /\ saved[end[c].to] \in Version
    <3>1. disk[end[c].to] \in [Version -> SUBSET Call]
      BY <2>3 DEF IndInv, DiskInv
    <3>2. saved[end[c].to] \in Nat /\ cur[end[c].to] \in Instance /\ Numbered(end[c].to)
      BY <2>3 DEF IndInv, PersInv, TableInv
    <3>3. saved[end[c].to] < 2 * cur[end[c].to]
      BY <3>2, Zenon DEF Numbered
    <3>4. saved[end[c].to] <= saved[end[c].to]
      BY <3>2
    <3> QED
      BY <3>1, <3>2, <3>3, <3>4, VersionRange, Zenon
  <2>7. disk'[end[c].to] =
          [disk[end[c].to] EXCEPT ![pers[end[c].to][inst[c]]] = @ \cup {c}]
    BY <2>3, <2>5 DEF IndInv, DiskInv
  <2> QED
    BY <2>4, <2>6, <2>7
<1>2. Spec => [][Apart]_vars
  BY <1>1, InitInv, StepInv, PTL DEF Spec
<1> QED
  BY <1>2 DEF OldInstanceWritesApart
=============================================================================
