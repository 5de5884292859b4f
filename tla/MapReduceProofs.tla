-------------------------- MODULE MapReduceProofs --------------------------
(***************************************************************************)
(* Proofs about the MapReduce master and its workers, for any number of    *)
(* workers, files and parts: no task is lost, no map task is doubled, and  *)
(* only finished work is reported.                                         *)
(***************************************************************************)
EXTENDS MapReduce, TLAPS

\* the counter of a worker: renames done by workerMap, inputs read by
\* workerReduce, tasks pushed by createReduceTask
CounterInv ==
  \A w \in Worker :
    /\ pc[w] = "work" /\ task[w].kind = "map" =>
         n[w] < NReduce /\ \A p \in 1..n[w] : <<task[w].id, p>> \in inter
    /\ pc[w] = "create" => n[w] < NReduce

IndInv == TypeOK /\ CounterInv /\ DoneIsFinished /\ MapOnce /\ NoTaskLost

----------------------------------------------------------------------------
(* Types.                                                                  *)

\* A task is a map task with a file or a reduce task with a part.
LEMMA TaskKinds ==
  ASSUME NEW t \in Task
  PROVE  /\ t.kind = "map" => t \in MapTask /\ t.id \in File
         /\ t.kind # "map" => t \in ReduceTask /\ t.id \in Part /\ t.kind = "reduce"
  BY DEF Task, MapTask, ReduceTask

\* MakeMaster and the first state of the workers are of the types declared.
LEMMA InitTypes == Init => TypeOK
<1> SUFFICES ASSUME Init PROVE TypeOK
  OBVIOUS
<1>1. FirstTask \in Task
  BY JobAssumption DEF FirstTask, Task, MapTask, File
<1>2. \A t \in Task : (IF t.kind = "map" THEN 1 ELSE 0) \in Nat
  OBVIOUS
<1>3. /\ queuing \in [Task -> Nat] /\ running \in [Task -> Nat]
      /\ late \in [Task -> Nat] /\ sweep \in Kind /\ timeouts \in 0..MaxTimeouts
  BY <1>2, TimeoutsAssumption DEF Init, None, Kind
<1>4. /\ pc \in [Worker -> HandlerSteps \cup WorkerSteps] /\ alive \in [Worker -> BOOLEAN]
      /\ task \in [Worker -> Task] /\ n \in [Worker -> Nat]
  BY <1>1 DEF Init, WorkerSteps
<1>5. /\ isDone \in BOOLEAN /\ master \in {"up", "exited", "panicked"}
      /\ inter \subseteq File \X Part /\ \A o \in out : o.part \in Part
  BY DEF Init
<1> QED
  BY <1>3, <1>4, <1>5 DEF TypeOK

\* A call or a look at a queue moves the worker and nothing else.
LEMMA LookTypes ==
  ASSUME TypeOK, NEW w \in Worker, NEW to \in HandlerSteps \cup WorkerSteps,
         pc' = [pc EXCEPT ![w] = to],
         UNCHANGED <<queues, isDone, master, collector, alive, task, n, files>>
  PROVE  TypeOK'
  BY DEF TypeOK, queues, collector, files

\* What a step of workerReduce changes, whatever the lines of the output are.
LEMMA ReduceShape ==
  ASSUME NEW w \in Worker, workerReduce(w)
  PROVE  /\ pc[w] = "work" /\ task[w].kind = "reduce"
         /\ UNCHANGED <<queues, isDone, master, collector, alive, task, inter>>
         /\ \/ /\ pc' = [pc EXCEPT ![w] = "done"] /\ n' = n
               /\ \E l : out' = out \cup {[part |-> task[w].id, lines |-> l]}
            \/ out' = out /\ n' = [n EXCEPT ![w] = @ + 1] /\ pc' = pc
            \/ out' = out /\ n' = n /\ pc' = [pc EXCEPT ![w] = "stop"]
  BY Zenon DEF workerReduce

\* Every step of a worker or of the handler of its call keeps the types.
LEMMA WorkerTypes ==
  ASSUME TypeOK, CounterInv, NEW w \in Worker, WorkerStep(w) PROVE TypeOK'
<1>0. /\ Return(w) \in HandlerSteps \cup WorkerSteps
      /\ AskSteps \subseteq HandlerSteps \cup WorkerSteps
      /\ DoneSteps \subseteq HandlerSteps \cup WorkerSteps
      /\ task[w] \in Task /\ n[w] \in Nat /\ pc[w] \in HandlerSteps \cup WorkerSteps
      /\ {"ask", "work", "done", "stop"} \subseteq HandlerSteps \cup WorkerSteps
  BY DEF Return, HandlerSteps, WorkerSteps, TypeOK
<1>1. CASE CallAskTask(w) \/ CallTaskDone(w)
  <2>1. PICK to \in {"reduceSize", "remove", "stop"} : pc' = [pc EXCEPT ![w] = to]
    BY <1>1 DEF CallAskTask, CallTaskDone, Call
  <2>2. to \in HandlerSteps \cup WorkerSteps
    BY DEF HandlerSteps, WorkerSteps, AskSteps, DoneSteps
  <2> QED
    BY <1>1, <2>1, <2>2, LookTypes DEF CallAskTask, CallTaskDone, Call
<1>2. ASSUME NEW at, NEW q, NEW k, NEW yes \in HandlerSteps \cup WorkerSteps,
             NEW no \in HandlerSteps \cup WorkerSteps, Look(w, at, q, k, yes, no)
      PROVE TypeOK'
  BY <1>2, LookTypes DEF Look
<1>3. CASE AskSize(w)
  BY <1>0, <1>2, <1>3 DEF AskSize, AskSteps
<1>4. CASE Pop(w)
  <2>1. ASSUME NEW t \in Task, queuing[t] > 0, queuing' = Take(queuing, t),
               task' = [task EXCEPT ![w] = t], pc' = [pc EXCEPT ![w] = "push"],
               UNCHANGED master
        PROVE TypeOK'
    <3>1. queuing' \in [Task -> Nat]
      BY <2>1 DEF TypeOK, Take
    <3>2. pc' \in [Worker -> HandlerSteps \cup WorkerSteps]
      BY <1>0, <2>1 DEF TypeOK, AskSteps
    <3> QED
      BY <1>4, <2>1, <3>1, <3>2 DEF Pop, TypeOK, collector, files
  <2>2. ASSUME master' = "panicked", pc' = Abandoned, UNCHANGED <<queuing, task>>
        PROVE TypeOK'
    <3>1. pc' \in [Worker -> HandlerSteps \cup WorkerSteps]
      BY <1>0, <2>2 DEF TypeOK, Abandoned
    <3> QED
      BY <1>4, <2>2, <3>1 DEF Pop, TypeOK, collector, files
  <2> QED
    BY <1>4, <2>1, <2>2 DEF Pop
<1>5. CASE PushRunning(w)
  BY <1>0, <1>5 DEF PushRunning, Push, TypeOK, collector, files
<1>6. CASE AskEnd(w)
  <2>1. CASE Look(w, "mapsRun", running, "map", Return(w), "reducesRun")
    BY <1>0, <1>2, <2>1 DEF AskSteps
  <2>2. CASE ~Look(w, "mapsRun", running, "map", Return(w), "reducesRun")
    <3>1. isDone' \in BOOLEAN /\ pc' \in [Worker -> HandlerSteps \cup WorkerSteps]
      BY <1>0, <1>6, <2>2 DEF AskEnd, TypeOK
    <3> QED
      BY <1>6, <2>2, <3>1 DEF AskEnd, TypeOK, queues, collector, files
  <2> QED
    BY <2>1, <2>2
<1>7. CASE workerMap(w)
  <2>1. <<task[w].id, n[w] + 1>> \in File \X Part
    BY <1>0, <1>7, TaskKinds, JobAssumption DEF workerMap, CounterInv, Part
  <2>2. pc' \in [Worker -> HandlerSteps \cup WorkerSteps] /\ n' \in [Worker -> Nat]
    BY <1>0, <1>7 DEF workerMap, TypeOK
  <2> QED
    BY <1>7, <2>1, <2>2 DEF workerMap, TypeOK, queues, collector
<1>8. CASE workerReduce(w)
  <2>1. /\ pc' \in [Worker -> HandlerSteps \cup WorkerSteps] /\ n' \in [Worker -> Nat]
        /\ UNCHANGED <<queues, isDone, master, collector, alive, task, inter>>
    BY <1>0, <1>8, ReduceShape DEF TypeOK
  <2>2. \A o \in out' : o.part \in Part
    <3>1. task[w].id \in Part
      BY <1>0, <1>8, ReduceShape, TaskKinds
    <3>2. out' = out \/ \E l : out' = out \cup {[part |-> task[w].id, lines |-> l]}
      BY <1>8, ReduceShape
    <3> QED
      BY <3>1, <3>2 DEF TypeOK
  <2> QED
    BY <2>1, <2>2 DEF TypeOK, queues, collector
<1>9. CASE RemoveRunning(w)
  BY <1>0, <1>9 DEF RemoveRunning, RemoveTask, TypeOK, DoneSteps, collector, files
<1>10. CASE LastMap(w)
  <2>1. CASE Look(w, "noMapRuns", running, "map", Return(w), "noMapQueues")
    BY <1>0, <1>2, <2>1 DEF DoneSteps
  <2>2. CASE ~Look(w, "noMapRuns", running, "map", Return(w), "noMapQueues")
    <3>1. n' \in [Worker -> Nat] /\ pc' \in [Worker -> HandlerSteps \cup WorkerSteps]
      BY <1>0, <1>10, <2>2 DEF LastMap, TypeOK, DoneSteps
    <3> QED
      BY <1>10, <2>2, <3>1 DEF LastMap, TypeOK, queues, collector, files
  <2> QED
    BY <2>1, <2>2
<1>11. CASE createReduceTask(w)
  <2>1. [kind |-> "reduce", id |-> n[w] + 1] \in Task
    BY <1>0, <1>11, JobAssumption DEF createReduceTask, CounterInv, Task, ReduceTask, Part
  <2>2. queuing' \in [Task -> Nat]
    BY <1>11, <2>1 DEF createReduceTask, Push, TypeOK
  <2>3. pc' \in [Worker -> HandlerSteps \cup WorkerSteps] /\ n' \in [Worker -> Nat]
    BY <1>0, <1>11 DEF createReduceTask, TypeOK
  <2> QED
    BY <1>11, <2>2, <2>3 DEF createReduceTask, TypeOK, collector, files
<1>12. CASE Crash(w)
  BY <1>0, <1>12 DEF Crash, TypeOK, queues, collector, files
<1> QED
  BY <1>1, <1>3, <1>4, <1>5, <1>6, <1>7, <1>8, <1>9, <1>10, <1>11, <1>12 DEF WorkerStep

\* So do the steps of the collector and the end of the master.
LEMMA MasterTypes == ASSUME TypeOK, TimeOutQueue \/ Requeue \/ Done PROVE TypeOK'
<1>1. CASE TimeOutQueue
  <2>1. PICK b \in [Task -> UNION {0..running[t] : t \in Task}] :
          /\ \A t \in Task : b[t] <= running[t]
          /\ running' = WithoutLate(running, b)
          /\ late' = b
          /\ \/ sweep' = OtherKind(sweep) /\ UNCHANGED timeouts
             \/ timeouts < MaxTimeouts /\ timeouts' = timeouts + 1 /\ UNCHANGED sweep
    BY <1>1 DEF TimeOutQueue
  <2>2. b \in [Task -> Nat]
    BY DEF TypeOK
  <2>3. running' \in [Task -> Nat]
    BY <2>1, <2>2 DEF TypeOK, WithoutLate
  <2>4. sweep' \in Kind /\ timeouts' \in 0..MaxTimeouts
    BY <2>1, TimeoutsAssumption DEF TypeOK, OtherKind, Kind
  <2> QED
    BY <1>1, <2>1, <2>2, <2>3, <2>4 DEF TimeOutQueue, TypeOK, files
<1>2. CASE Requeue
  <2>1. queuing' \in [Task -> Nat]
    BY <1>2 DEF Requeue, Requeued, TypeOK
  <2> QED
    BY <1>2, <2>1 DEF Requeue, TypeOK, None, OtherKind, Kind, files
<1>3. CASE Done
  <2>1. pc' \in [Worker -> HandlerSteps \cup WorkerSteps]
    BY <1>3 DEF Done, Abandoned, TypeOK, WorkerSteps
  <2> QED
    BY <1>3, <2>1 DEF Done, TypeOK, queues, collector, files
<1> QED
  BY <1>1, <1>2, <1>3

----------------------------------------------------------------------------
(* Only finished work is reported.                                         *)

\* CounterInv and DoneIsFinished for one worker
WorkerInv(w) ==
  /\ pc[w] = "work" /\ task[w].kind = "map" =>
       n[w] < NReduce /\ \A p \in 1..n[w] : <<task[w].id, p>> \in inter
  /\ pc[w] = "create" => n[w] < NReduce
  /\ pc[w] \in {"done"} \cup DoneSteps => Finished(task[w])

\* No file is ever removed, so that finished work stays finished.
LEMMA FilesGrow ==
  ASSUME Next \/ UNCHANGED vars
  PROVE  inter \subseteq inter' /\ out \subseteq out' /\ \A t : Finished(t) => Finished(t)'
<1>1. ASSUME NEW w \in Worker, WorkerStep(w) PROVE inter \subseteq inter' /\ out \subseteq out'
  <2>1. CASE workerMap(w)
    BY <2>1 DEF workerMap
  <2>2. CASE workerReduce(w)
    BY <2>2, ReduceShape
  <2>3. CASE ~workerMap(w) /\ ~workerReduce(w)
    BY <1>1, <2>3 DEF WorkerStep, CallAskTask, CallTaskDone, Call, AskSize, Look, Pop,
       PushRunning, AskEnd, RemoveRunning, LastMap, createReduceTask, Crash, files
  <2> QED
    BY <2>1, <2>2, <2>3
<1>2. inter \subseteq inter' /\ out \subseteq out'
  BY <1>1 DEF Next, TimeOutQueue, Requeue, Done, vars, files
<1>3. \A t : Finished(t) => Finished(t)'
  BY <1>2 DEF Finished
<1> QED
  BY <1>2, <1>3

\* A step of one worker leaves the others where they are, or stops them with the
\* master.
LEMMA OthersStay ==
  ASSUME TypeOK, NEW w \in Worker, WorkerStep(w), NEW v \in Worker, v # w
  PROVE  pc'[v] \in {pc[v], "stop"} /\ task'[v] = task[v] /\ n'[v] = n[v]
<1>0. /\ pc \in [Worker -> HandlerSteps \cup WorkerSteps]
      /\ task \in [Worker -> Task] /\ n \in [Worker -> Nat]
  BY DEF TypeOK
<1>1. CASE workerReduce(w)
  BY <1>0, <1>1, ReduceShape
<1>2. CASE Pop(w)
  BY <1>0, <1>2 DEF Pop, Abandoned
<1>3. CASE ~workerReduce(w) /\ ~Pop(w)
  BY <1>0, <1>3 DEF WorkerStep, CallAskTask, CallTaskDone, Call, AskSize, Look,
     PushRunning, AskEnd, workerMap, RemoveRunning, LastMap, createReduceTask, Crash
<1> QED
  BY <1>1, <1>2, <1>3

\* A worker that stays where it is, or stops, keeps its invariant.
LEMMA StayingInv ==
  ASSUME TypeOK, Next \/ UNCHANGED vars, NEW v \in Worker, WorkerInv(v),
         pc'[v] \in {pc[v], "stop"}, task'[v] = task[v], n'[v] = n[v]
  PROVE  WorkerInv(v)'
<1>1. inter \subseteq inter' /\ \A t : Finished(t) => Finished(t)'
  BY FilesGrow
<1>2. pc'[v] = "stop" => pc'[v] \notin {"done"} \cup DoneSteps
  BY DEF DoneSteps
<1>3. Finished(task[v]) => Finished(task[v])'
  <2>1. PICK t : t = task[v]
    OBVIOUS
  <2>2. Finished(t) => Finished(t)'
    BY <1>1
  <2> QED
    BY <2>1, <2>2 DEF Finished
<1> QED
  BY <1>1, <1>2, <1>3 DEF WorkerInv

\* The worker that takes a step reports done only after its last rename.
LEMMA MovingInv ==
  ASSUME TypeOK, NEW w \in Worker, WorkerStep(w), WorkerInv(w)
  PROVE  WorkerInv(w)'
<1>0. /\ pc \in [Worker -> HandlerSteps \cup WorkerSteps]
      /\ task \in [Worker -> Task] /\ n \in [Worker -> Nat]
      /\ NReduce \in Nat \ {0}
  BY JobAssumption DEF TypeOK
<1> DEFINE Free == {"ask", "stop"} \cup AskSteps
<1>1. pc'[w] \in Free => WorkerInv(w)'
  BY DEF WorkerInv, AskSteps, DoneSteps
<1>2. Return(w) \in Free
  BY DEF Return
<1>3. ASSUME UNCHANGED <<task, out, inter>>, pc[w] \in {"done"} \cup DoneSteps,
             pc'[w] \in {"remove", "noMapRuns", "noMapQueues"}
      PROVE  WorkerInv(w)'
  BY <1>3 DEF WorkerInv, Finished
<1>4. CASE CallAskTask(w) \/ AskSize(w) \/ Pop(w) \/ AskEnd(w)
  <2>1. pc'[w] \in Free
    BY <1>0, <1>2, <1>4 DEF CallAskTask, Call, AskSize, Look, Pop, Abandoned, AskEnd,
       AskSteps, HandlerSteps
  <2> QED
    BY <1>1, <2>1
<1>5. CASE PushRunning(w)
  <2>1. pc'[w] \in {"work", "stop"} /\ n'[w] = 0
    BY <1>0, <1>5 DEF PushRunning
  <2> QED
    BY <1>0, <2>1 DEF WorkerInv, DoneSteps
<1>6. CASE workerMap(w)
  <2>1. /\ pc[w] = "work" /\ task[w].kind = "map" /\ n'[w] = n[w] + 1
        /\ inter' = inter \cup {<<task[w].id, n[w] + 1>>} /\ task' = task
        /\ pc'[w] = IF n[w] + 1 = NReduce THEN "done" ELSE "work"
    BY <1>0, <1>6 DEF workerMap, OutFiles
  <2>2. n[w] < NReduce /\ \A p \in 1..n[w] : <<task[w].id, p>> \in inter
    BY <2>1 DEF WorkerInv
  <2>3. \A p \in 1..(n[w] + 1) : <<task[w].id, p>> \in inter'
    BY <1>0, <2>1, <2>2
  <2>4. CASE n[w] + 1 = NReduce
    BY <2>1, <2>3, <2>4 DEF WorkerInv, Finished, Part
  <2>5. CASE n[w] + 1 # NReduce
    BY <1>0, <2>1, <2>2, <2>3, <2>5 DEF WorkerInv, DoneSteps
  <2> QED
    BY <2>4, <2>5
<1>7. CASE workerReduce(w)
  <2>1. /\ pc[w] = "work" /\ task[w].kind = "reduce" /\ task' = task
        /\ \/ pc'[w] \in {"work", "stop"}
           \/ pc'[w] = "done" /\ \E o \in out' : o.part = task[w].id
    <3>1. CASE pc' = [pc EXCEPT ![w] = "done"]
      <4>1. PICK l : out' = out \cup {[part |-> task[w].id, lines |-> l]}
                     \/ pc'[w] \in {"work", "stop"}
        BY <1>0, <1>7, ReduceShape
      <4>2. [part |-> task[w].id, lines |-> l].part = task[w].id
        OBVIOUS
      <4> QED
        BY <1>0, <1>7, <3>1, <4>1, <4>2, ReduceShape
    <3>2. CASE pc' # [pc EXCEPT ![w] = "done"]
      BY <1>0, <1>7, <3>2, ReduceShape
    <3> QED
      BY <3>1, <3>2
  <2> QED
    BY <2>1 DEF WorkerInv, Finished, DoneSteps
<1>8. CASE CallTaskDone(w)
  <2>1. /\ pc'[w] \in {"remove", "stop"} /\ pc[w] = "done"
        /\ UNCHANGED <<task, out, inter>>
    BY <1>0, <1>8 DEF CallTaskDone, Call, files
  <2> QED
    BY <1>1, <1>3, <2>1
<1>9. CASE RemoveRunning(w)
  <2>1. /\ pc'[w] \in {"noMapRuns"} \cup Free /\ pc[w] = "remove"
        /\ UNCHANGED <<task, out, inter>>
    BY <1>0, <1>2, <1>9 DEF RemoveRunning, files
  <2> QED
    BY <1>1, <1>3, <2>1 DEF DoneSteps
<1>10. CASE LastMap(w)
  <2>1. /\ pc[w] \in DoneSteps /\ UNCHANGED <<task, out, inter>>
        /\ \/ pc'[w] \in {"noMapQueues"} \cup Free
           \/ pc'[w] = "create" /\ n'[w] = 0
    BY <1>0, <1>2, <1>10 DEF LastMap, Look, files, DoneSteps
  <2>2. CASE pc'[w] = "create" /\ n'[w] = 0
    BY <1>0, <2>1, <2>2 DEF WorkerInv, Finished
  <2> QED
    BY <1>1, <1>3, <2>1, <2>2
<1>11. CASE createReduceTask(w)
  <2>1. /\ pc[w] = "create" /\ UNCHANGED <<task, out, inter>> /\ n'[w] = n[w] + 1
        /\ pc'[w] = IF n[w] + 1 = NReduce THEN Return(w) ELSE "create"
    BY <1>0, <1>11 DEF createReduceTask, files
  <2>2. CASE n[w] + 1 # NReduce
    <3>1. n[w] < NReduce /\ Finished(task[w])
      BY <2>1 DEF WorkerInv, DoneSteps
    <3>2. pc'[w] = "create" /\ n'[w] < NReduce
      BY <1>0, <2>1, <2>2, <3>1
    <3>3. Finished(task[w])'
      BY <2>1, <3>1, Zenon DEF Finished
    <3> QED
      BY <3>2, <3>3, Zenon DEF WorkerInv
  <2> QED
    BY <1>1, <1>2, <2>1, <2>2
<1>12. CASE Crash(w)
  <2>1. pc'[w] \in {pc[w], "stop"} /\ UNCHANGED <<task, n>>
    BY <1>0, <1>12 DEF Crash
  <2> QED
    BY <2>1, StayingInv DEF Next
<1> QED
  BY <1>4, <1>5, <1>6, <1>7, <1>8, <1>9, <1>10, <1>11, <1>12 DEF WorkerStep

\* Every step keeps the invariant of every worker.
LEMMA WorkerInvStep ==
  ASSUME TypeOK, Next \/ UNCHANGED vars, CounterInv, DoneIsFinished
  PROVE  CounterInv' /\ DoneIsFinished'
<1>1. \A v \in Worker : WorkerInv(v)
  BY DEF CounterInv, DoneIsFinished, WorkerInv
<1>2. SUFFICES ASSUME NEW v \in Worker PROVE WorkerInv(v)'
  BY DEF CounterInv, DoneIsFinished, WorkerInv
<1>3. CASE TimeOutQueue \/ Requeue \/ Done \/ UNCHANGED vars
  <2>1. pc'[v] \in {pc[v], "stop"} /\ UNCHANGED <<task, n>>
    BY <1>3 DEF TimeOutQueue, Requeue, Done, Abandoned, vars
  <2> QED
    BY <1>1, <2>1, StayingInv
<1>4. ASSUME NEW w \in Worker, WorkerStep(w) PROVE WorkerInv(v)'
  <2>1. CASE v = w
    BY <1>1, <1>4, <2>1, MovingInv
  <2>2. CASE v # w
    BY <1>1, <1>4, <2>2, OthersStay, StayingInv
  <2> QED
    BY <2>1, <2>2
<1> QED
  BY <1>3, <1>4 DEF Next

----------------------------------------------------------------------------
(* No map task is doubled, no task is lost.                                *)

\* MapOnce for one task
OnceInv(t) ==
  /\ queuing[t] + running[t] + late[t] <= 1
  /\ Popped(t) # {} => queuing[t] + running[t] + late[t] = 0
  /\ \A v, w \in Popped(t) : v = w

\* Tasks are popped and pushed by the workers at "push" only.
LEMMA SamePopped ==
  ASSUME task' = task, \A v \in Worker : pc'[v] = "push" <=> pc[v] = "push"
  PROVE  \A t : Popped(t)' = Popped(t)
  BY DEF Popped

\* The steps that touch no queue, or that end the master.
QuietStep ==
  /\ queuing' = queuing /\ running' = running /\ late' = late
  /\ \/ task' = task /\ master' = master /\ \A t : Popped(t)' = Popped(t)
     \/ master' # "up" /\ \A t : Popped(t)' \subseteq Popped(t)

\* Pop found a task, or it found none and the master panicked.
PopTakes(w, t) ==
  /\ pc[w] \in {"reducePop", "mapPop"} /\ queuing[t] > 0
  /\ queuing' = Take(queuing, t) /\ task' = [task EXCEPT ![w] = t]
  /\ pc' = [pc EXCEPT ![w] = "push"]
  /\ running' = running /\ late' = late /\ master' = master /\ inter' = inter /\ out' = out

\* Every other step of a worker is quiet.
LEMMA WorkerQuiet ==
  ASSUME TypeOK, NEW w \in Worker, WorkerStep(w)
  PROVE  \/ QuietStep
         \/ \E t \in Task : PopTakes(w, t)
         \/ PushRunning(w) \/ RemoveRunning(w) \/ createReduceTask(w)
<1>0. pc \in [Worker -> HandlerSteps \cup WorkerSteps]
  BY DEF TypeOK
<1>1. CASE Pop(w)
  <2>1. CASE \E t \in Task : PopTakes(w, t)
    BY <2>1
  <2>2. CASE ~\E t \in Task : PopTakes(w, t)
    <3>1. master' = "panicked" /\ pc' = Abandoned /\ UNCHANGED <<queuing, task, running, late>>
      BY <1>1, <2>2 DEF Pop, PopTakes, collector, files
    <3>2. \A t : Popped(t)' \subseteq Popped(t)
      BY <3>1 DEF Popped, Abandoned
    <3> QED
      BY <3>1, <3>2 DEF QuietStep
  <2> QED
    BY <2>1, <2>2
<1>2. CASE workerReduce(w)
  <2>1. /\ UNCHANGED <<queuing, running, late, task, master>>
        /\ \A v \in Worker : pc'[v] = "push" <=> pc[v] = "push"
    BY <1>0, <1>2, ReduceShape DEF queues, collector
  <2> QED
    BY <2>1, SamePopped DEF QuietStep
<1>3. CASE CallAskTask(w) \/ CallTaskDone(w) \/ AskSize(w) \/ AskEnd(w) \/ LastMap(w)
           \/ workerMap(w) \/ Crash(w)
  <2>1. UNCHANGED <<queuing, running, late, task, master>>
    BY <1>3 DEF CallAskTask, CallTaskDone, Call, AskSize, AskEnd, Look, LastMap, workerMap,
       Crash, queues, collector
  <2>2. \A v \in Worker : pc'[v] = "push" <=> pc[v] = "push"
    BY <1>0, <1>3 DEF CallAskTask, CallTaskDone, Call, AskSize, AskEnd, Look, LastMap,
       workerMap, Crash, Return, WorkerSteps
  <2> QED
    BY <2>1, <2>2, SamePopped DEF QuietStep
<1> QED
  BY <1>1, <1>2, <1>3 DEF WorkerStep

\* What the collector takes out of the running tasks it holds, and what it holds
\* it puts back.
LEMMA CollectorMoves ==
  ASSUME TypeOK, TimeOutQueue \/ Requeue
  PROVE  /\ task' = task /\ pc' = pc /\ master' = master /\ inter' = inter /\ out' = out
         /\ \A t : Popped(t)' = Popped(t)
         /\ \A t \in Task :
              /\ queuing'[t] \in Nat /\ running'[t] \in Nat /\ late'[t] \in Nat
              /\ queuing'[t] + running'[t] + late'[t] = queuing[t] + running[t] + late[t]
<1>0. /\ queuing \in [Task -> Nat] /\ running \in [Task -> Nat] /\ late \in [Task -> Nat]
  BY DEF TypeOK
<1>1. task' = task /\ pc' = pc /\ master' = master /\ inter' = inter /\ out' = out
  BY DEF TimeOutQueue, Requeue, files
<1>2. \A t : Popped(t)' = Popped(t)
  BY <1>1, SamePopped
<1>3. ASSUME NEW t \in Task
      PROVE  /\ queuing'[t] \in Nat /\ running'[t] \in Nat /\ late'[t] \in Nat
             /\ queuing'[t] + running'[t] + late'[t] = queuing[t] + running[t] + late[t]
  <2>1. CASE TimeOutQueue
    <3>1. PICK b \in [Task -> UNION {0..running[u] : u \in Task}] :
                 /\ \A u \in Task : b[u] <= running[u]
                 /\ running' = WithoutLate(running, b) /\ late' = b
      BY <2>1 DEF TimeOutQueue
    <3>2. b[t] \in Nat
      BY <1>0
    <3>3. late[t] = 0 /\ queuing' = queuing /\ running'[t] = running[t] - b[t] /\ b[t] <= running[t]
      BY <2>1, <3>1 DEF TimeOutQueue, None, WithoutLate
    <3> QED
      BY <1>0, <3>1, <3>2, <3>3
  <2>2. CASE Requeue
    <3>1. late'[t] = 0 /\ running' = running /\ queuing'[t] = queuing[t] + late[t]
      BY <2>2 DEF Requeue, None, Requeued
    <3> QED
      BY <1>0, <3>1
  <2> QED
    BY <2>1, <2>2
<1> QED
  BY <1>1, <1>2, <1>3

\* Every step keeps a single copy of a map task.
LEMMA OnceStep ==
  ASSUME TypeOK, Next \/ UNCHANGED vars, MapOnce
  PROVE  MapOnce'
<1> SUFFICES ASSUME NEW t \in MapTask PROVE OnceInv(t)'
  BY DEF MapOnce, OnceInv
<1>0. /\ t \in Task /\ OnceInv(t)
      /\ queuing \in [Task -> Nat] /\ running \in [Task -> Nat] /\ late \in [Task -> Nat]
      /\ pc \in [Worker -> HandlerSteps \cup WorkerSteps] /\ task \in [Worker -> Task]
      /\ queuing[t] \in Nat /\ running[t] \in Nat /\ late[t] \in Nat
  BY DEF TypeOK, Task, MapOnce, OnceInv
<1>1. ASSUME QuietStep PROVE OnceInv(t)'
  BY <1>0, <1>1 DEF QuietStep, OnceInv
<1>2. CASE TimeOutQueue \/ Requeue
  BY <1>0, <1>2, CollectorMoves DEF OnceInv
<1>3. CASE Done
  <2>1. \A u : Popped(u)' \subseteq Popped(u)
    BY <1>3 DEF Done, Abandoned, Popped
  <2> QED
    BY <1>1, <1>3, <2>1 DEF Done, QuietStep, queues, collector
<1>4. CASE UNCHANGED vars
  <2>1. \A u : Popped(u)' = Popped(u)
    BY <1>4, SamePopped DEF vars
  <2> QED
    BY <1>1, <1>4, <2>1 DEF vars, QuietStep, queues, collector
<1>5. ASSUME NEW w \in Worker, WorkerStep(w) PROVE OnceInv(t)'
  <2>1. ASSUME NEW u \in Task, PopTakes(w, u) PROVE OnceInv(t)'
    <3>1. CASE u = t
      <4>1. queuing[t] = 1 /\ running[t] = 0 /\ late[t] = 0 /\ Popped(t) = {}
        BY <1>0, <2>1, <3>1 DEF PopTakes, OnceInv
      <4>2. queuing'[t] = 0 /\ running'[t] = 0 /\ late'[t] = 0
        BY <1>0, <2>1, <3>1, <4>1 DEF PopTakes, Take
      <4>3. Popped(t)' \subseteq {w}
        BY <1>0, <2>1, <4>1 DEF PopTakes, Popped
      <4> QED
        BY <4>2, <4>3 DEF OnceInv
    <3>2. CASE u # t
      <4>1. queuing'[t] = queuing[t] /\ running' = running /\ late' = late
        BY <1>0, <2>1, <3>2 DEF PopTakes, Take
      <4>2. Popped(t)' \subseteq Popped(t)
        BY <1>0, <2>1, <3>2 DEF PopTakes, Popped
      <4> QED
        BY <1>0, <4>1, <4>2 DEF OnceInv
    <3> QED
      BY <3>1, <3>2
  <2>2. CASE PushRunning(w)
    <3>1. /\ pc[w] = "push" /\ queuing' = queuing /\ late' = late /\ task' = task
          /\ running' = Push(running, task[w]) /\ pc'[w] # "push"
          /\ \A v \in Worker : v # w => pc'[v] = pc[v]
      BY <1>0, <2>2 DEF PushRunning, collector
    <3>2. CASE task[w] = t
      <4>1. w \in Popped(t)
        BY <3>1, <3>2 DEF Popped
      <4>2. queuing[t] = 0 /\ running[t] = 0 /\ late[t] = 0 /\ Popped(t) = {w}
        BY <1>0, <4>1 DEF OnceInv
      <4>3. Popped(t)' = {}
        BY <3>1, <4>2 DEF Popped
      <4>4. queuing'[t] = 0 /\ running'[t] = 1 /\ late'[t] = 0
        BY <1>0, <3>1, <3>2, <4>2 DEF Push
      <4> QED
        BY <4>3, <4>4 DEF OnceInv
    <3>3. CASE task[w] # t
      <4>1. Popped(t)' \subseteq Popped(t)
        BY <3>1 DEF Popped
      <4>2. running'[t] = running[t]
        BY <1>0, <3>1, <3>3 DEF Push
      <4> QED
        BY <1>0, <3>1, <4>1, <4>2 DEF OnceInv
    <3> QED
      BY <3>2, <3>3
  <2>3. CASE RemoveRunning(w)
    <3>1. /\ queuing' = queuing /\ late' = late /\ task' = task
          /\ \A v \in Worker : pc'[v] = "push" <=> pc[v] = "push"
          /\ running'[t] \in {0, running[t]}
      BY <1>0, <2>3 DEF RemoveRunning, RemoveTask, Return, collector
    <3>2. Popped(t)' = Popped(t)
      BY <3>1, SamePopped
    <3> QED
      BY <1>0, <3>1, <3>2 DEF OnceInv
  <2>4. CASE createReduceTask(w)
    <3>1. /\ running' = running /\ late' = late /\ task' = task
          /\ \A v \in Worker : pc'[v] = "push" <=> pc[v] = "push"
      BY <1>0, <2>4 DEF createReduceTask, Return, collector
    <3>2. t # [kind |-> "reduce", id |-> n[w] + 1]
      BY DEF MapTask
    <3>3. queuing'[t] = queuing[t]
      BY <1>0, <2>4, <3>2 DEF createReduceTask, Push
    <3>4. Popped(t)' = Popped(t)
      BY <3>1, SamePopped
    <3> QED
      BY <1>0, <3>1, <3>3, <3>4 DEF OnceInv
  <2> QED
    BY <1>1, <1>5, <2>1, <2>2, <2>3, <2>4, WorkerQuiet
<1> QED
  BY <1>2, <1>3, <1>4, <1>5 DEF Next

\* Every step keeps hold of the tasks whose files do not exist yet.
LEMMA LostStep ==
  ASSUME TypeOK, Next \/ UNCHANGED vars, DoneIsFinished, NoTaskLost
  PROVE  NoTaskLost'
<1> SUFFICES ASSUME master' = "up", NEW t,
                    t \in MapTask \/ \E v \in Worker : t = task'[v]
             PROVE  Finished(t)' \/ Known(t)'
  BY DEF NoTaskLost
<1>0. /\ queuing \in [Task -> Nat] /\ running \in [Task -> Nat] /\ late \in [Task -> Nat]
      /\ pc \in [Worker -> HandlerSteps \cup WorkerSteps] /\ task \in [Worker -> Task]
  BY DEF TypeOK
<1>1. Finished(t) => Finished(t)'
  BY FilesGrow
<1>2. ASSUME master = "up", task' = task
      PROVE  t \in Task /\ (Finished(t) \/ Known(t))
  BY <1>0, <1>2 DEF NoTaskLost, Task
<1>3. ASSUME QuietStep PROVE Finished(t)' \/ Known(t)'
  BY <1>1, <1>2, <1>3 DEF QuietStep, Known
<1>4. CASE TimeOutQueue \/ Requeue
  <2>1. t \in Task /\ (Finished(t) \/ Known(t)) /\ Popped(t)' = Popped(t)
    BY <1>2, <1>4, CollectorMoves
  <2>2. /\ queuing[t] \in Nat /\ running[t] \in Nat /\ late[t] \in Nat
        /\ queuing'[t] \in Nat /\ running'[t] \in Nat /\ late'[t] \in Nat
        /\ queuing'[t] + running'[t] + late'[t] = queuing[t] + running[t] + late[t]
    BY <1>0, <1>4, <2>1, CollectorMoves
  <2> QED
    BY <1>1, <2>1, <2>2 DEF Known
<1>5. CASE Done
  BY <1>5 DEF Done
<1>6. CASE UNCHANGED vars
  <2>1. \A u : Popped(u)' = Popped(u)
    BY <1>6, SamePopped DEF vars
  <2> QED
    BY <1>3, <1>6, <2>1 DEF vars, QuietStep, queues, collector
<1>7. ASSUME NEW w \in Worker, WorkerStep(w) PROVE Finished(t)' \/ Known(t)'
  <2>1. ASSUME NEW u \in Task, PopTakes(w, u) PROVE Finished(t)' \/ Known(t)'
    <3>1. CASE u = t
      BY <1>0, <2>1, <3>1 DEF PopTakes, Known, Popped
    <3>2. CASE u # t
      <4>1. t \in MapTask \/ \E v \in Worker : t = task[v]
        BY <1>0, <2>1, <3>2 DEF PopTakes
      <4>2. t \in Task /\ (Finished(t) \/ Known(t))
        BY <1>0, <2>1, <4>1 DEF NoTaskLost, Task, PopTakes
      <4>3. queuing'[t] = queuing[t] /\ running' = running /\ late' = late
        BY <1>0, <2>1, <3>2, <4>2 DEF PopTakes, Take
      <4>4. Popped(t) \subseteq Popped(t)'
        BY <1>0, <2>1, <3>2 DEF PopTakes, Popped
      <4> QED
        BY <1>1, <4>2, <4>3, <4>4 DEF Known
    <3> QED
      BY <3>1, <3>2
  <2>2. CASE PushRunning(w)
    <3>1. /\ queuing' = queuing /\ late' = late /\ task' = task /\ master' = master
          /\ running' = Push(running, task[w])
          /\ \A v \in Worker : v # w => pc'[v] = pc[v]
      BY <1>0, <2>2 DEF PushRunning, collector
    <3>2. t \in Task /\ (Finished(t) \/ Known(t))
      BY <1>2, <3>1
    <3>3. CASE task[w] = t
      <4>1. running'[t] = running[t] + 1 /\ running[t] \in Nat
        BY <1>0, <3>1, <3>2, <3>3 DEF Push
      <4> QED
        BY <4>1 DEF Known
    <3>4. CASE task[w] # t
      <4>1. running'[t] = running[t]
        BY <1>0, <3>1, <3>2, <3>4 DEF Push
      <4>2. Popped(t) \subseteq Popped(t)'
        BY <3>1, <3>4 DEF Popped
      <4> QED
        BY <1>1, <3>1, <3>2, <4>1, <4>2 DEF Known
    <3> QED
      BY <3>3, <3>4
  <2>3. CASE RemoveRunning(w)
    <3>1. /\ queuing' = queuing /\ late' = late /\ task' = task /\ master' = master
          /\ running' = RemoveTask(running, task[w]) /\ pc[w] = "remove"
          /\ \A v \in Worker : pc'[v] = "push" <=> pc[v] = "push"
      BY <1>0, <2>3 DEF RemoveRunning, Return, collector
    <3>2. Popped(t)' = Popped(t) /\ t \in Task /\ (Finished(t) \/ Known(t))
      BY <1>2, <3>1, SamePopped
    <3>3. Finished(task[w])
      BY <3>1 DEF DoneIsFinished, DoneSteps
    <3>4. CASE t = task[w]
      BY <1>1, <3>3, <3>4
    <3>5. CASE t # task[w]
      <4>1. running'[t] = running[t]
        BY <1>0, <3>1, <3>2, <3>5 DEF RemoveTask
      <4> QED
        BY <1>1, <3>1, <3>2, <4>1 DEF Known
    <3> QED
      BY <3>4, <3>5
  <2>4. CASE createReduceTask(w)
    <3>1. /\ running' = running /\ late' = late /\ task' = task /\ master' = master
          /\ queuing' = Push(queuing, [kind |-> "reduce", id |-> n[w] + 1])
          /\ \A v \in Worker : pc'[v] = "push" <=> pc[v] = "push"
      BY <1>0, <2>4 DEF createReduceTask, Return, collector
    <3>2. Popped(t)' = Popped(t) /\ t \in Task /\ (Finished(t) \/ Known(t))
      BY <1>2, <3>1, SamePopped
    <3>3. queuing[t] \in Nat /\ queuing'[t] \in {queuing[t], queuing[t] + 1}
      BY <1>0, <3>1, <3>2 DEF Push
    <3>4. queuing[t] > 0 => queuing'[t] > 0
      BY <3>3
    <3> QED
      BY <1>1, <3>1, <3>2, <3>4, Zenon DEF Known
  <2> QED
    BY <1>3, <1>7, <2>1, <2>2, <2>3, <2>4, WorkerQuiet
<1> QED
  BY <1>4, <1>5, <1>6, <1>7 DEF Next

----------------------------------------------------------------------------
(* The theorems.                                                           *)

\* In the first state all map tasks wait, once each, and nothing is reported.
LEMMA InitInv == Init => IndInv
<1> SUFFICES ASSUME Init PROVE IndInv
  OBVIOUS
<1>1. TypeOK
  BY InitTypes
<1>2. CounterInv /\ DoneIsFinished
  BY DEF Init, CounterInv, DoneIsFinished, DoneSteps
<1>3. \A t : Popped(t) = {}
  BY DEF Init, Popped
<1>4. \A t \in MapTask : queuing[t] = 1 /\ running[t] = 0 /\ late[t] = 0
  BY DEF Init, None, MapTask, Task
<1>5. MapOnce
  BY <1>3, <1>4 DEF MapOnce
<1>6. \A w \in Worker : task[w] \in MapTask
  BY JobAssumption DEF Init, FirstTask, MapTask, File
<1>7. NoTaskLost
  BY <1>4, <1>6 DEF NoTaskLost, Known
<1> QED
  BY <1>1, <1>2, <1>5, <1>7 DEF IndInv

\* Every step keeps the invariant.
LEMMA StepInv == IndInv /\ [Next]_vars => IndInv'
<1> SUFFICES ASSUME IndInv, Next \/ UNCHANGED vars PROVE IndInv'
  OBVIOUS
<1>0. TypeOK /\ CounterInv /\ DoneIsFinished /\ MapOnce /\ NoTaskLost
  BY DEF IndInv
<1>1. TypeOK'
  <2>1. CASE TimeOutQueue \/ Requeue \/ Done
    BY <1>0, <2>1, MasterTypes
  <2>2. CASE UNCHANGED vars
    BY <1>0, <2>2 DEF vars, queues, collector, files, TypeOK
  <2>3. ASSUME NEW w \in Worker, WorkerStep(w) PROVE TypeOK'
    BY <1>0, <2>3, WorkerTypes
  <2> QED
    BY <2>1, <2>2, <2>3 DEF Next
<1>2. CounterInv' /\ DoneIsFinished'
  BY <1>0, WorkerInvStep
<1>3. MapOnce'
  BY <1>0, OnceStep
<1>4. NoTaskLost'
  BY <1>0, LostStep
<1> QED
  BY <1>1, <1>2, <1>3, <1>4 DEF IndInv

\* The queues, the collector, the workers and the files keep their types.
THEOREM TypeCorrect == Spec => []TypeOK
<1>1. IndInv => TypeOK
  BY DEF IndInv
<1> QED
  BY <1>1, InitInv, StepInv, PTL DEF Spec

\* A worker that calls TaskDone, and the handler of that call, have a task whose
\* files are all on disk.
THEOREM ReportedIsFinished == Spec => []DoneIsFinished
<1>1. IndInv => DoneIsFinished
  BY DEF IndInv
<1> QED
  BY <1>1, InitInv, StepInv, PTL DEF Spec

\* The queues of the master, the collector and the handlers of AskTask hold at most
\* one copy of a map task between them.
THEOREM MapsOnce == Spec => []MapOnce
<1>1. IndInv => MapOnce
  BY DEF IndInv
<1> QED
  BY <1>1, InitInv, StepInv, PTL DEF Spec

\* While the master is up it has every map task, and every reduce task that was
\* given out, until the files of the task exist.
THEOREM NothingLost == Spec => []NoTaskLost
<1>1. IndInv => NoTaskLost
  BY DEF IndInv
<1> QED
  BY <1>1, InitInv, StepInv, PTL DEF Spec
=============================================================================
