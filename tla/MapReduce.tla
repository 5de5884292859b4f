----------------------------- MODULE MapReduce -----------------------------
(***************************************************************************)
(* The MapReduce master of master.go and the workers of worker.go.  The    *)
(* handlers AskTask and TaskDone run in goroutines of their own, so the    *)
(* steps between two locks of a TaskQueue, and the reads of Size, which    *)
(* takes no lock, interleave with those of other handlers and of the       *)
(* goroutine CollectTimeOutQueue.                                          *)
(*                                                                         *)
(* A worker waits for its call, so one program counter serves the worker   *)
(* and the handler of its call.  The order of a queue is left out: a queue *)
(* is a bag, and Pop may take any task of it.                              *)
(***************************************************************************)
EXTENDS Naturals, Sequences, SequencesExt

CONSTANTS Worker,               \* worker processes
          NFiles, NReduce,      \* len(files), nReduce
          Contents,             \* the words of each input file
          ihash,                \* the hash of each word
          MaxTimeouts           \* bound: how many tasks run out of time

ASSUME JobAssumption == NFiles \in Nat \ {0} /\ NReduce \in Nat \ {0}
ASSUME ContentsAssumption ==
  /\ \A f \in 1..NFiles : \A i \in DOMAIN Contents[f] : ihash[Contents[f][i]] \in Nat
  /\ \A key \in {"a", "b", "c", "d"} : ihash[key] \in Nat
ASSUME TimeoutsAssumption == MaxTimeouts \in Nat

VARIABLES
  queuing,                      \* mapTaskQueuing and reduceTaskQueuing
  running,                      \* mapTaskRunning and reduceTaskRunning
  isDone,
  master,                       \* the master process: up, exited or panicked
  late, sweep,                  \* CollectTimeOutQueue: tasks in its hands, and
                                \* the queue it looks at
  timeouts,                     \* tasks run out of time so far
  pc, alive, task, n,           \* workers: control, process, TaskInfo, counter
  inter,                        \* the files mr-<file>-<part>
  out                           \* the files mr-out-<part>, with their lines

queues == <<queuing, running>>
files == <<inter, out>>
collector == <<late, sweep, timeouts>>
vars == <<queues, isDone, master, collector, pc, alive, task, n, files>>

Kind == {"map", "reduce"}
File == 1..NFiles
Part == 1..NReduce

\* TaskInfo: FileIndex or PartIndex, by State
MapTask == [kind : {"map"}, id : File]
ReduceTask == [kind : {"reduce"}, id : Part]
Task == MapTask \cup ReduceTask

\* steps of AskTask and of TaskDone at the master
AskSteps == {"reduceSize", "reducePop", "mapSize", "mapPop", "push", "mapsRun",
             "reducesRun"}
DoneSteps == {"remove", "noMapRuns", "noMapQueues", "create"}
HandlerSteps == AskSteps \cup DoneSteps
\* steps of the worker itself; stop is the end of the process
WorkerSteps == {"ask", "work", "done", "stop"}

TypeOK ==
  /\ queuing \in [Task -> Nat] /\ running \in [Task -> Nat]
  /\ isDone \in BOOLEAN
  /\ master \in {"up", "exited", "panicked"}
  /\ late \in [Task -> Nat] /\ sweep \in Kind
  /\ timeouts \in 0..MaxTimeouts
  /\ pc \in [Worker -> HandlerSteps \cup WorkerSteps]
  /\ alive \in [Worker -> BOOLEAN]
  /\ task \in [Worker -> Task]
  /\ n \in [Worker -> Nat]
  /\ inter \subseteq File \X Part
  /\ \A o \in out : o.part \in Part

None == [t \in Task |-> 0]
FirstTask == [kind |-> "map", id |-> 1]

\* MakeMaster, and the workers that mrworker starts
Init ==
  /\ queuing = [t \in Task |-> IF t.kind = "map" THEN 1 ELSE 0]
  /\ running = None
  /\ isDone = FALSE
  /\ master = "up"
  /\ late = None /\ sweep = "reduce" /\ timeouts = 0
  /\ pc = [w \in Worker |-> "ask"]
  /\ alive = [w \in Worker |-> TRUE]
  /\ task = [w \in Worker |-> FirstTask]
  /\ n = [w \in Worker |-> 0]
  /\ inter = {} /\ out = {}

----------------------------------------------------------------------------
(* TaskQueue.                                                              *)

\* q.Size() > 0 for the queue of kind k
NonEmpty(q, k) == \E t \in Task : t.kind = k /\ q[t] > 0

Push(q, t) == [q EXCEPT ![t] = @ + 1]

Take(q, t) == [q EXCEPT ![t] = @ - 1]

\* faulty variant: one entry goes, whether it is there or not
RemoveOne(q, t) == Take(q, t)

\* every entry with the indices of t goes
RemoveTask(q, t) == [q EXCEPT ![t] = 0]

\* the handler returns: its worker goes on, if it is still there
Return(w) == IF alive[w] THEN "ask" ELSE "stop"

\* the calls in progress fail when the master is gone: AskTask leaves a zero
\* TaskInfo, a map task without a file, on which the worker exits; after
\* TaskDone the next call cannot be dialled
Abandoned == [w \in Worker |-> IF pc[w] \in HandlerSteps THEN "stop" ELSE pc[w]]

----------------------------------------------------------------------------
(* AskTask, called by CallAskTask.                                         *)

\* rpc.DialHTTP fails once the master is gone, and the worker exits
Call(w, from, to) ==
  /\ pc[w] = from
  /\ pc' = [pc EXCEPT ![w] = IF master = "up" THEN to ELSE "stop"]
  /\ UNCHANGED <<queues, isDone, master, collector, alive, task, n, files>>

CallAskTask(w) == Call(w, "ask", "reduceSize")
CallTaskDone(w) == Call(w, "done", "remove")

\* an unlocked reading of whether the queue q of kind k has a task
Look(w, at, q, k, yes, no) ==
  /\ pc[w] = at
  /\ pc' = [pc EXCEPT ![w] = IF NonEmpty(q, k) THEN yes ELSE no]
  /\ UNCHANGED <<queues, isDone, master, collector, alive, task, n, files>>

\* Size() > 0, of the queue of reduce tasks first
AskSize(w) ==
  \/ Look(w, "reduceSize", queuing, "reduce", "reducePop", "mapSize")
  \/ Look(w, "mapSize", queuing, "map", "mapPop", "mapsRun")

\* Pop takes the lock anew: on a queue that has become empty it indexes
\* taskArray[-1], and the panic ends the master
Pop(w) ==
  /\ pc[w] \in {"reducePop", "mapPop"}
  /\ LET k == IF pc[w] = "mapPop" THEN "map" ELSE "reduce" IN
     \/ \E t \in Task :
          /\ t.kind = k /\ queuing[t] > 0
          /\ queuing' = Take(queuing, t)
          /\ task' = [task EXCEPT ![w] = t]
          /\ pc' = [pc EXCEPT ![w] = "push"]
          /\ UNCHANGED master
     \/ /\ ~NonEmpty(queuing, k)
        /\ master' = "panicked"
        /\ pc' = Abandoned
        /\ UNCHANGED <<queuing, task>>
  /\ UNCHANGED <<running, isDone, collector, alive, n, files>>

\* SetNow, Push to the running queue and the reply
PushRunning(w) ==
  /\ pc[w] = "push"
  /\ running' = Push(running, task[w])
  /\ n' = [n EXCEPT ![w] = 0]
  /\ pc' = [pc EXCEPT ![w] = IF alive[w] THEN "work" ELSE "stop"]
  /\ UNCHANGED <<queuing, isDone, master, collector, alive, task, files>>

\* mapTaskRunning.Size() == 0 && reduceTaskRunning.Size() == 0: TaskEnd, on
\* which the worker exits, or TaskWait
AskEnd(w) ==
  \/ Look(w, "mapsRun", running, "map", Return(w), "reducesRun")
  \/ /\ pc[w] = "reducesRun"
     /\ isDone' = (isDone \/ ~NonEmpty(running, "reduce"))
     /\ pc' = [pc EXCEPT ![w] = IF NonEmpty(running, "reduce") THEN Return(w)
                                                               ELSE "stop"]
     /\ UNCHANGED <<queues, master, collector, alive, task, n, files>>

----------------------------------------------------------------------------
(* The work itself, with each of the plugins of mrapps/.                   *)

App == {"wc", "indexer", "crash"}

\* wc.Map: one pair for each word
wcMap(f) ==
  [i \in DOMAIN Contents[f] |-> [Key |-> Contents[f][i], Value |-> 1]]

\* indexer.Map: one pair for each distinct word, with the name of the file
indexerMap(f) ==
  LET words == SetToSeq({Contents[f][i] : i \in DOMAIN Contents[f]}) IN
  [i \in DOMAIN words |-> [Key |-> words[i], Value |-> f]]

\* crash.Map and nocrash.Map: the same keys for every file; names have one length
crashMap(f) ==
  <<[Key |-> "a", Value |-> f], [Key |-> "b", Value |-> 1],
    [Key |-> "c", Value |-> Len(Contents[f])], [Key |-> "d", Value |-> 0]>>

\* loadPlugin
Map(app, f) == CASE app = "wc" -> wcMap(f)
                 [] app = "indexer" -> indexerMap(f)
                 [] app = "crash" -> crashMap(f)

\* wc.Reduce: the number of the values
wcReduce(values) == Len(values)

\* indexer.Reduce: how many files, and which
indexerReduce(values) == <<Len(values), SortSeq(values, <)>>

\* crash.Reduce and nocrash.Reduce
crashReduce(values) == SortSeq(values, <)

Reduce(app, values) == CASE app = "wc" -> wcReduce(values)
                         [] app = "indexer" -> indexerReduce(values)
                         [] app = "crash" -> crashReduce(values)

\* ihash(kv.Key) % nReduce
PartOf(key) == (ihash[key] % NReduce) + 1

\* what mr-<f>-<p> holds
Bucket(app, f, p) == SelectSeq(Map(app, f), LAMBDA kv : PartOf(kv.Key) = p)

\* sort by key, then one call of Reduce and one line for each distinct key
Lines(app, pairs) ==
  LET keys == {pairs[i].Key : i \in DOMAIN pairs}
      group(k) == SelectSeq(pairs, LAMBDA kv : kv.Key = k)
      values(k) == [i \in DOMAIN group(k) |-> group(k)[i].Value]
  IN {<<k, Reduce(app, values(k))>> : k \in keys}

\* mrsequential: all files, one output
Sequential(app) == Lines(app, FlattenSeq([f \in File |-> Map(app, f)]))

\* faulty variant: the loop over outFiles ends one file early
OutFilesButOne == NReduce - 1

\* len(outFiles)
OutFiles == NReduce

\* workerMap: the outputs are written to temporary files, then renamed one
\* after the other
workerMap(w) ==
  /\ pc[w] = "work" /\ task[w].kind = "map"
  /\ n' = [n EXCEPT ![w] = @ + 1]
  /\ inter' = inter \cup {<<task[w].id, n[w] + 1>>}
  /\ pc' = [pc EXCEPT ![w] = IF n[w] + 1 = OutFiles THEN "done" ELSE @]
  /\ UNCHANGED <<queues, isDone, master, collector, alive, task, out>>

\* faulty variant: the loop ends one file early
InputsButOne == NFiles - 1

\* newTaskInfo.NFiles = len(m.filenames)
Inputs == NFiles

\* workerReduce: the inputs are read one after the other, and a missing one
\* ends the worker; the output is renamed last
workerReduce(w) ==
  /\ pc[w] = "work" /\ task[w].kind = "reduce"
  /\ IF n[w] = Inputs
     THEN /\ out' = out \cup {[part |-> task[w].id,
                               lines |-> [app \in App |-> Lines(app, FlattenSeq(
                                 [f \in 1..n[w] |-> Bucket(app, f, task[w].id)]))]]}
          /\ pc' = [pc EXCEPT ![w] = "done"]
          /\ UNCHANGED n
     ELSE /\ UNCHANGED out
          /\ IF <<n[w] + 1, task[w].id>> \in inter
             THEN n' = [n EXCEPT ![w] = @ + 1] /\ UNCHANGED pc
             ELSE pc' = [pc EXCEPT ![w] = "stop"] /\ UNCHANGED n
  /\ UNCHANGED <<queues, isDone, master, collector, alive, task, inter>>

----------------------------------------------------------------------------
(* TaskDone, called by CallTaskDone.                                       *)

RemoveRunning(w) ==
  /\ pc[w] = "remove"
  /\ running' = RemoveTask(running, task[w])
  /\ pc' = [pc EXCEPT ![w] = IF task[w].kind = "map" THEN "noMapRuns"
                                                     ELSE Return(w)]
  /\ UNCHANGED <<queuing, isDone, master, collector, alive, task, n, files>>

\* mapTaskRunning.Size() == 0 && mapTaskQueuing.Size() == 0
LastMap(w) ==
  \/ Look(w, "noMapRuns", running, "map", Return(w), "noMapQueues")
  \/ /\ pc[w] = "noMapQueues"
     /\ pc' = [pc EXCEPT ![w] = IF NonEmpty(queuing, "map") THEN Return(w)
                                                            ELSE "create"]
     /\ n' = [n EXCEPT ![w] = 0]
     /\ UNCHANGED <<queues, isDone, master, collector, alive, task, files>>

\* one Push after the other
createReduceTask(w) ==
  /\ pc[w] = "create"
  /\ queuing' = Push(queuing, [kind |-> "reduce", id |-> n[w] + 1])
  /\ n' = [n EXCEPT ![w] = @ + 1]
  /\ pc' = [pc EXCEPT ![w] = IF n[w] + 1 = NReduce THEN Return(w) ELSE @]
  /\ UNCHANGED <<running, isDone, master, collector, alive, task, files>>

----------------------------------------------------------------------------
(* CollectTimeOutQueue, the end of the master, crashes.                    *)

OtherKind(k) == IF k = "map" THEN "reduce" ELSE "map"

\* faulty variant: late tasks stay in the queue
KeepLate(q, b) == q

\* taskArray without the late tasks
WithoutLate(q, b) == [t \in Task |-> q[t] - b[t]]

\* some of the running tasks of one kind are older than ten seconds
TimeOutQueue ==
  /\ master = "up" /\ late = None
  /\ \E b \in [Task -> UNION {0..running[t] : t \in Task}] :
       /\ \A t \in Task : b[t] <= running[t] /\ (t.kind # sweep => b[t] = 0)
       /\ running' = WithoutLate(running, b)
       /\ late' = b
       /\ \/ b = None /\ sweep' = OtherKind(sweep) /\ UNCHANGED timeouts
          \/ /\ b # None /\ timeouts < MaxTimeouts
             /\ timeouts' = timeouts + 1
             /\ UNCHANGED sweep
  /\ UNCHANGED <<queuing, isDone, master, pc, alive, task, n, files>>

\* faulty variant: a single late task is overlooked
RequeueMany(q, b) ==
  IF \E t, u \in Task : t # u /\ b[t] > 0 /\ b[u] > 0
  THEN [t \in Task |-> q[t] + b[t]] ELSE q

\* append(taskArray, timeoutQueue...)
Requeued(q, b) == [t \in Task |-> q[t] + b[t]]

Requeue ==
  /\ master = "up" /\ late # None
  /\ queuing' = Requeued(queuing, late)
  /\ late' = None
  /\ sweep' = OtherKind(sweep)
  /\ UNCHANGED <<running, isDone, master, timeouts, pc, alive, task, n, files>>

\* the main loop of mrmaster finds Done() true, and the process ends
Done ==
  /\ master = "up" /\ isDone
  /\ master' = "exited"
  /\ pc' = Abandoned
  /\ UNCHANGED <<queues, isDone, collector, alive, task, n, files>>

\* a worker process dies; the handler of its call goes on
Crash(w) ==
  /\ alive[w] /\ pc[w] # "stop"
  /\ alive' = [alive EXCEPT ![w] = FALSE]
  /\ pc' = [pc EXCEPT ![w] = IF @ \in WorkerSteps THEN "stop" ELSE @]
  /\ UNCHANGED <<queues, isDone, master, collector, task, n, files>>

WorkerStep(w) ==
  \/ CallAskTask(w) \/ AskSize(w) \/ Pop(w) \/ PushRunning(w) \/ AskEnd(w)
  \/ workerMap(w) \/ workerReduce(w)
  \/ CallTaskDone(w) \/ RemoveRunning(w) \/ LastMap(w) \/ createReduceTask(w)
  \/ Crash(w)

Next == TimeOutQueue \/ Requeue \/ Done \/ \E w \in Worker : WorkerStep(w)

Spec == Init /\ [][Next]_vars

----------------------------------------------------------------------------
(* Properties.                                                             *)

\* the work of a task is on disk
Finished(t) ==
  IF t.kind = "map" THEN \A p \in Part : <<t.id, p>> \in inter
  ELSE \E o \in out : o.part = t.id

\* copies of a task the master knows of: waiting, given out, in the hands of the
\* collector, or between Pop and Push
Popped(t) == {w \in Worker : pc[w] = "push" /\ task[w] = t}
Known(t) == queuing[t] > 0 \/ running[t] > 0 \/ late[t] > 0 \/ Popped(t) # {}

\* No task is lost: until its files exist the master has it somewhere, whatever
\* the workers that had it did, and however late a TaskDone of an earlier attempt
\* arrives.  Map tasks exist from the start, a reduce task once it is given out.
NoTaskLost ==
  master = "up" =>
    \A t \in MapTask \cup {task[w] : w \in Worker} : Finished(t) \/ Known(t)

\* With each of the plugins an output has the lines that mrsequential prints for
\* the keys of its part, and the outputs together all of its lines, each once,
\* although workers crash, tasks are done twice and reduce tasks may be given out
\* before the last map is done.
OutputsAreSequential ==
  \A app \in App :
    LET parts == {o.part : o \in out} IN
    /\ \A o \in out : o.lines[app] \subseteq Sequential(app)
    /\ \A o1, o2 \in out : o1 = o2 \/ o1.lines[app] \cap o2.lines[app] = {}
    /\ parts = Part => UNION {o.lines[app] : o \in out} = Sequential(app)

\* A TaskDone is only accepted for work that is on disk, also when the task has
\* been given to another worker meanwhile.
DoneIsFinished ==
  \A w \in Worker : pc[w] \in {"done"} \cup DoneSteps => Finished(task[w])

\* There is never more than one copy of a map task at the master: a map that ran
\* out of time and is then reported done is not queued twice.
MapOnce ==
  \A t \in MapTask :
    /\ queuing[t] + running[t] + late[t] <= 1
    /\ Popped(t) # {} => queuing[t] + running[t] + late[t] = 0
    /\ \A v, w \in Popped(t) : v = w

\* Done() is true only when the entire job has finished.
DoneMeansFinished == isDone => \A t \in Task : Finished(t)
============================================================================
