------------------------ MODULE SupervisedThreadPool ------------------------
(***************************************************************************)
(* SupervisedThreadPool (src/SupervisedThreadPool.cpp): a controller       *)
(* thread that starts and stops the pool, submitters, worker threads, and  *)
(* the supervisor that replaces workers.                                   *)
(*                                                                         *)
(* Steps end where another thread can get in between: at the atomic        *)
(* m_running, at the two mutexes, and inside condition_variable::wait.     *)
(* m_running is stored by the controller without either mutex, so a thread *)
(* that has tested its wait condition and not yet gone to sleep is a state *)
(* of its own ("towait").                                                  *)
(***************************************************************************)
EXTENDS Naturals, Sequences, FiniteSets

CONSTANTS
  NumWorkers,      \* the largest argument of start()
  Submitters,      \* threads that call submit()
  MaxQueueSize,    \* m_maxQueueSize; 0 is no limit
  MaxSubmits,      \* bound: calls of submit that get past m_running
  MaxStarts,       \* bound: calls of start()
  MaxStops,        \* bound: calls of stop(), those inside start() excluded
  MaxExits,        \* bound: workers that end on their own (see Interrupted)
  MaxSpurious,     \* bound: spurious wakeups
  MaxThreads       \* bound: worker threads ever created

ASSUME PoolAssumption ==
  /\ NumWorkers \in Nat \ {0}
  /\ MaxQueueSize \in Nat /\ MaxSubmits \in Nat /\ MaxStarts \in Nat /\ MaxStops \in Nat
  /\ MaxExits \in Nat /\ MaxSpurious \in Nat /\ MaxThreads \in Nat

VARIABLES
  m_running,
  m_workers,      \* sequence of thread handles; NoThread is a joined handle
  m_tasks,        \* queue of task numbers
  m_finishedIds,  \* queue of worker ids
  tasksMutex, finishedMutex,   \* who holds m_tasksMutex, m_finishedMutex
  cPc, cIndex, cThen, cNum,    \* controller: where it is, stop()'s/start()'s loop index,
                               \*   whether stop() was called by start(), start()'s argument
  sPc, sTask,     \* submitters: where they are, and the task they carry
  wPc, wId, wTask,             \* worker threads: where, workerId, the task popped
  vPc, vId,       \* supervisor: where, and the id it popped
  spawned,        \* how many worker threads have been created
  submits, starts, stops, exits, spurious,   \* how often each bounded input has happened
  accepted,       \* history: the tasks queued by submit(), in order
  started         \* history: the tasks taken by workers, in order

pool == <<m_running, m_workers>>
queues == <<m_tasks, m_finishedIds>>
mutexes == <<tasksMutex, finishedMutex>>
controller == <<cPc, cIndex, cThen, cNum, starts, stops>>
submitters == <<sPc, sTask, submits, accepted>>
workers == <<wPc, wId, wTask, spawned, exits, started>>
supervisor == <<vPc, vId>>
vars == <<pool, queues, mutexes, controller, submitters, workers, supervisor, spurious>>

Threads == 1 .. MaxThreads
NoThread == 0
NoTask == 0
Supervisor == 0                  \* as the holder of m_finishedMutex
Nobody == MaxThreads + 1         \* a mutex that is free
Ids == 0 .. NumWorkers - 1
Handle(id) == m_workers[id + 1]

Init ==
  /\ m_running = FALSE /\ m_workers = <<>>
  /\ m_tasks = <<>> /\ m_finishedIds = <<>>
  /\ tasksMutex = Nobody /\ finishedMutex = Nobody
  /\ cPc = "idle" /\ cIndex = 0 /\ cThen = "idle" /\ cNum = 0
  /\ starts = 0 /\ stops = 0
  /\ sPc = [s \in Submitters |-> "idle"] /\ sTask = [s \in Submitters |-> NoTask]
  /\ submits = 0 /\ accepted = <<>>
  /\ wPc = [t \in Threads |-> "none"] /\ wId = [t \in Threads |-> 0]
  /\ wTask = [t \in Threads |-> NoTask]
  /\ spawned = 0 /\ exits = 0 /\ started = <<>>
  /\ vPc = "none" /\ vId = 0
  /\ spurious = 0

(***************************************************************************)
(* Condition variables.  A notified thread is "woken": it has left the     *)
(* wait set and must take the mutex again before wait returns.             *)
(***************************************************************************)
TaskWaiters == {t \in Threads : wPc[t] = "waiting"}

(* Mutant: submit() forgets to notify. *)
NotifyNobody == UNCHANGED wPc

(* m_tasksCond.notify_one: any waiter, or nobody if there is none. *)
NotifyOneWorker ==
  \/ TaskWaiters = {} /\ UNCHANGED wPc
  \/ \E t \in TaskWaiters : wPc' = [wPc EXCEPT ![t] = "woken"]

(* Mutant: pushFinished() forgets to notify. *)
NotifyNoSupervisor == UNCHANGED vPc

(* m_finishedCond has one possible waiter, the supervisor. *)
NotifySupervisor == vPc' = IF vPc = "waiting" THEN "woken" ELSE vPc

(***************************************************************************)
(* start() and stop(), called by one controller thread                     *)
(***************************************************************************)
(* stop() l.61-64: m_running is stored without a mutex. *)
StopBegin(then) ==
  /\ m_running' = FALSE
  /\ cPc' = "notifyTasks" /\ cThen' = then

CallStop ==
  /\ cPc = "idle" /\ m_running /\ stops < MaxStops
  /\ stops' = stops + 1
  /\ StopBegin("idle")
  /\ UNCHANGED <<m_workers, queues, mutexes, cIndex, cNum, starts, submitters, workers,
                 supervisor, spurious>>

(* start(n): a running pool is stopped first. *)
CallStart(n) ==
  /\ cPc = "idle" /\ starts < MaxStarts
  /\ starts' = starts + 1 /\ cNum' = n
  /\ IF m_running THEN StopBegin("launch")
     ELSE cPc' = "launch" /\ UNCHANGED <<m_running, cThen>>
  /\ UNCHANGED <<m_workers, queues, mutexes, cIndex, stops, submitters, workers, supervisor, spurious>>

StopNotifyTasks ==
  /\ cPc = "notifyTasks"
  /\ wPc' = [t \in Threads |-> IF wPc[t] = "waiting" THEN "woken" ELSE wPc[t]]
  /\ cPc' = "notifyFinished"
  /\ UNCHANGED <<pool, queues, mutexes, cIndex, cThen, cNum, starts, stops, submitters,
                 wId, wTask, spawned, exits, started, supervisor, spurious>>

StopNotifyFinished ==
  /\ cPc = "notifyFinished"
  /\ NotifySupervisor
  /\ cPc' = "joinWorkers" /\ cIndex' = 1
  /\ UNCHANGED <<pool, queues, mutexes, cThen, cNum, starts, stops, submitters, workers,
                 vId, spurious>>

(* Mutant: join() does not wait for the thread to end. *)
JoinedAtOnce(h) == h = h

(* A handle can be joined once its thread has ended; joining clears it. *)
Joined(h) == h # NoThread => wPc[h] = "dead"

StopJoinWorker ==
  /\ cPc = "joinWorkers" /\ cIndex <= Len(m_workers)
  /\ Joined(m_workers[cIndex])
  /\ m_workers' = [m_workers EXCEPT ![cIndex] = NoThread]
  /\ cIndex' = cIndex + 1
  /\ UNCHANGED <<m_running, queues, mutexes, cPc, cThen, cNum, starts, stops, submitters,
                 workers, supervisor, spurious>>

StopJoinSupervisor ==
  /\ cPc = "joinWorkers" /\ cIndex > Len(m_workers)
  /\ vPc \in {"none", "dead"}
  /\ vPc' = "none"
  /\ cPc' = cThen /\ cThen' = "idle" /\ cIndex' = 0
  /\ UNCHANGED <<pool, queues, mutexes, cNum, starts, stops, submitters, workers, vId, spurious>>

(* start() l.29-32: clear() detaches the handles that are still joinable. *)
StartLaunch ==
  /\ cPc = "launch"
  /\ m_running' = TRUE /\ m_workers' = <<>>
  /\ cPc' = "spawn" /\ cIndex' = 0
  /\ UNCHANGED <<queues, mutexes, cThen, cNum, starts, stops, submitters, workers, supervisor, spurious>>

(* Mutant: worker ids start at one. *)
SpawnFromOne(id) ==
  /\ spawned < MaxThreads
  /\ spawned' = spawned + 1
  /\ wPc' = [wPc EXCEPT ![spawned + 1] = "loop"]
  /\ wId' = [wId EXCEPT ![spawned + 1] = id + 1]

(* A new thread enters workerLoop(id). *)
Spawn(id) ==
  /\ spawned < MaxThreads
  /\ spawned' = spawned + 1
  /\ wPc' = [wPc EXCEPT ![spawned + 1] = "loop"]
  /\ wId' = [wId EXCEPT ![spawned + 1] = id]

StartSpawnWorker ==
  /\ cPc = "spawn" /\ cIndex < cNum
  /\ Spawn(cIndex)
  /\ m_workers' = Append(m_workers, spawned + 1)
  /\ cIndex' = cIndex + 1
  /\ UNCHANGED <<m_running, queues, mutexes, cPc, cThen, cNum, starts, stops, submitters,
                 wTask, exits, started, supervisor, spurious>>

StartSpawnSupervisor ==
  /\ cPc = "spawn" /\ cIndex = cNum
  /\ vPc' = "loop"
  /\ cPc' = "idle" /\ cIndex' = 0 /\ cNum' = 0
  /\ UNCHANGED <<pool, queues, mutexes, cThen, starts, stops, submitters, workers, vId, spurious>>

Controller ==
  \/ CallStop \/ (\E n \in 1 .. NumWorkers : CallStart(n))
  \/ StopNotifyTasks \/ StopNotifyFinished \/ StopJoinWorker \/ StopJoinSupervisor
  \/ StartLaunch \/ StartSpawnWorker \/ StartSpawnSupervisor

(***************************************************************************)
(* submit().  m_running is tested before the mutex is taken.               *)
(***************************************************************************)
SubmitCheckRunning(s) ==
  /\ sPc[s] = "idle" /\ submits < MaxSubmits
  /\ m_running
  /\ submits' = submits + 1
  /\ sTask' = [sTask EXCEPT ![s] = submits + 1]
  /\ sPc' = [sPc EXCEPT ![s] = "lock"]
  /\ UNCHANGED <<pool, queues, mutexes, controller, accepted, workers, supervisor, spurious>>

Full == MaxQueueSize > 0 /\ Len(m_tasks) >= MaxQueueSize

SubmitEnqueue(s) ==
  /\ sPc[s] = "lock" /\ tasksMutex = Nobody
  /\ sTask' = [sTask EXCEPT ![s] = NoTask]
  /\ IF Full THEN sPc' = [sPc EXCEPT ![s] = "idle"] /\ UNCHANGED <<m_tasks, accepted>>
     ELSE /\ m_tasks' = Append(m_tasks, sTask[s])
          /\ accepted' = Append(accepted, sTask[s])
          /\ sPc' = [sPc EXCEPT ![s] = "notify"]
  /\ UNCHANGED <<pool, m_finishedIds, mutexes, controller, submits, workers, supervisor, spurious>>

SubmitNotify(s) ==
  /\ sPc[s] = "notify"
  /\ NotifyOneWorker
  /\ sPc' = [sPc EXCEPT ![s] = "idle"]
  /\ UNCHANGED <<pool, queues, mutexes, controller, sTask, submits, accepted, wId, wTask, spawned,
                 exits, started, supervisor, spurious>>

SubmitStep(s) == SubmitEnqueue(s) \/ SubmitNotify(s)
Submit(s) == SubmitCheckRunning(s) \/ SubmitStep(s)

(***************************************************************************)
(* workerLoop                                                              *)
(***************************************************************************)
Goto(t, pc) == wPc' = [wPc EXCEPT ![t] = pc]

WorkerLoop(t) ==
  /\ wPc[t] = "loop"
  /\ Goto(t, IF m_running THEN "lock" ELSE "exiting")
  /\ UNCHANGED <<pool, queues, mutexes, controller, submitters, wId, wTask, spawned, exits,
                 started, supervisor, spurious>>

(* Take m_tasksMutex, first or on the way out of wait, and test l.102. *)
WorkerLock(t) ==
  /\ wPc[t] \in {"lock", "woken"} /\ tasksMutex = Nobody
  /\ tasksMutex' = t
  /\ Goto(t, IF m_tasks = <<>> /\ m_running THEN "towait" ELSE "decide")
  /\ UNCHANGED <<pool, queues, finishedMutex, controller, submitters, wId, wTask, spawned,
                 exits, started, supervisor, spurious>>

(* m_tasksCond.wait: give up the mutex and go to sleep in one step. *)
WorkerSleep(t) ==
  /\ wPc[t] = "towait"
  /\ tasksMutex' = Nobody
  /\ Goto(t, "waiting")
  /\ UNCHANGED <<pool, queues, finishedMutex, controller, submitters, wId, wTask, spawned,
                 exits, started, supervisor, spurious>>

(* Mutant: the task is copied from the front of the queue and not popped. *)
PopTaskKeepsFront(t) ==
  /\ m_running /\ m_tasks # <<>>
  /\ wTask' = [wTask EXCEPT ![t] = Head(m_tasks)]
  /\ started' = Append(started, Head(m_tasks))
  /\ UNCHANGED m_tasks
  /\ Goto(t, "run")

PopTask(t) ==
  /\ m_running /\ m_tasks # <<>>
  /\ wTask' = [wTask EXCEPT ![t] = Head(m_tasks)]
  /\ started' = Append(started, Head(m_tasks))
  /\ m_tasks' = Tail(m_tasks)
  /\ Goto(t, "run")

(* l.105-113: stop, go around again, or pop a task. *)
WorkerDecide(t) ==
  /\ wPc[t] = "decide"
  /\ tasksMutex' = Nobody
  /\ \/ ~m_running /\ Goto(t, "exiting") /\ UNCHANGED <<m_tasks, wTask, started>>
     \/ m_running /\ m_tasks = <<>> /\ Goto(t, "loop") /\ UNCHANGED <<m_tasks, wTask, started>>
     \/ PopTask(t)
  /\ UNCHANGED <<pool, m_finishedIds, finishedMutex, controller, submitters, wId, spawned,
                 exits, supervisor, spurious>>

(* The task returns or throws; workerLoop swallows what it throws. *)
WorkerRun(t) ==
  /\ wPc[t] = "run"
  /\ wTask' = [wTask EXCEPT ![t] = NoTask]
  /\ Goto(t, "loop")
  /\ UNCHANGED <<pool, queues, mutexes, controller, submitters, wId, spawned, exits, started,
                 supervisor, spurious>>

(* ~ExitNotify, on every way out of workerLoop: pushFinished(id).  The     *)
(* thread itself ends a little later, and join waits for that.             *)
WorkerExit(t) ==
  /\ wPc[t] = "exiting" /\ finishedMutex = Nobody
  /\ m_finishedIds' = Append(m_finishedIds, wId[t])
  /\ NotifySupervisor
  /\ Goto(t, "ending")
  /\ UNCHANGED <<pool, m_tasks, mutexes, controller, submitters, wId, wTask, spawned, exits,
                 started, vId, spurious>>

WorkerEnd(t) ==
  /\ wPc[t] = "ending"
  /\ Goto(t, "dead")
  /\ UNCHANGED <<pool, queues, mutexes, controller, submitters, wId, wTask, spawned, exits,
                 started, supervisor, spurious>>

WorkerStep(t) ==
  WorkerLoop(t) \/ WorkerLock(t) \/ WorkerSleep(t) \/ WorkerDecide(t) \/ WorkerRun(t)
  \/ WorkerExit(t) \/ WorkerEnd(t)

(* A worker ends without being asked to: wait is an interruption point, and *)
(* boost::thread_interrupted leaves workerLoop from there, even when the    *)
(* worker has already been notified.                                        *)
Interrupted(t) ==
  /\ wPc[t] \in {"waiting", "woken"} /\ exits < MaxExits
  /\ exits' = exits + 1
  /\ Goto(t, "exiting")
  /\ UNCHANGED <<pool, queues, mutexes, controller, submitters, wId, wTask, spawned, started,
                 supervisor, spurious>>

SpuriousWakeup ==
  /\ spurious < MaxSpurious
  /\ spurious' = spurious + 1
  /\ \/ vPc = "waiting" /\ vPc' = "woken" /\ UNCHANGED wPc
     \/ TaskWaiters # {} /\ NotifyOneWorker /\ UNCHANGED vPc
  /\ UNCHANGED <<pool, queues, mutexes, controller, submitters, wId, wTask, spawned, exits,
                 started, vId>>

(***************************************************************************)
(* supervisorLoop                                                          *)
(***************************************************************************)
SupervisorLoop ==
  /\ vPc = "loop"
  /\ vPc' = IF m_running THEN "lock" ELSE "dead"
  /\ UNCHANGED <<pool, queues, mutexes, controller, submitters, workers, vId, spurious>>

SupervisorLock ==
  /\ vPc \in {"lock", "woken"} /\ finishedMutex = Nobody
  /\ finishedMutex' = Supervisor
  /\ vPc' = IF m_finishedIds = <<>> /\ m_running THEN "towait" ELSE "decide"
  /\ UNCHANGED <<pool, queues, tasksMutex, controller, submitters, workers, vId, spurious>>

SupervisorSleep ==
  /\ vPc = "towait"
  /\ finishedMutex' = Nobody
  /\ vPc' = "waiting"
  /\ UNCHANGED <<pool, queues, tasksMutex, controller, submitters, workers, vId, spurious>>

(* l.135-149: stop, go around again, or pop an id; an id the vector does   *)
(* not have is dropped.                                                    *)
SupervisorDecide ==
  /\ vPc = "decide"
  /\ finishedMutex' = Nobody
  /\ \/ ~m_running /\ vPc' = "dead" /\ UNCHANGED <<m_finishedIds, vId>>
     \/ m_running /\ m_finishedIds = <<>> /\ vPc' = "loop" /\ UNCHANGED <<m_finishedIds, vId>>
     \/ /\ m_running /\ m_finishedIds # <<>>
        /\ vId' = Head(m_finishedIds)
        /\ m_finishedIds' = Tail(m_finishedIds)
        /\ vPc' = IF Head(m_finishedIds) >= Len(m_workers) THEN "loop" ELSE "join"
  /\ UNCHANGED <<pool, m_tasks, tasksMutex, controller, submitters, workers, spurious>>

SupervisorJoin ==
  /\ vPc = "join"
  /\ Joined(Handle(vId))
  /\ m_workers' = [m_workers EXCEPT ![vId + 1] = NoThread]
  /\ vPc' = "recheck"
  /\ UNCHANGED <<m_running, queues, mutexes, controller, submitters, workers, vId, spurious>>

SupervisorRecheck ==
  /\ vPc = "recheck"
  /\ vPc' = IF m_running THEN "replace" ELSE "dead"
  /\ UNCHANGED <<pool, queues, mutexes, controller, submitters, workers, vId, spurious>>

SupervisorReplace ==
  /\ vPc = "replace"
  /\ Spawn(vId)
  /\ m_workers' = [m_workers EXCEPT ![vId + 1] = spawned + 1]
  /\ vPc' = "loop" /\ vId' = 0
  /\ UNCHANGED <<m_running, queues, mutexes, controller, submitters, wTask, exits, started, spurious>>

SupervisorStep ==
  SupervisorLoop \/ SupervisorLock \/ SupervisorSleep \/ SupervisorDecide
  \/ SupervisorJoin \/ SupervisorRecheck \/ SupervisorReplace

Next ==
  \/ Controller
  \/ \E s \in Submitters : Submit(s)
  \/ \E t \in Threads : WorkerStep(t) \/ Interrupted(t)
  \/ SupervisorStep
  \/ SpuriousWakeup

Spec == Init /\ [][Next]_vars

(* Every thread that can take its next step eventually does: the operating *)
(* system schedules it.  Nothing obliges anybody to call submit, start or  *)
(* stop, to interrupt a worker or to wake a thread spuriously.             *)
Fairness ==
  /\ WF_vars(StopNotifyTasks \/ StopNotifyFinished \/ StopJoinWorker \/ StopJoinSupervisor
             \/ StartLaunch \/ StartSpawnWorker \/ StartSpawnSupervisor)
  /\ \A s \in Submitters : WF_vars(SubmitStep(s))
  /\ \A t \in Threads : WF_vars(WorkerStep(t))
  /\ WF_vars(SupervisorStep)

FairSpec == Spec /\ Fairness

-----------------------------------------------------------------------------
WorkerPcs == {"none", "loop", "lock", "towait", "waiting", "woken", "decide", "run", "exiting", "ending", "dead"}
SupervisorPcs == {"none", "loop", "lock", "towait", "waiting", "woken", "decide", "join",
                  "recheck", "replace", "dead"}
ControllerPcs == {"idle", "notifyTasks", "notifyFinished", "joinWorkers", "launch", "spawn"}

(* Every variable has its type. *)
TypeOK ==
  /\ m_running \in BOOLEAN /\ m_workers \in Seq(Threads \cup {NoThread})
  /\ m_tasks \in Seq(Nat) /\ m_finishedIds \in Seq(Ids)
  /\ tasksMutex \in Threads \cup {Nobody} /\ finishedMutex \in {Supervisor, Nobody}
  /\ cPc \in ControllerPcs /\ cIndex \in Nat /\ cThen \in {"idle", "launch"} /\ cNum \in 0 .. NumWorkers
  /\ sPc \in [Submitters -> {"idle", "lock", "notify"}] /\ sTask \in [Submitters -> Nat]
  /\ wPc \in [Threads -> WorkerPcs] /\ wId \in [Threads -> Ids] /\ wTask \in [Threads -> Nat]
  /\ vPc \in SupervisorPcs /\ vId \in Ids
  /\ spawned \in 0 .. MaxThreads
  /\ submits \in Nat /\ starts \in Nat /\ stops \in Nat /\ exits \in Nat /\ spurious \in Nat
  /\ accepted \in Seq(Nat) /\ started \in Seq(Nat)

(* No accepted task is lost, run twice or overtaken, across submitters,     *)
(* workers, stops and restarts: what the workers took, followed by what is  *)
(* still queued, is what submit() accepted, and no task was accepted twice. *)
TasksInOrder ==
  /\ started \o m_tasks = accepted
  /\ \A i, j \in 1 .. Len(accepted) : accepted[i] = accepted[j] => i = j

(* A worker thread that exists. *)
Live(t) == wPc[t] \notin {"none", "dead"}

(* The supervisor starts a replacement only for a thread that has ended: no *)
(* two worker threads share a workerId.                                     *)
OneWorkerPerId ==
  \A t, u \in Threads : Live(t) /\ Live(u) /\ wId[t] = wId[u] => t = u

(* stop() joins every thread (SupervisedThreadPool.hpp l.44): between stop  *)
(* and start no worker thread and no supervisor is left.                    *)
StopJoinsAll ==
  ~m_running /\ cPc \in {"idle", "launch"} => vPc = "none" /\ \A t \in Threads : ~Live(t)

(* A queued task is eventually taken, unless the pool is stopped: a        *)
(* notification may reach a worker that dies of it, and then the           *)
(* replacement finds the task.                                             *)
TasksTaken ==
  \A k \in 1 .. MaxSubmits : (Len(accepted) >= k) ~> (Len(started) >= k \/ ~m_running)

(* The worker of m_workers[i] has ended. *)
Vacant(i) ==
  /\ m_running /\ i <= Len(m_workers)
  /\ m_workers[i] # NoThread => ~Live(m_workers[i])

(* A worker that ends on its own is replaced, unless the pool is stopped   *)
(* (doc_en/Modules.md, "the supervisor reclaims it and creates a           *)
(* replacement").                                                          *)
WorkersReplaced == \A i \in 1 .. NumWorkers : Vacant(i) ~> ~Vacant(i)

(* stop() returns (SupervisedThreadPool.hpp l.44: it wakes all workers and *)
(* the supervisor and joins all threads).                                  *)
StopReturns == (~m_running /\ cPc \in {"notifyTasks", "notifyFinished", "joinWorkers"})
                 ~> (cPc \in {"idle", "launch"})

=============================================================================
