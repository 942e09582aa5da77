--------------------- MODULE SupervisedThreadPoolProofs ---------------------
(***************************************************************************)
(* Proofs about SupervisedThreadPool for any number of workers,            *)
(* submitters and tasks.                                                   *)
(***************************************************************************)
EXTENDS SupervisedThreadPool, SequenceTheorems, TLAPS

(* A submitter that holds a task which is not queued yet. *)
Carries(s) == sPc[s] = "lock"

(* Task numbers are fresh: those given out are at most submits, a number    *)
(* carried by a submitter is nobody else's and has not been accepted.       *)
Fresh ==
  /\ \A i \in 1 .. Len(accepted) : accepted[i] <= submits
  /\ \A s \in Submitters : Carries(s) =>
       sTask[s] <= submits /\ \A i \in 1 .. Len(accepted) : accepted[i] # sTask[s]
  /\ \A r, s \in Submitters : Carries(r) /\ Carries(s) /\ sTask[r] = sTask[s] => r = s

TasksInv == TypeOK /\ TasksInOrder /\ Fresh

(* The phases of start() and stop(): only the controller stores m_running,  *)
(* and there is no supervisor between stop() and the end of start().        *)
Phases ==
  /\ cPc \in {"notifyTasks", "notifyFinished", "joinWorkers", "launch"} => ~m_running
  /\ cPc = "spawn" => m_running /\ Len(m_workers) = cIndex /\ cIndex <= cNum
  /\ cPc = "joinWorkers" => cIndex >= 1
  /\ (cPc = "idle" /\ ~m_running) \/ cPc \in {"launch", "spawn"} => vPc = "none"

(* Threads are created in order, and a slot the supervisor works on is      *)
(* empty once it has joined the thread that was in it.                      *)
Slots ==
  /\ \A t \in Threads : t > spawned <=> wPc[t] = "none"
  /\ vPc \in {"join", "recheck", "replace"} => vId < Len(m_workers)
  /\ vPc \in {"recheck", "replace"} => Handle(vId) = NoThread

(* Every live worker can be joined through the slot of its id. *)
Handled == \A t \in Threads : Live(t) => wId[t] < Len(m_workers) /\ Handle(wId[t]) = t

(* A pool that is started once. *)
StartedOnce ==
  /\ starts <= 1 /\ cThen = "idle"
  /\ starts = 0 => cPc = "idle" /\ ~m_running
  /\ starts = 0 \/ cPc = "launch" => spawned = 0

OnceInv == TypeOK /\ Phases /\ Slots /\ Handled /\ StartedOnce

(* A pool whose workers end only when they are told to: while it runs all   *)
(* its workers do, so the supervisor replaces nobody; stop() empties the    *)
(* slots one after the other.                                               *)
ToldToEnd ==
  /\ m_running => \A i \in 1 .. Len(m_workers) :
       m_workers[i] # NoThread /\ wPc[m_workers[i]] \notin {"exiting", "ending", "dead"}
  /\ vPc = "recheck" => ~m_running
  /\ vPc # "replace"
  /\ cPc = "joinWorkers" => \A i \in 1 .. Len(m_workers) : i < cIndex => m_workers[i] = NoThread
  /\ cPc \in {"idle", "launch"} /\ ~m_running => \A i \in 1 .. Len(m_workers) : m_workers[i] = NoThread

ToldInv == TypeOK /\ Phases /\ Slots /\ Handled /\ ToldToEnd

-----------------------------------------------------------------------------
(* Storing to a slot of a vector, inside its bounds or not, leaves a vector *)
(* of the same length.                                                      *)
LEMMA StoreIsSeq ==
  ASSUME NEW S, NEW seq \in Seq(S), NEW i, NEW e \in S
  PROVE  /\ [seq EXCEPT ![i] = e] \in Seq(S)
         /\ Len([seq EXCEPT ![i] = e]) = Len(seq)
         /\ \A j \in 1 .. Len(seq) : [seq EXCEPT ![i] = e][j] = IF j = i THEN e ELSE seq[j]
<1>1. CASE i \in 1 .. Len(seq)
  BY <1>1, ExceptSeq
<1>2. CASE i \notin 1 .. Len(seq)
  <2>1. seq \in [1 .. Len(seq) -> S] /\ DOMAIN seq = 1 .. Len(seq)
    BY LenProperties
  <2>2. [seq EXCEPT ![i] = e] = seq
    BY <1>2, <2>1
  <2> QED BY <1>2, <2>2
<1> QED BY <1>1, <1>2

(* The names of the threads. *)
LEMMA ThreadNames ==
  /\ Nobody \notin Threads /\ NoThread \notin Threads /\ Threads \subseteq Nat
  /\ NoTask \in Nat /\ Supervisor # Nobody
  /\ \A n \in Nat : n < MaxThreads => n + 1 \in Threads
BY PoolAssumption DEF Nobody, NoThread, Threads, NoTask, Supervisor

(* The parts of the type invariant that are proved together. *)
Vectors ==
  /\ m_workers \in Seq(Threads \cup {NoThread}) /\ m_tasks \in Seq(Nat)
  /\ m_finishedIds \in Seq(Ids) /\ accepted \in Seq(Nat) /\ started \in Seq(Nat)

PerThread ==
  /\ sPc \in [Submitters -> {"idle", "lock", "notify"}] /\ sTask \in [Submitters -> Nat]
  /\ wPc \in [Threads -> WorkerPcs] /\ wId \in [Threads -> Ids] /\ wTask \in [Threads -> Nat]

Scalars ==
  /\ tasksMutex \in Threads \cup {Nobody} /\ finishedMutex \in {Supervisor, Nobody}
  /\ cPc \in ControllerPcs /\ cIndex \in Nat /\ cThen \in {"idle", "launch"} /\ cNum \in 0 .. NumWorkers
  /\ vPc \in SupervisorPcs /\ vId \in Ids /\ spawned \in 0 .. MaxThreads
  /\ submits \in Nat /\ starts \in Nat /\ stops \in Nat /\ exits \in Nat /\ spurious \in Nat

(* They make up the type invariant, of the state and of the next one. *)
LEMMA TypeParts ==
  /\ TypeOK <=> m_running \in BOOLEAN /\ Vectors /\ PerThread /\ Scalars
  /\ TypeOK' <=> (m_running \in BOOLEAN /\ Vectors /\ PerThread /\ Scalars)'
<1> USE DEF TypeOK, Vectors, PerThread, Scalars
<1>1. TypeOK <=> m_running \in BOOLEAN /\ Vectors /\ PerThread /\ Scalars
  BY Zenon
<1>2. TypeOK' <=> (m_running \in BOOLEAN /\ Vectors /\ PerThread /\ Scalars)'
  BY Zenon
<1> QED BY <1>1, <1>2

(* An id whose number is in range. *)
LEMMA IdNumbers ==
  /\ 0 \in Ids /\ Ids \subseteq Nat
  /\ \A n \in Nat, m \in 0 .. NumWorkers : n < m => n \in Ids
BY PoolAssumption DEF Ids

(* The pool has not been started. *)
LEMMA InitTypes == Init => TypeOK
<1> SUFFICES ASSUME Init PROVE TypeOK
  OBVIOUS
<1>1. Vectors
  BY DEF Init, Vectors
<1>2. PerThread
  BY IdNumbers, ThreadNames DEF Init, PerThread, WorkerPcs
<1>3. Scalars
  BY PoolAssumption, IdNumbers DEF Init, Scalars, ControllerPcs, SupervisorPcs
<1> QED BY <1>1, <1>2, <1>3, TypeParts DEF Init

(* The controller's steps keep the types. *)
LEMMA ControllerTypes ==
  ASSUME TypeOK, Controller
  PROVE  TypeOK'
<1> USE TypeParts, IdNumbers, ThreadNames
<1> USE DEF controller, supervisor, pool, queues, mutexes, submitters, workers
<1>1. m_running' \in BOOLEAN
  BY DEF Controller, CallStop, CallStart, StopBegin, StopNotifyTasks, StopNotifyFinished,
     StopJoinWorker, StopJoinSupervisor, StartLaunch, StartSpawnWorker, StartSpawnSupervisor
<1>2. Vectors'
  <2>1. /\ m_workers' \in Seq(Threads \cup {NoThread})
        /\ UNCHANGED <<m_tasks, m_finishedIds, accepted, started>>
    <3>1. CASE StopJoinWorker
      BY <3>1, StoreIsSeq DEF StopJoinWorker, Vectors
    <3>2. CASE StartLaunch
      BY <3>2 DEF StartLaunch
    <3>3. CASE StartSpawnWorker
      <4>1. spawned + 1 \in Threads
        BY <3>3 DEF StartSpawnWorker, Spawn, Scalars
      <4> QED BY <3>3, <4>1 DEF StartSpawnWorker, Vectors
    <3>4. CASE \/ CallStop \/ (\E n \in 1 .. NumWorkers : CallStart(n))
               \/ StopNotifyTasks \/ StopNotifyFinished \/ StopJoinSupervisor \/ StartSpawnSupervisor
      BY <3>4 DEF CallStop, CallStart, StopNotifyTasks, StopNotifyFinished, StopJoinSupervisor,
                  StartSpawnSupervisor, Vectors
    <3> QED BY <3>1, <3>2, <3>3, <3>4 DEF Controller
  <2> QED BY <2>1 DEF Vectors
<1>3. PerThread'
  <2>1. CASE StopNotifyTasks
    BY <2>1 DEF StopNotifyTasks, PerThread, WorkerPcs
  <2>2. CASE StartSpawnWorker
    BY <2>2 DEF StartSpawnWorker, Spawn, PerThread, WorkerPcs, Scalars
  <2>3. CASE \/ CallStop \/ (\E n \in 1 .. NumWorkers : CallStart(n)) \/ StopNotifyFinished
             \/ StopJoinWorker \/ StopJoinSupervisor \/ StartLaunch \/ StartSpawnSupervisor
    BY <2>3 DEF CallStop, CallStart, StopNotifyFinished, StopJoinWorker, StopJoinSupervisor,
                StartLaunch, StartSpawnSupervisor, PerThread
  <2> QED BY <2>1, <2>2, <2>3 DEF Controller
<1>4. Scalars'
  <2> USE DEF Scalars, ControllerPcs
  <2>1. CASE CallStop \/ \E n \in 1 .. NumWorkers : CallStart(n)
    BY <2>1 DEF CallStop, CallStart, StopBegin
  <2>2. CASE StopNotifyTasks \/ StopNotifyFinished
    BY <2>2 DEF StopNotifyTasks, StopNotifyFinished, NotifySupervisor, SupervisorPcs
  <2>3. CASE StopJoinWorker \/ StopJoinSupervisor
    BY <2>3 DEF StopJoinWorker, StopJoinSupervisor, SupervisorPcs
  <2>4. CASE StartLaunch \/ StartSpawnWorker \/ StartSpawnSupervisor
    BY <2>4, PoolAssumption DEF StartLaunch, StartSpawnWorker, StartSpawnSupervisor, Spawn, SupervisorPcs
  <2> QED BY <2>1, <2>2, <2>3, <2>4 DEF Controller
<1> QED BY <1>1, <1>2, <1>3, <1>4

(* The submitters' steps keep the types. *)
LEMMA SubmitTypes ==
  ASSUME TypeOK, NEW s \in Submitters, Submit(s)
  PROVE  TypeOK'
<1> USE TypeParts, IdNumbers, ThreadNames
<1> USE DEF controller, supervisor, pool, queues, mutexes, submitters, workers
<1>1. CASE SubmitCheckRunning(s)
  <2> USE <1>1 DEF SubmitCheckRunning
  <2>1. m_running' \in BOOLEAN /\ Vectors'
    BY DEF Vectors
  <2>2. Scalars'
    BY DEF Scalars
  <2>3. PerThread'
    BY DEF Scalars, PerThread
  <2> QED BY <2>1, <2>2, <2>3
<1>2. CASE SubmitEnqueue(s)
  <2> USE <1>2 DEF SubmitEnqueue
  <2>1. sTask[s] \in Nat
    BY DEF PerThread
  <2>2. m_running' \in BOOLEAN /\ Vectors'
    <3>1. CASE Full
      BY <3>1 DEF Vectors
    <3>2. CASE ~Full
      <4>1. Append(m_tasks, sTask[s]) \in Seq(Nat) /\ Append(accepted, sTask[s]) \in Seq(Nat)
        BY <2>1, AppendProperties DEF Vectors
      <4> QED BY <3>2, <4>1 DEF Vectors
    <3> QED BY <3>1, <3>2
  <2>3. Scalars'
    BY DEF Scalars
  <2>4. PerThread'
    BY DEF PerThread
  <2> QED BY <2>2, <2>3, <2>4
<1>3. CASE SubmitNotify(s)
  <2> USE <1>3 DEF SubmitNotify
  <2>1. m_running' \in BOOLEAN /\ Vectors'
    BY DEF Vectors
  <2>2. Scalars'
    BY DEF Scalars
  <2>3. PerThread'
    BY DEF PerThread, NotifyOneWorker, TaskWaiters, WorkerPcs
  <2> QED BY <2>1, <2>2, <2>3
<1> QED BY <1>1, <1>2, <1>3 DEF Submit, SubmitStep

(* The workers' steps keep the types. *)
LEMMA WorkerTypes ==
  ASSUME TypeOK, NEW t \in Threads, WorkerStep(t) \/ Interrupted(t)
  PROVE  TypeOK'
<1> USE TypeParts, IdNumbers, ThreadNames
<1> USE DEF controller, supervisor, pool, queues, mutexes, submitters, workers, Goto
<1>1. CASE WorkerDecide(t)
  <2>1. CASE PopTask(t)
    <3>1. Head(m_tasks) \in Nat /\ Tail(m_tasks) \in Seq(Nat)
      BY <2>1, HeadTailProperties DEF PopTask, Vectors
    <3>2. Append(started, Head(m_tasks)) \in Seq(Nat)
      BY <3>1, AppendProperties DEF Vectors
    <3>3. m_running' \in BOOLEAN /\ Vectors'
      BY <1>1, <2>1, <3>1, <3>2 DEF WorkerDecide, PopTask, Vectors
    <3>4. PerThread'
      BY <1>1, <2>1, <3>1 DEF WorkerDecide, PopTask, PerThread, WorkerPcs
    <3>5. Scalars'
      BY <1>1 DEF WorkerDecide, Scalars
    <3> QED BY <3>3, <3>4, <3>5
  <2>2. CASE ~PopTask(t)
    <3>1. UNCHANGED <<m_tasks, wTask, started>>
      BY <1>1, <2>2 DEF WorkerDecide
    <3>2. m_running' \in BOOLEAN /\ Vectors'
      BY <1>1, <3>1 DEF WorkerDecide, Vectors
    <3>3. PerThread'
      BY <1>1, <2>2, <3>1 DEF WorkerDecide, PerThread, WorkerPcs
    <3>4. Scalars'
      BY <1>1 DEF WorkerDecide, Scalars
    <3> QED BY <3>2, <3>3, <3>4
  <2> QED BY <2>1, <2>2
<1>2. CASE WorkerExit(t)
  <2>1. Append(m_finishedIds, wId[t]) \in Seq(Ids)
    <3>1. wId[t] \in Ids
      BY DEF PerThread
    <3> QED BY <3>1, AppendProperties DEF Vectors
  <2>2. m_running' \in BOOLEAN /\ Vectors'
    BY <1>2, <2>1 DEF WorkerExit, Vectors
  <2>3. PerThread'
    BY <1>2 DEF WorkerExit, PerThread, WorkerPcs
  <2>4. Scalars'
    BY <1>2 DEF WorkerExit, NotifySupervisor, Scalars, SupervisorPcs
  <2> QED BY <2>2, <2>3, <2>4
<1>3. CASE \/ WorkerLoop(t) \/ WorkerLock(t) \/ WorkerSleep(t) \/ WorkerRun(t) \/ WorkerEnd(t)
           \/ Interrupted(t)
  <2>1. m_running' \in BOOLEAN /\ Vectors'
    BY <1>3 DEF WorkerLoop, WorkerLock, WorkerSleep, WorkerRun, WorkerEnd, Interrupted, Vectors
  <2>2. PerThread'
    <3>1. CASE WorkerLoop(t) \/ WorkerLock(t) \/ WorkerSleep(t)
      BY <3>1 DEF WorkerLoop, WorkerLock, WorkerSleep, PerThread, WorkerPcs
    <3>2. CASE WorkerRun(t)
      BY <3>2 DEF WorkerRun, PerThread, WorkerPcs
    <3>3. CASE WorkerEnd(t) \/ Interrupted(t)
      BY <3>3 DEF WorkerEnd, Interrupted, PerThread, WorkerPcs
    <3> QED BY <1>3, <3>1, <3>2, <3>3
  <2>3. Scalars'
    BY <1>3 DEF WorkerLoop, WorkerLock, WorkerSleep, WorkerRun, WorkerEnd, Interrupted, Scalars
  <2> QED BY <2>1, <2>2, <2>3
<1> QED BY <1>1, <1>2, <1>3 DEF WorkerStep

(* The supervisor's steps and spurious wakeups keep the types. *)
LEMMA SupervisorTypes ==
  ASSUME TypeOK, SupervisorStep \/ SpuriousWakeup
  PROVE  TypeOK'
<1> USE TypeParts, IdNumbers, ThreadNames
<1> USE DEF controller, supervisor, pool, queues, mutexes, submitters, workers
<1>1. CASE SupervisorDecide
  <2>1. m_finishedIds # <<>> => Head(m_finishedIds) \in Ids /\ Tail(m_finishedIds) \in Seq(Ids)
    BY HeadTailProperties DEF Vectors
  <2>2. m_running' \in BOOLEAN /\ Vectors'
    BY <1>1, <2>1 DEF SupervisorDecide, Vectors
  <2>3. PerThread'
    BY <1>1 DEF SupervisorDecide, PerThread
  <2>4. Scalars'
    BY <1>1, <2>1 DEF SupervisorDecide, Scalars, SupervisorPcs
  <2> QED BY <2>2, <2>3, <2>4
<1>2. CASE SupervisorJoin
  <2>1. m_workers' \in Seq(Threads \cup {NoThread})
    BY <1>2, StoreIsSeq DEF SupervisorJoin, Vectors
  <2>2. m_running' \in BOOLEAN /\ Vectors'
    BY <1>2, <2>1 DEF SupervisorJoin, Vectors
  <2>3. PerThread'
    BY <1>2 DEF SupervisorJoin, PerThread
  <2>4. Scalars'
    BY <1>2 DEF SupervisorJoin, Scalars, SupervisorPcs
  <2> QED BY <2>2, <2>3, <2>4
<1>3. CASE SupervisorReplace
  <2>1. spawned + 1 \in Threads /\ vId \in Ids
    BY <1>3 DEF SupervisorReplace, Spawn, Scalars
  <2>2. m_workers' \in Seq(Threads \cup {NoThread})
    BY <1>3, <2>1, StoreIsSeq DEF SupervisorReplace, Vectors
  <2>3. m_running' \in BOOLEAN /\ Vectors'
    BY <1>3, <2>2 DEF SupervisorReplace, Vectors
  <2>4. PerThread'
    BY <1>3, <2>1 DEF SupervisorReplace, Spawn, PerThread, WorkerPcs
  <2>5. Scalars'
    BY <1>3, PoolAssumption DEF SupervisorReplace, Spawn, Scalars, SupervisorPcs
  <2> QED BY <2>3, <2>4, <2>5
<1>4. CASE SupervisorLoop \/ SupervisorLock \/ SupervisorSleep \/ SupervisorRecheck \/ SpuriousWakeup
  <2>1. m_running' \in BOOLEAN /\ Vectors'
    BY <1>4 DEF SupervisorLoop, SupervisorLock, SupervisorSleep, SupervisorRecheck, SpuriousWakeup, Vectors
  <2>2. PerThread'
    BY <1>4 DEF SupervisorLoop, SupervisorLock, SupervisorSleep, SupervisorRecheck, SpuriousWakeup,
                NotifyOneWorker, TaskWaiters, PerThread, WorkerPcs
  <2>3. Scalars'
    BY <1>4 DEF SupervisorLoop, SupervisorLock, SupervisorSleep, SupervisorRecheck, SpuriousWakeup,
                Scalars, SupervisorPcs
  <2> QED BY <2>1, <2>2, <2>3
<1> QED BY <1>1, <1>2, <1>3, <1>4 DEF SupervisorStep

(* Every step keeps the types. *)
LEMMA NextTypes ==
  ASSUME TypeOK, [Next]_vars
  PROVE  TypeOK'
<1>1. CASE UNCHANGED vars
  BY <1>1 DEF vars, pool, queues, mutexes, controller, submitters, workers, supervisor, TypeOK
<1>2. CASE Next
  BY <1>2, ControllerTypes, SubmitTypes, WorkerTypes, SupervisorTypes DEF Next
<1> QED BY <1>1, <1>2

-----------------------------------------------------------------------------
(* Appending to the second of two lists, and moving the head of the second  *)
(* to the end of the first.                                                 *)
LEMMA Lists ==
  ASSUME NEW p \in Seq(Nat), NEW q \in Seq(Nat), NEW x \in Nat
  PROVE  /\ p \o Append(q, x) = Append(p \o q, x)
         /\ q # <<>> => Append(p, Head(q)) \o Tail(q) = p \o q
<1>1. p \o Append(q, x) = Append(p \o q, x)
  <2>1. <<x>> \in Seq(Nat) /\ p \o q \in Seq(Nat)
    BY ConcatProperties
  <2>2. Append(q, x) = q \o <<x>> /\ Append(p \o q, x) = (p \o q) \o <<x>>
    BY <2>1, AppendIsConcat
  <2> QED BY <2>1, <2>2, ConcatAssociative
<1>2. ASSUME q # <<>> PROVE Append(p, Head(q)) \o Tail(q) = p \o q
  <2>1. /\ Head(q) \in Nat /\ Tail(q) \in Seq(Nat) /\ Len(Tail(q)) = Len(q) - 1
        /\ \A i \in 1 .. Len(Tail(q)) : Tail(q)[i] = q[i + 1]
    BY <1>2, HeadTailProperties
  <2>2. Head(q) = q[1] /\ Len(q) \in Nat \ {0} /\ Len(p) \in Nat
    BY <1>2, EmptySeq, LenProperties
  <2> DEFINE ph == Append(p, Head(q))
             l == ph \o Tail(q)
             r == p \o q
  <2>3. /\ ph \in Seq(Nat) /\ Len(ph) = Len(p) + 1 /\ ph[Len(p) + 1] = Head(q)
        /\ \A i \in 1 .. Len(p) : ph[i] = p[i]
    BY <2>1, AppendProperties
  <2>4. /\ l \in Seq(Nat) /\ Len(l) = Len(ph) + Len(Tail(q))
        /\ \A i \in 1 .. Len(ph) + Len(Tail(q)) :
             l[i] = IF i <= Len(ph) THEN ph[i] ELSE Tail(q)[i - Len(ph)]
    <3> HIDE DEF ph
    <3> QED BY <2>1, <2>3, ConcatProperties
  <2>5. /\ r \in Seq(Nat) /\ Len(r) = Len(p) + Len(q)
        /\ \A i \in 1 .. Len(p) + Len(q) : r[i] = IF i <= Len(p) THEN p[i] ELSE q[i - Len(p)]
    BY ConcatProperties
  <2> HIDE DEF ph, l, r
  <2>6. Len(l) = Len(r)
    BY <2>1, <2>2, <2>3, <2>4, <2>5
  <2>7. ASSUME NEW i \in 1 .. Len(l) PROVE l[i] = r[i]
    <3>1. CASE i <= Len(p)
      <4>1. i <= Len(ph) /\ i \in 1 .. Len(ph) + Len(Tail(q))
        BY <2>2, <2>3, <2>4, <3>1
      <4>2. l[i] = ph[i]
        BY <2>4, <4>1
      <4>3. r[i] = p[i]
        BY <2>2, <2>5, <2>6, <3>1
      <4> QED BY <2>2, <2>3, <4>2, <4>3, <3>1
    <3>2. CASE i = Len(p) + 1
      <4>1. i <= Len(ph) /\ i \in 1 .. Len(ph) + Len(Tail(q))
        BY <2>2, <2>3, <2>4, <3>2
      <4>2. l[i] = ph[i]
        BY <2>4, <4>1
      <4>3. r[i] = q[1]
        <5>1. i - Len(p) = 1 /\ i \in 1 .. Len(p) + Len(q) /\ ~(i <= Len(p))
          BY <2>2, <2>5, <2>6, <3>2
        <5> QED BY <2>5, <5>1
      <4> QED BY <2>2, <2>3, <4>2, <4>3, <3>2
    <3>3. CASE i > Len(p) + 1
      <4>1. i - Len(ph) \in 1 .. Len(Tail(q)) /\ (i - Len(ph)) + 1 = i - Len(p)
        BY <2>1, <2>2, <2>3, <2>4, <3>3
      <4>2. l[i] = q[i - Len(p)]
        BY <2>1, <2>2, <2>3, <2>4, <3>3, <4>1
      <4>3. r[i] = q[i - Len(p)]
        BY <2>2, <2>5, <2>6, <3>3
      <4> QED BY <4>2, <4>3
    <3> QED BY <2>2, <3>1, <3>2, <3>3
  <2>8. l = r
    BY <2>4, <2>5, <2>6, <2>7, SeqEqual
  <2> QED BY <2>8 DEF ph, l, r
<1> QED BY <1>1, <1>2

(* A submitter takes a number nobody has. *)
LEMMA CheckRunningFresh ==
  ASSUME TasksInv, NEW s \in Submitters, SubmitCheckRunning(s)
  PROVE  TasksInOrder' /\ Fresh'
<1>1. /\ sPc' = [sPc EXCEPT ![s] = "lock"] /\ sTask' = [sTask EXCEPT ![s] = submits + 1]
      /\ submits' = submits + 1 /\ UNCHANGED <<m_tasks, accepted, started>>
  BY DEF SubmitCheckRunning, queues, workers
<1>2. /\ sPc \in [Submitters -> {"idle", "lock", "notify"}] /\ sTask \in [Submitters -> Nat]
      /\ submits \in Nat /\ accepted \in Seq(Nat) /\ Len(accepted) \in Nat
      /\ \A i \in 1 .. Len(accepted) : accepted[i] \in Nat
  BY ElementOfSeq, LenProperties DEF TasksInv, TypeOK
<1>3. TasksInOrder'
  BY <1>1 DEF TasksInv, TasksInOrder
<1>4. Fresh'
  <2>1. \A r \in Submitters : r # s => sPc'[r] = sPc[r] /\ sTask'[r] = sTask[r]
    BY <1>1, <1>2
  <2>2. sTask'[s] = submits + 1
    BY <1>1, <1>2
  <2>3. \A i \in 1 .. Len(accepted') : accepted'[i] <= submits' /\ accepted'[i] # submits + 1
    BY <1>1, <1>2 DEF TasksInv, Fresh
  <2>4. ASSUME NEW r \in Submitters, Carries(r)'
        PROVE  sTask'[r] <= submits' /\ \A i \in 1 .. Len(accepted') : accepted'[i] # sTask'[r]
    BY <1>1, <1>2, <2>1, <2>2, <2>3, <2>4 DEF TasksInv, Fresh, Carries
  <2>5. ASSUME NEW r \in Submitters, NEW u \in Submitters,
               Carries(r)', Carries(u)', sTask'[r] = sTask'[u]
        PROVE  r = u
    <3>1. CASE r = s \/ u = s
      BY <1>2, <2>1, <2>2, <2>5, <3>1 DEF TasksInv, Fresh, Carries
    <3>2. CASE r # s /\ u # s
      BY <2>1, <2>5, <3>2 DEF TasksInv, Fresh, Carries
    <3> QED BY <3>1, <3>2
  <2> QED BY <2>3, <2>4, <2>5 DEF Fresh
<1> QED BY <1>3, <1>4

(* A submitter queues its task, or is turned away. *)
LEMMA EnqueueFresh ==
  ASSUME TasksInv, NEW s \in Submitters, SubmitEnqueue(s)
  PROVE  TasksInOrder' /\ Fresh'
<1>1. /\ sPc[s] = "lock" /\ UNCHANGED <<started, submits>> /\ sTask' = [sTask EXCEPT ![s] = NoTask]
  BY DEF SubmitEnqueue, workers
<1>2. /\ sPc \in [Submitters -> {"idle", "lock", "notify"}] /\ sTask \in [Submitters -> Nat]
      /\ submits \in Nat /\ accepted \in Seq(Nat) /\ m_tasks \in Seq(Nat) /\ started \in Seq(Nat)
      /\ Len(accepted) \in Nat /\ sTask[s] \in Nat
  BY LenProperties DEF TasksInv, TypeOK
<1>3. PICK pc \in {"idle", "notify"} : sPc' = [sPc EXCEPT ![s] = pc]
  BY DEF SubmitEnqueue
<1>4. /\ ~Carries(s)'
      /\ \A r \in Submitters : r # s => (Carries(r)' <=> Carries(r)) /\ sTask'[r] = sTask[r]
  BY <1>1, <1>2, <1>3 DEF Carries
<1>5. CASE UNCHANGED <<m_tasks, accepted>>
  <2>1. TasksInOrder'
    BY <1>1, <1>5 DEF TasksInv, TasksInOrder
  <2>2. Fresh'
    BY <1>1, <1>4, <1>5 DEF TasksInv, Fresh
  <2> QED BY <2>1, <2>2
<1>6. CASE m_tasks' = Append(m_tasks, sTask[s]) /\ accepted' = Append(accepted, sTask[s])
  <2>1. /\ Len(accepted') = Len(accepted) + 1 /\ accepted'[Len(accepted) + 1] = sTask[s]
        /\ \A i \in 1 .. Len(accepted) : accepted'[i] = accepted[i]
    BY <1>2, <1>6, AppendProperties
  <2>2. sTask[s] <= submits /\ \A i \in 1 .. Len(accepted) : accepted[i] # sTask[s]
    BY <1>1 DEF TasksInv, Fresh, Carries
  <2>3. \A i \in 1 .. Len(accepted') : i \in 1 .. Len(accepted) \/ i = Len(accepted) + 1
    BY <1>2, <2>1
  <2>4. TasksInOrder'
    <3>1. started' \o m_tasks' = accepted'
      BY <1>1, <1>2, <1>6, Lists DEF TasksInv, TasksInOrder
    <3>2. ASSUME NEW i \in 1 .. Len(accepted'), NEW j \in 1 .. Len(accepted'), accepted'[i] = accepted'[j]
          PROVE  i = j
      BY <2>1, <2>2, <2>3, <3>2 DEF TasksInv, TasksInOrder
    <3> QED BY <3>1, <3>2 DEF TasksInOrder
  <2>5. Fresh'
    <3>1. \A i \in 1 .. Len(accepted') : accepted'[i] <= submits'
      BY <1>1, <2>1, <2>2, <2>3 DEF TasksInv, Fresh
    <3>2. ASSUME NEW r \in Submitters, Carries(r)'
          PROVE  sTask'[r] <= submits' /\ \A i \in 1 .. Len(accepted') : accepted'[i] # sTask'[r]
      <4>1. r # s /\ Carries(r) /\ sTask'[r] = sTask[r]
        BY <1>4, <3>2
      <4>2. sTask[r] # sTask[s]
        BY <1>1, <4>1 DEF TasksInv, Fresh, Carries
      <4> QED BY <1>1, <2>1, <2>3, <4>1, <4>2 DEF TasksInv, Fresh
    <3>3. \A r, u \in Submitters : Carries(r)' /\ Carries(u)' /\ sTask'[r] = sTask'[u] => r = u
      BY <1>4 DEF TasksInv, Fresh
    <3> QED BY <3>1, <3>2, <3>3 DEF Fresh
  <2> QED BY <2>4, <2>5
<1> QED BY <1>5, <1>6 DEF SubmitEnqueue

(* A worker takes the oldest task. *)
LEMMA DecideFresh ==
  ASSUME TasksInv, NEW t \in Threads, WorkerDecide(t)
  PROVE  TasksInOrder' /\ Fresh'
<1>1. UNCHANGED <<sPc, sTask, submits, accepted>>
  BY DEF WorkerDecide, submitters
<1>2. Fresh'
  BY <1>1 DEF TasksInv, Fresh, Carries
<1>3. started' \o m_tasks' = started \o m_tasks
  <2>1. CASE PopTask(t)
    <3>1. m_tasks \in Seq(Nat) /\ started \in Seq(Nat) /\ 0 \in Nat
      BY DEF TasksInv, TypeOK
    <3> QED BY <2>1, <3>1, Lists DEF PopTask
  <2>2. CASE UNCHANGED <<m_tasks, started>>
    BY <2>2
  <2> QED BY <2>1, <2>2 DEF WorkerDecide
<1>4. TasksInOrder'
  BY <1>1, <1>3 DEF TasksInv, TasksInOrder
<1> QED BY <1>2, <1>4

(* A step that leaves the tasks and their carriers alone. *)
LEMMA OthersFresh ==
  ASSUME TasksInv, UNCHANGED <<m_tasks, accepted, started, submits>>,
         \/ UNCHANGED <<sPc, sTask>>
         \/ \E s \in Submitters : SubmitNotify(s)
  PROVE  TasksInOrder' /\ Fresh'
<1>1. TasksInOrder'
  BY DEF TasksInv, TasksInOrder
<1>2. \A r \in Submitters : (Carries(r)' => Carries(r)) /\ sTask'[r] = sTask[r]
  BY DEF SubmitNotify, Carries, TasksInv, TypeOK
<1> QED BY <1>1, <1>2 DEF TasksInv, Fresh

(* Every step keeps the tasks in order. *)
LEMMA NextFresh ==
  ASSUME TasksInv, [Next]_vars
  PROVE  TasksInv'
<1>1. TypeOK'
  BY NextTypes DEF TasksInv
<1>2. TasksInOrder' /\ Fresh'
  <2> USE DEF controller, supervisor, pool, queues, mutexes, submitters, workers
  <2>1. CASE UNCHANGED vars \/ Controller \/ SupervisorStep \/ SpuriousWakeup
    <3>1. UNCHANGED <<m_tasks, accepted, started, submits, sPc, sTask>>
      BY <2>1 DEF vars, Controller, CallStop, CallStart, StopNotifyTasks, StopNotifyFinished,
         StopJoinWorker, StopJoinSupervisor, StartLaunch, StartSpawnWorker, StartSpawnSupervisor,
         SupervisorStep, SupervisorLoop, SupervisorLock, SupervisorSleep, SupervisorDecide,
         SupervisorJoin, SupervisorRecheck, SupervisorReplace, SpuriousWakeup
    <3> QED BY <3>1, OthersFresh
  <2>2. ASSUME NEW s \in Submitters, Submit(s)
        PROVE  TasksInOrder' /\ Fresh'
    <3>1. CASE SubmitNotify(s)
      <4>1. UNCHANGED <<m_tasks, accepted, started, submits>>
        BY <3>1 DEF SubmitNotify
      <4> QED BY <3>1, <4>1, OthersFresh
    <3> QED BY <2>2, <3>1, CheckRunningFresh, EnqueueFresh DEF Submit, SubmitStep
  <2>3. ASSUME NEW t \in Threads, WorkerStep(t) \/ Interrupted(t)
        PROVE  TasksInOrder' /\ Fresh'
    <3>1. CASE WorkerDecide(t)
      BY <3>1, DecideFresh
    <3>2. CASE ~WorkerDecide(t)
      <4>1. UNCHANGED <<m_tasks, accepted, started, submits, sPc, sTask>>
        BY <2>3, <3>2 DEF WorkerStep, WorkerLoop, WorkerLock, WorkerSleep, WorkerRun, WorkerExit,
           WorkerEnd, Interrupted
      <4> QED BY <4>1, OthersFresh
    <3> QED BY <3>1, <3>2
  <2> QED BY <2>1, <2>2, <2>3 DEF Next
<1> QED BY <1>1, <1>2 DEF TasksInv

(* The pool starts with no tasks. *)
LEMMA InitFresh == Init => TasksInv
<1> SUFFICES ASSUME Init PROVE TasksInv
  OBVIOUS
<1>1. Len(accepted) = 0 /\ started \o m_tasks = accepted
  BY ConcatEmptySeq DEF Init
<1>2. \A s \in Submitters : ~Carries(s)
  BY DEF Init, Carries
<1> QED BY <1>1, <1>2, InitTypes DEF TasksInv, TasksInOrder, Fresh

(* The tasks' invariant holds of every behaviour. *)
LEMMA TasksInvHolds == Spec => []TasksInv
<1>1. Init => TasksInv
  BY InitFresh
<1>2. TasksInv /\ [Next]_vars => TasksInv'
  BY NextFresh
<1> QED BY <1>1, <1>2, PTL DEF Spec

(* Every variable has its type, in a pool of any size. *)
THEOREM PoolTypes == Spec => []TypeOK
<1>1. TasksInv => TypeOK
  BY DEF TasksInv
<1> QED BY <1>1, TasksInvHolds, PTL

(* submit() and workerLoop: whatever the workers took, followed by what is  *)
(* queued, is what was accepted, in that order and without repetition, for  *)
(* any number of submitters and workers and across stops, restarts and      *)
(* replaced workers.                                                        *)
THEOREM TasksStayInOrder == Spec => []TasksInOrder
<1>1. TasksInv => TasksInOrder
  BY DEF TasksInv
<1> QED BY <1>1, TasksInvHolds, PTL

-----------------------------------------------------------------------------
(* Most steps create no thread and touch no slot: they only move threads    *)
(* that exist, and a dead one stays dead.                                   *)
Ended == {"exiting", "ending", "dead"}

Calm ==
  /\ UNCHANGED <<wId, spawned, m_workers>>
  /\ \A t \in Threads :
       /\ Live(t)' => Live(t)
       /\ wPc'[t] = "none" <=> wPc[t] = "none"
       /\ m_running /\ exits' = exits /\ wPc[t] \notin Ended => wPc'[t] \notin Ended

(* The controller's state and m_running, and the supervisor's. *)
control == <<m_running, cPc, cIndex, cThen, cNum, starts>>

(* The workers' steps, the submitters' and spurious wakeups are of that     *)
(* kind; all they do to the supervisor is to wake it.                       *)
LEMMA CalmSteps ==
  ASSUME TypeOK,
         \/ \E s \in Submitters : Submit(s)
         \/ \E t \in Threads : WorkerStep(t) \/ Interrupted(t)
         \/ SpuriousWakeup
  PROVE  /\ Calm /\ UNCHANGED control /\ vId' = vId
         /\ vPc' = vPc \/ (vPc = "waiting" /\ vPc' = "woken")
<1> USE DEF controller, supervisor, pool, queues, mutexes, submitters, workers, control
<1>0. wPc \in [Threads -> WorkerPcs] /\ exits \in Nat
  BY DEF TypeOK
<1>1. ASSUME NEW s \in Submitters, Submit(s)
      PROVE  Calm /\ UNCHANGED <<control, vPc, vId>>
  <2>1. CASE SubmitCheckRunning(s) \/ SubmitEnqueue(s)
    <3>1. UNCHANGED <<control, vPc, vId, wPc, wId, spawned, m_workers>>
      BY <2>1 DEF SubmitCheckRunning, SubmitEnqueue
    <3> QED BY <3>1 DEF Calm, Live
  <2>2. CASE SubmitNotify(s)
    <3>1. UNCHANGED <<control, vPc, vId, wId, spawned, m_workers>>
      BY <2>2 DEF SubmitNotify
    <3>2. \A t \in Threads : wPc'[t] = wPc[t] \/ (wPc[t] = "waiting" /\ wPc'[t] = "woken")
      BY <1>0, <2>2 DEF SubmitNotify, NotifyOneWorker, TaskWaiters
    <3> QED BY <3>1, <3>2 DEF Calm, Live, Ended
  <2> QED BY <1>1, <2>1, <2>2 DEF Submit, SubmitStep
<1>2. ASSUME SpuriousWakeup
      PROVE  Calm /\ UNCHANGED <<control, vId>> /\ (vPc' = vPc \/ (vPc = "waiting" /\ vPc' = "woken"))
  <2>1. /\ UNCHANGED <<control, vId, wId, spawned, m_workers>>
        /\ vPc' = vPc \/ (vPc = "waiting" /\ vPc' = "woken")
    BY <1>2 DEF SpuriousWakeup
  <2>2. \A t \in Threads : wPc'[t] = wPc[t] \/ (wPc[t] = "waiting" /\ wPc'[t] = "woken")
    BY <1>0, <1>2 DEF SpuriousWakeup, NotifyOneWorker, TaskWaiters
  <2> QED BY <2>1, <2>2 DEF Calm, Live, Ended
<1>3. ASSUME NEW t \in Threads, WorkerStep(t) \/ Interrupted(t)
      PROVE  Calm /\ UNCHANGED <<control, vId>> /\ (vPc' = vPc \/ (vPc = "waiting" /\ vPc' = "woken"))
  <2>1. /\ UNCHANGED <<control, vId, wId, spawned, m_workers>>
        /\ vPc' = vPc \/ (vPc = "waiting" /\ vPc' = "woken")
    BY <1>3 DEF WorkerStep, WorkerLoop, WorkerLock, WorkerSleep, WorkerDecide, WorkerRun, WorkerExit,
                WorkerEnd, Interrupted, NotifySupervisor
  <2>2. /\ \A u \in Threads : u # t => wPc'[u] = wPc[u]
        /\ Live(t) /\ wPc'[t] # "none"
        /\ m_running /\ exits' = exits /\ wPc[t] \notin Ended => wPc'[t] \notin Ended
    <3> USE <1>0 DEF Goto, Live, Ended
    <3>1. CASE WorkerLoop(t) \/ WorkerLock(t) \/ WorkerSleep(t)
      BY <3>1 DEF WorkerLoop, WorkerLock, WorkerSleep
    <3>2. CASE WorkerDecide(t)
      BY <3>2 DEF WorkerDecide, PopTask
    <3>3. CASE WorkerRun(t) \/ WorkerExit(t) \/ WorkerEnd(t)
      BY <3>3 DEF WorkerRun, WorkerExit, WorkerEnd
    <3>4. CASE Interrupted(t)
      BY <3>4 DEF Interrupted
    <3> QED BY <1>3, <3>1, <3>2, <3>3, <3>4 DEF WorkerStep
  <2> QED BY <2>1, <2>2 DEF Calm, Live
<1> QED BY <1>1, <1>2, <1>3

(* What holds of a pool however it is used. *)
BaseInv == TypeOK /\ Phases /\ Slots

(* A calm step keeps it. *)
LEMMA CalmBase ==
  ASSUME BaseInv, TypeOK', Calm, UNCHANGED control, vId' = vId,
         vPc' = vPc \/ (vPc = "waiting" /\ vPc' = "woken")
  PROVE  Phases' /\ Slots'
<1>1. Phases'
  BY DEF BaseInv, Phases, Calm, control
<1>2. Slots'
  BY DEF BaseInv, Slots, Calm, Handle
<1> QED BY <1>1, <1>2

(* A slot of the vector, after one of them was stored to. *)
LEMMA SlotStored ==
  ASSUME TypeOK, NEW i \in Nat, NEW e \in Threads \cup {NoThread},
         m_workers' = [m_workers EXCEPT ![i] = e]
  PROVE  /\ Len(m_workers') = Len(m_workers) /\ Len(m_workers) \in Nat
         /\ \A n \in Nat : n < Len(m_workers) =>
              Handle(n)' = IF n + 1 = i THEN e ELSE Handle(n)
<1>1. m_workers \in Seq(Threads \cup {NoThread}) /\ Len(m_workers) \in Nat
  BY LenProperties DEF TypeOK
<1>2. /\ Len(m_workers') = Len(m_workers)
      /\ \A j \in 1 .. Len(m_workers) : m_workers'[j] = IF j = i THEN e ELSE m_workers[j]
  BY <1>1, StoreIsSeq
<1> QED BY <1>1, <1>2 DEF Handle

(* start() and stop() keep the base. *)
LEMMA ControllerBase ==
  ASSUME BaseInv, TypeOK', Controller
  PROVE  Phases' /\ Slots'
<1> USE DEF controller, supervisor, pool, queues, mutexes, submitters, workers
<1>0. /\ wPc \in [Threads -> WorkerPcs] /\ m_workers \in Seq(Threads \cup {NoThread})
      /\ Len(m_workers) \in Nat /\ cIndex \in Nat /\ cNum \in Nat /\ spawned \in Nat /\ vId \in Nat
  BY LenProperties, IdNumbers, PoolAssumption DEF BaseInv, TypeOK
<1>1. CASE CallStop \/ \E n \in 1 .. NumWorkers : CallStart(n)
  <2>1. UNCHANGED <<wPc, spawned, m_workers, vPc, vId>>
    BY <1>1 DEF CallStop, CallStart
  <2>2. Phases'
    BY <1>1, <2>1 DEF CallStop, CallStart, StopBegin, BaseInv, Phases
  <2>3. Slots'
    BY <2>1 DEF BaseInv, Slots, Handle
  <2> QED BY <2>2, <2>3
<1>2. CASE StopNotifyTasks \/ StopNotifyFinished
  <2>1. /\ UNCHANGED <<spawned, m_workers, vId, m_running>>
        /\ vPc' = vPc \/ (vPc = "waiting" /\ vPc' = "woken")
        /\ \A t \in Threads : wPc'[t] = "none" <=> wPc[t] = "none"
    BY <1>0, <1>2 DEF StopNotifyTasks, StopNotifyFinished, NotifySupervisor
  <2>2. Phases'
    BY <1>2, <2>1 DEF StopNotifyTasks, StopNotifyFinished, BaseInv, Phases
  <2>3. Slots'
    BY <2>1 DEF BaseInv, Slots, Handle
  <2> QED BY <2>2, <2>3
<1>3. CASE StopJoinWorker
  <2>1. /\ UNCHANGED <<wPc, spawned, m_running, cPc, vPc, vId>> /\ cIndex' = cIndex + 1
        /\ cPc = "joinWorkers" /\ m_workers' = [m_workers EXCEPT ![cIndex] = NoThread]
    BY <1>3 DEF StopJoinWorker
  <2>2. Phases'
    BY <1>0, <2>1 DEF BaseInv, Phases
  <2>3. Len(m_workers') = Len(m_workers) /\ (vId < Len(m_workers) => Handle(vId)' \in {Handle(vId), NoThread})
    <3>1. \A n \in Nat : n < Len(m_workers) =>
             m_workers'[n + 1] = IF n + 1 = cIndex THEN NoThread ELSE m_workers[n + 1]
      BY <1>0, <2>1, SlotStored DEF BaseInv, Handle
    <3>2. Len(m_workers') = Len(m_workers)
      BY <1>0, <2>1, SlotStored DEF BaseInv
    <3> QED BY <1>0, <2>1, <3>1, <3>2 DEF Handle
  <2>4. Slots'
    BY <2>1, <2>3 DEF BaseInv, Slots
  <2> QED BY <2>2, <2>4
<1>4. CASE StopJoinSupervisor
  <2>1. UNCHANGED <<wPc, spawned, m_workers, vId, m_running>> /\ vPc' = "none" /\ cPc = "joinWorkers"
    BY <1>4 DEF StopJoinSupervisor
  <2>2. cPc' \in {"idle", "launch"}
    BY <1>4 DEF StopJoinSupervisor, BaseInv, TypeOK
  <2>3. Phases'
    BY <2>1, <2>2 DEF BaseInv, Phases
  <2>4. Slots'
    BY <2>1 DEF BaseInv, Slots
  <2> QED BY <2>3, <2>4
<1>5. CASE StartLaunch
  <2>1. /\ UNCHANGED <<wPc, spawned, vPc, vId, cNum>> /\ m_running' = TRUE /\ m_workers' = <<>>
        /\ cPc = "launch" /\ cPc' = "spawn" /\ cIndex' = 0
    BY <1>5 DEF StartLaunch
  <2>2. Len(<<>>) = 0
    OBVIOUS
  <2>3. Phases'
    BY <1>0, <2>1, <2>2 DEF BaseInv, Phases
  <2>4. Slots'
    BY <2>1 DEF BaseInv, Phases, Slots
  <2> QED BY <2>3, <2>4
<1>6. CASE StartSpawnWorker
  <2>1. /\ UNCHANGED <<vPc, vId, cNum, m_running, cPc>> /\ cIndex' = cIndex + 1
        /\ m_workers' = Append(m_workers, spawned + 1) /\ cPc = "spawn" /\ cIndex < cNum
        /\ spawned < MaxThreads /\ spawned' = spawned + 1 /\ wPc' = [wPc EXCEPT ![spawned + 1] = "loop"]
    BY <1>6 DEF StartSpawnWorker, Spawn
  <2>2. spawned + 1 \in Threads
    BY <1>0, <2>1, ThreadNames
  <2>3. Len(m_workers') = Len(m_workers) + 1
    BY <1>0, <2>1, <2>2, AppendProperties
  <2>4. Phases'
    BY <1>0, <2>1, <2>3 DEF BaseInv, Phases
  <2>5. Slots'
    BY <1>0, <2>1, <2>2, ThreadNames DEF BaseInv, Phases, Slots
  <2> QED BY <2>4, <2>5
<1>7. CASE StartSpawnSupervisor
  <2>1. /\ UNCHANGED <<wPc, spawned, m_workers, vId, m_running>> /\ vPc' = "loop"
        /\ cPc = "spawn" /\ cPc' = "idle"
    BY <1>7 DEF StartSpawnSupervisor
  <2>2. Phases'
    BY <2>1 DEF BaseInv, Phases
  <2>3. Slots'
    BY <2>1 DEF BaseInv, Slots
  <2> QED BY <2>2, <2>3
<1> QED BY <1>1, <1>2, <1>3, <1>4, <1>5, <1>6, <1>7 DEF Controller

(* The supervisor keeps the base: it is there only while the pool runs or   *)
(* is being stopped.                                                        *)
LEMMA SupervisorBase ==
  ASSUME BaseInv, TypeOK', SupervisorStep
  PROVE  Phases' /\ Slots'
<1> USE DEF controller, supervisor, pool, queues, mutexes, submitters, workers
<1>0. /\ wPc \in [Threads -> WorkerPcs] /\ m_workers \in Seq(Threads \cup {NoThread})
      /\ Len(m_workers) \in Nat /\ spawned \in Nat /\ vId \in Nat
  BY LenProperties, IdNumbers, PoolAssumption DEF BaseInv, TypeOK
<1>1. vPc # "none" /\ UNCHANGED <<m_running, cPc, cIndex, cNum>>
  BY DEF SupervisorStep, SupervisorLoop, SupervisorLock, SupervisorSleep, SupervisorDecide,
         SupervisorJoin, SupervisorRecheck, SupervisorReplace
<1>2. Phases'
  BY <1>1 DEF BaseInv, Phases
<1>3. CASE SupervisorLoop \/ SupervisorLock \/ SupervisorSleep
  <2>1. UNCHANGED <<wPc, spawned, m_workers, vId>> /\ vPc' \notin {"join", "recheck", "replace"}
    BY <1>3 DEF SupervisorLoop, SupervisorLock, SupervisorSleep
  <2> QED BY <1>2, <2>1 DEF BaseInv, Slots
<1>4. CASE SupervisorDecide
  <2>1. UNCHANGED <<wPc, spawned, m_workers>> /\ vPc' \notin {"recheck", "replace"}
    BY <1>4 DEF SupervisorDecide
  <2>2. vPc' = "join" => vId' < Len(m_workers)
    <3>1. vPc' = "join" => vId' = Head(m_finishedIds) /\ ~(Head(m_finishedIds) >= Len(m_workers))
      BY <1>4 DEF SupervisorDecide
    <3>2. vId' \in Nat
      BY IdNumbers DEF TypeOK
    <3> QED BY <1>0, <3>1, <3>2
  <2> QED BY <1>2, <2>1, <2>2 DEF BaseInv, Slots
<1>5. CASE SupervisorJoin
  <2>1. /\ UNCHANGED <<wPc, spawned, vId>> /\ vPc = "join" /\ vPc' = "recheck"
        /\ m_workers' = [m_workers EXCEPT ![vId + 1] = NoThread]
    BY <1>5 DEF SupervisorJoin
  <2>2. Len(m_workers') = Len(m_workers) /\ Handle(vId)' = NoThread
    <3>1. /\ Len(m_workers') = Len(m_workers)
          /\ \A n \in Nat : n < Len(m_workers) =>
               m_workers'[n + 1] = IF n + 1 = vId + 1 THEN NoThread ELSE m_workers[n + 1]
      BY <1>0, <2>1, SlotStored DEF BaseInv, Handle
    <3> QED BY <1>0, <2>1, <3>1 DEF Handle, BaseInv, Slots
  <2> QED BY <1>2, <2>1, <2>2 DEF BaseInv, Slots
<1>6. CASE SupervisorRecheck
  <2>1. UNCHANGED <<wPc, spawned, m_workers, vId>> /\ vPc = "recheck" /\ vPc' \in {"replace", "dead"}
    BY <1>6 DEF SupervisorRecheck
  <2> QED BY <1>2, <2>1 DEF BaseInv, Slots, Handle
<1>7. CASE SupervisorReplace
  <2>1. /\ vPc' = "loop" /\ spawned < MaxThreads
        /\ spawned' = spawned + 1 /\ wPc' = [wPc EXCEPT ![spawned + 1] = "loop"]
    BY <1>7 DEF SupervisorReplace, Spawn
  <2> QED BY <1>0, <1>2, <2>1, ThreadNames DEF BaseInv, Slots
<1> QED BY <1>3, <1>4, <1>5, <1>6, <1>7 DEF SupervisorStep

(* The base holds of a pool that has not been started. *)
LEMMA InitBase == Init => BaseInv
<1> SUFFICES ASSUME Init PROVE BaseInv
  OBVIOUS
<1>1. Phases
  BY DEF Init, Phases
<1>2. Slots
  BY ThreadNames DEF Init, Slots, Threads
<1> QED BY <1>1, <1>2, InitTypes DEF BaseInv

(* Every step keeps the base. *)
LEMMA NextBase ==
  ASSUME BaseInv, [Next]_vars
  PROVE  BaseInv'
<1>1. TypeOK'
  BY NextTypes DEF BaseInv
<1>2. CASE UNCHANGED vars
  <2> USE <1>2 DEF vars, pool, controller, workers, supervisor
  <2>1. Phases'
    BY DEF BaseInv, Phases
  <2>2. Slots'
    BY DEF BaseInv, Slots, Handle
  <2> QED BY <1>1, <2>1, <2>2 DEF BaseInv
<1>3. CASE Controller \/ SupervisorStep
  BY <1>1, <1>3, ControllerBase, SupervisorBase DEF BaseInv
<1>4. CASE \/ \E s \in Submitters : Submit(s)
           \/ \E t \in Threads : WorkerStep(t) \/ Interrupted(t)
           \/ SpuriousWakeup
  <2>1. /\ Calm /\ UNCHANGED control /\ vId' = vId
        /\ vPc' = vPc \/ (vPc = "waiting" /\ vPc' = "woken")
    BY <1>4, CalmSteps DEF BaseInv
  <2> QED BY <1>1, <2>1, CalmBase DEF BaseInv
<1> QED BY <1>2, <1>3, <1>4 DEF Next

-----------------------------------------------------------------------------
(* A worker stays in the slot of its id, provided that start() clears the   *)
(* vector only when nobody lives.                                           *)
LEMMA StaysHandled ==
  ASSUME BaseInv, Handled, [Next]_vars, cPc = "launch" => \A t \in Threads : ~Live(t)
  PROVE  Handled'
<1> USE DEF controller, supervisor, pool, queues, mutexes, submitters, workers
<1>0. /\ wPc \in [Threads -> WorkerPcs] /\ wId \in [Threads -> Ids]
      /\ m_workers \in Seq(Threads \cup {NoThread})
      /\ Len(m_workers) \in Nat /\ cIndex \in Nat /\ spawned \in Nat /\ vId \in Nat
      /\ \A t \in Threads : wId[t] \in Nat
  <2>1. TypeOK
    BY DEF BaseInv
  <2>2. wId \in [Threads -> Ids] /\ Ids \subseteq Nat
    BY <2>1, IdNumbers DEF TypeOK
  <2>3. \A t \in Threads : wId[t] \in Nat
    BY <2>2
  <2> QED BY <2>1, <2>2, <2>3, LenProperties, PoolAssumption DEF TypeOK
<1>1. CASE Calm
  BY <1>1 DEF Calm, Handled, Handle
<1>2. CASE UNCHANGED <<wPc, wId, m_workers>>
  BY <1>2 DEF Handled, Handle, Live
<1>3. CASE StartLaunch
  BY <1>3 DEF StartLaunch, Handled, Live
<1>4. ASSUME NEW i \in Nat, m_workers' = [m_workers EXCEPT ![i + 1] = NoThread],
             UNCHANGED <<wPc, wId>>, i < Len(m_workers), Joined(Handle(i))
      PROVE  Handled'
  <2>1. /\ Len(m_workers') = Len(m_workers)
        /\ \A n \in Nat : n < Len(m_workers) =>
             m_workers'[n + 1] = IF n + 1 = i + 1 THEN NoThread ELSE m_workers[n + 1]
    BY <1>0, <1>4, SlotStored DEF BaseInv, Handle
  <2>2. ASSUME NEW t \in Threads, Live(t)'
        PROVE  wId'[t] < Len(m_workers') /\ m_workers'[wId'[t] + 1] = t
    <3>1. Live(t) /\ wId[t] < Len(m_workers) /\ m_workers[wId[t] + 1] = t
      BY <1>4, <2>2 DEF Live, Handled, Handle
    <3>2. wId[t] # i
      BY <1>4, <3>1, ThreadNames DEF Joined, Handle, Live
    <3> QED BY <1>0, <1>4, <2>1, <3>1, <3>2
  <2> QED BY <2>2 DEF Handled, Handle
<1>5. CASE StopJoinWorker
  <2>1. /\ cPc = "joinWorkers" /\ cIndex <= Len(m_workers) /\ Joined(m_workers[cIndex])
        /\ m_workers' = [m_workers EXCEPT ![cIndex] = NoThread] /\ UNCHANGED <<wPc, wId>>
    BY <1>5 DEF StopJoinWorker
  <2>2. cIndex >= 1
    BY <2>1 DEF BaseInv, Phases
  <2>3. cIndex - 1 \in Nat /\ (cIndex - 1) + 1 = cIndex /\ cIndex - 1 < Len(m_workers)
    BY <1>0, <2>1, <2>2
  <2> QED BY <1>4, <2>1, <2>3 DEF Handle
<1>6. CASE SupervisorJoin
  BY <1>0, <1>4, <1>6 DEF SupervisorJoin, BaseInv, Slots
<1>7. CASE StartSpawnWorker
  <2>1. /\ spawned < MaxThreads /\ wPc' = [wPc EXCEPT ![spawned + 1] = "loop"]
        /\ wId' = [wId EXCEPT ![spawned + 1] = cIndex] /\ cIndex = Len(m_workers)
        /\ m_workers' = Append(m_workers, spawned + 1)
    BY <1>7 DEF StartSpawnWorker, Spawn, BaseInv, Phases
  <2>2. spawned + 1 \in Threads
    BY <1>0, <2>1, ThreadNames
  <2>3. /\ Len(m_workers') = Len(m_workers) + 1 /\ m_workers'[cIndex + 1] = spawned + 1
        /\ \A n \in Nat : n < Len(m_workers) => m_workers'[n + 1] = m_workers[n + 1]
    BY <1>0, <2>1, <2>2, AppendProperties
  <2>4. ASSUME NEW t \in Threads, Live(t)'
        PROVE  wId'[t] < Len(m_workers') /\ m_workers'[wId'[t] + 1] = t
    <3>1. CASE t = spawned + 1
      BY <1>0, <2>1, <2>3, <3>1
    <3>2. CASE t # spawned + 1
      <4>1. wPc'[t] = wPc[t] /\ wId'[t] = wId[t]
        BY <1>0, <2>1, <3>2
      <4>2. wId[t] < Len(m_workers) /\ m_workers[wId[t] + 1] = t
        BY <2>4, <4>1 DEF Live, Handled, Handle
      <4> QED BY <1>0, <2>3, <4>1, <4>2
    <3> QED BY <3>1, <3>2
  <2> QED BY <2>4 DEF Handled, Handle
<1>8. CASE SupervisorReplace
  <2>1. /\ spawned < MaxThreads /\ wPc' = [wPc EXCEPT ![spawned + 1] = "loop"]
        /\ wId' = [wId EXCEPT ![spawned + 1] = vId] /\ vPc = "replace"
        /\ m_workers' = [m_workers EXCEPT ![vId + 1] = spawned + 1]
    BY <1>8 DEF SupervisorReplace, Spawn
  <2>2. spawned + 1 \in Threads
    BY <1>0, <2>1, ThreadNames
  <2>3. /\ Len(m_workers') = Len(m_workers)
        /\ \A n \in Nat : n < Len(m_workers) =>
             m_workers'[n + 1] = IF n + 1 = vId + 1 THEN spawned + 1 ELSE m_workers[n + 1]
    BY <1>0, <2>1, <2>2, SlotStored DEF BaseInv, Handle
  <2>4. vId < Len(m_workers) /\ m_workers[vId + 1] = NoThread
    BY <2>1 DEF BaseInv, Slots, Handle
  <2>5. ASSUME NEW t \in Threads, Live(t)'
        PROVE  wId'[t] < Len(m_workers') /\ m_workers'[wId'[t] + 1] = t
    <3>1. CASE t = spawned + 1
      BY <1>0, <2>1, <2>3, <2>4, <3>1
    <3>2. CASE t # spawned + 1
      <4>1. wPc'[t] = wPc[t] /\ wId'[t] = wId[t]
        BY <1>0, <2>1, <3>2
      <4>2. wId[t] < Len(m_workers) /\ m_workers[wId[t] + 1] = t
        BY <2>5, <4>1 DEF Live, Handled, Handle
      <4>3. wId[t] # vId
        BY <2>4, <4>2, ThreadNames
      <4> QED BY <1>0, <2>3, <4>1, <4>2, <4>3
    <3> QED BY <3>1, <3>2
  <2> QED BY <2>5 DEF Handled, Handle
<1>9. CASE StopNotifyTasks
  BY <1>0, <1>9 DEF StopNotifyTasks, Handled, Handle, Live
<1>10. CASE \/ UNCHANGED vars
            \/ CallStop \/ (\E n \in 1 .. NumWorkers : CallStart(n)) \/ StopNotifyFinished
            \/ StopJoinSupervisor \/ StartSpawnSupervisor
            \/ SupervisorLoop \/ SupervisorLock \/ SupervisorSleep \/ SupervisorDecide \/ SupervisorRecheck
  <2>1. UNCHANGED <<wPc, wId, m_workers>>
    BY <1>10 DEF vars, CallStop, CallStart, StopNotifyFinished, StopJoinSupervisor, StartSpawnSupervisor,
       SupervisorLoop, SupervisorLock, SupervisorSleep, SupervisorDecide, SupervisorRecheck
  <2> QED BY <1>2, <2>1
<1>11. CASE \/ \E s \in Submitters : Submit(s)
            \/ \E t \in Threads : WorkerStep(t) \/ Interrupted(t)
            \/ SpuriousWakeup
  BY <1>1, <1>11, CalmSteps DEF BaseInv
<1> QED BY <1>3, <1>5, <1>6, <1>7, <1>8, <1>9, <1>10, <1>11 DEF Next, Controller, SupervisorStep

(* Two workers in the same slot are one. *)
LEMMA HandledApart == Handled => OneWorkerPerId
BY DEF Handled, OneWorkerPerId

(* The pool has no threads. *)
LEMMA InitHandled == Init => Handled
BY DEF Init, Handled, Live

(* start() is called once: then it clears the vector before there are       *)
(* threads.                                                                 *)
LEMMA NextOnce ==
  ASSUME MaxStarts <= 1, OnceInv, [Next]_vars
  PROVE  OnceInv'
<1> USE DEF controller, supervisor, pool, queues, mutexes, submitters, workers
<1>1. BaseInv'
  BY NextBase DEF OnceInv, BaseInv
<1>2. Handled'
  <2>1. cPc = "launch" => \A t \in Threads : ~Live(t)
    <3>1. \A t \in Threads : t > 0
      BY PoolAssumption DEF Threads
    <3> QED BY <3>1 DEF OnceInv, StartedOnce, Slots, Live
  <2> QED BY <2>1, StaysHandled DEF OnceInv, BaseInv
<1>3. StartedOnce'
  <2>0. starts \in Nat /\ MaxStarts \in Nat
    BY PoolAssumption DEF OnceInv, TypeOK
  <2>1. ASSUME NEW n, CallStart(n)
        PROVE  StartedOnce'
    <3>1. starts = 0 /\ starts' = 1 /\ UNCHANGED <<cThen, spawned>>
      BY <2>0, <2>1 DEF CallStart, OnceInv, StartedOnce
    <3> QED BY <3>1 DEF OnceInv, StartedOnce
  <2>2. CASE CallStop
    BY <2>2 DEF CallStop, StopBegin, OnceInv, StartedOnce
  <2>3. CASE StopNotifyTasks \/ StopNotifyFinished \/ StopJoinWorker \/ StopJoinSupervisor
    BY <2>3 DEF StopNotifyTasks, StopNotifyFinished, StopJoinWorker, StopJoinSupervisor,
                OnceInv, StartedOnce
  <2>4. CASE StartLaunch \/ StartSpawnWorker \/ StartSpawnSupervisor
    BY <2>4 DEF StartLaunch, StartSpawnWorker, StartSpawnSupervisor, OnceInv, StartedOnce
  <2>5. CASE SupervisorStep
    <3>1. UNCHANGED <<starts, cThen, cPc, m_running>> /\ vPc # "none"
      BY <2>5 DEF SupervisorStep, SupervisorLoop, SupervisorLock, SupervisorSleep, SupervisorDecide,
         SupervisorJoin, SupervisorRecheck, SupervisorReplace
    <3>2. starts # 0 /\ cPc # "launch"
      BY <3>1 DEF OnceInv, StartedOnce, Phases
    <3> QED BY <3>1, <3>2 DEF OnceInv, StartedOnce
  <2>6. CASE \/ \E s \in Submitters : Submit(s)
             \/ \E t \in Threads : WorkerStep(t) \/ Interrupted(t)
             \/ SpuriousWakeup
    <3>1. Calm /\ UNCHANGED control
      BY <2>6, CalmSteps DEF OnceInv
    <3> QED BY <3>1 DEF Calm, control, OnceInv, StartedOnce
  <2>7. CASE UNCHANGED vars
    BY <2>7 DEF vars, OnceInv, StartedOnce
  <2> QED BY <2>1, <2>2, <2>3, <2>4, <2>5, <2>6, <2>7 DEF Next, Controller
<1> QED BY <1>1, <1>2, <1>3 DEF OnceInv, BaseInv

(* In a pool that is started once, whatever number of its workers end on    *)
(* their own and are replaced, and whenever it is stopped: no two worker    *)
(* threads share a workerId (supervisorLoop).                               *)
THEOREM ReplacementsStayApart ==
  ASSUME MaxStarts <= 1
  PROVE  Spec => []OneWorkerPerId
<1>1. Init => OnceInv
  BY InitBase, InitHandled DEF OnceInv, BaseInv, StartedOnce, Init
<1>2. OnceInv /\ [Next]_vars => OnceInv'
  BY NextOnce
<1>3. OnceInv => OneWorkerPerId
  BY HandledApart DEF OnceInv
<1> QED BY <1>1, <1>2, <1>3, PTL DEF Spec

-----------------------------------------------------------------------------
(* While nobody stores to a slot, the rules of a pool whose workers end     *)
(* only when told to are kept by whatever keeps its workers running.        *)
LEMMA CalmTold ==
  ASSUME ToldInv, Calm, UNCHANGED <<m_running, cPc, cIndex, exits>>,
         vPc' = vPc \/ vPc' \notin {"recheck", "replace"}
  PROVE  ToldToEnd'
<1>1. m_workers \in Seq(Threads \cup {NoThread}) /\ UNCHANGED m_workers
  BY DEF ToldInv, TypeOK, Calm
<1>2. ASSUME NEW i \in 1 .. Len(m_workers), m_running
      PROVE  m_workers[i] # NoThread /\ wPc'[m_workers[i]] \notin Ended
  <2>1. m_workers[i] # NoThread /\ wPc[m_workers[i]] \notin Ended
    BY <1>2 DEF ToldInv, ToldToEnd, Ended
  <2>2. m_workers[i] \in Threads
    BY <1>1, <2>1, ElementOfSeq
  <2> QED BY <1>2, <2>1, <2>2 DEF Calm
<1> QED BY <1>1, <1>2 DEF ToldInv, ToldToEnd, Ended

(* Nobody lives between stop() and start(). *)
LEMMA NobodyLeft ==
  ASSUME ToldInv, ~m_running, cPc \in {"idle", "launch"}
  PROVE  \A t \in Threads : ~Live(t)
<1>1. Len(m_workers) \in Nat /\ \A t \in Threads : wId[t] \in Nat
  <2>1. m_workers \in Seq(Threads \cup {NoThread}) /\ wId \in [Threads -> Ids] /\ Ids \subseteq Nat
    BY IdNumbers DEF ToldInv, TypeOK
  <2>2. Len(m_workers) \in Nat
    BY <2>1, LenProperties
  <2>3. \A t \in Threads : wId[t] \in Nat
    BY <2>1
  <2> QED BY <2>2, <2>3
<1> SUFFICES ASSUME NEW t \in Threads, Live(t) PROVE FALSE
  OBVIOUS
<1>2. wId[t] + 1 \in 1 .. Len(m_workers) /\ m_workers[wId[t] + 1] = t
  BY <1>1 DEF ToldInv, Handled, Handle
<1> QED BY <1>2, ThreadNames DEF ToldInv, ToldToEnd

(* start() and stop() in such a pool. *)
LEMMA ControllerTold ==
  ASSUME ToldInv, Controller
  PROVE  ToldToEnd'
<1> USE DEF controller, supervisor, pool, queues, mutexes, submitters, workers
<1>0. /\ wPc \in [Threads -> WorkerPcs] /\ m_workers \in Seq(Threads \cup {NoThread})
      /\ Len(m_workers) \in Nat /\ cIndex \in Nat /\ spawned \in Nat
      /\ \A i \in 1 .. Len(m_workers) : m_workers[i] \in Threads \cup {NoThread}
  BY LenProperties, ElementOfSeq, PoolAssumption DEF ToldInv, TypeOK
<1>1. CASE CallStop \/ \E n \in 1 .. NumWorkers : CallStart(n)
  <2>1. UNCHANGED <<wPc, m_workers, vPc>> /\ cPc = "idle"
    BY <1>1 DEF CallStop, CallStart
  <2>2. \/ m_running' = FALSE /\ cPc' = "notifyTasks"
        \/ ~m_running /\ cPc' = "launch" /\ UNCHANGED m_running
    BY <1>1 DEF CallStop, CallStart, StopBegin
  <2> QED BY <2>1, <2>2 DEF ToldInv, ToldToEnd, Ended
<1>2. CASE StopNotifyTasks \/ StopNotifyFinished
  <2>1. /\ UNCHANGED <<m_workers, m_running>> /\ ~m_running
        /\ vPc' = vPc \/ (vPc = "waiting" /\ vPc' = "woken")
    BY <1>2 DEF StopNotifyTasks, StopNotifyFinished, NotifySupervisor, ToldInv, Phases
  <2>2. cPc' = "notifyFinished" \/ (cPc' = "joinWorkers" /\ cIndex' = 1)
    BY <1>2 DEF StopNotifyTasks, StopNotifyFinished
  <2> QED BY <1>0, <2>1, <2>2 DEF ToldInv, ToldToEnd
<1>3. CASE StopJoinWorker
  <2>1. /\ UNCHANGED <<m_running, cPc, vPc>> /\ cIndex' = cIndex + 1 /\ ~m_running
        /\ cPc = "joinWorkers" /\ m_workers' = [m_workers EXCEPT ![cIndex] = NoThread]
    BY <1>3 DEF StopJoinWorker, ToldInv, Phases
  <2>2. /\ Len(m_workers') = Len(m_workers)
        /\ \A j \in 1 .. Len(m_workers) : m_workers'[j] = IF j = cIndex THEN NoThread ELSE m_workers[j]
    BY <1>0, <2>1, StoreIsSeq
  <2> QED BY <1>0, <2>1, <2>2 DEF ToldInv, ToldToEnd
<1>4. CASE StopJoinSupervisor
  <2>1. /\ UNCHANGED <<m_running, m_workers>> /\ ~m_running /\ vPc' = "none"
        /\ cPc = "joinWorkers" /\ cIndex > Len(m_workers) /\ cPc' # "joinWorkers"
    BY <1>4 DEF StopJoinSupervisor, ToldInv, Phases, TypeOK
  <2>2. \A i \in 1 .. Len(m_workers) : m_workers[i] = NoThread
    BY <1>0, <2>1 DEF ToldInv, ToldToEnd
  <2> QED BY <2>1, <2>2 DEF ToldToEnd
<1>5. CASE StartLaunch
  <2>1. m_workers' = <<>> /\ cPc' = "spawn" /\ vPc' = "none"
    BY <1>5 DEF StartLaunch, ToldInv, Phases
  <2> QED BY <2>1 DEF ToldToEnd
<1>6. CASE StartSpawnWorker
  <2>1. /\ UNCHANGED <<m_running, cPc, vPc>> /\ cPc = "spawn" /\ m_running
        /\ m_workers' = Append(m_workers, spawned + 1)
        /\ spawned < MaxThreads /\ wPc' = [wPc EXCEPT ![spawned + 1] = "loop"]
    BY <1>6 DEF StartSpawnWorker, Spawn, ToldInv, Phases
  <2>2. spawned + 1 \in Threads /\ spawned + 1 # NoThread
    BY <1>0, <2>1, ThreadNames DEF NoThread
  <2>3. /\ Len(m_workers') = Len(m_workers) + 1 /\ m_workers'[Len(m_workers) + 1] = spawned + 1
        /\ \A i \in 1 .. Len(m_workers) : m_workers'[i] = m_workers[i]
    BY <1>0, <2>1, <2>2, AppendProperties
  <2>4. ASSUME NEW i \in 1 .. Len(m_workers')
        PROVE  m_workers'[i] # NoThread /\ wPc'[m_workers'[i]] \notin {"exiting", "ending", "dead"}
    <3>1. CASE i = Len(m_workers) + 1
      BY <1>0, <2>1, <2>2, <2>3, <3>1
    <3>2. CASE i \in 1 .. Len(m_workers)
      <4>1. /\ m_workers'[i] = m_workers[i] /\ m_workers[i] # NoThread /\ m_workers[i] \in Threads
            /\ wPc[m_workers[i]] \notin {"exiting", "ending", "dead"}
        BY <1>0, <2>1, <2>3, <3>2 DEF ToldInv, ToldToEnd
      <4> QED BY <1>0, <2>1, <2>2, <4>1
    <3> QED BY <1>0, <2>3, <3>1, <3>2
  <2> QED BY <2>1, <2>4 DEF ToldInv, ToldToEnd
<1>7. CASE StartSpawnSupervisor
  <2>1. UNCHANGED <<m_running, m_workers, wPc>> /\ m_running /\ vPc' = "loop" /\ cPc' = "idle"
    BY <1>7 DEF StartSpawnSupervisor, ToldInv, Phases
  <2> QED BY <2>1 DEF ToldInv, ToldToEnd
<1> QED BY <1>1, <1>2, <1>3, <1>4, <1>5, <1>6, <1>7 DEF Controller

(* The supervisor in such a pool: it gets past a join only when stop() has  *)
(* begun.                                                                   *)
LEMMA SupervisorTold ==
  ASSUME ToldInv, SupervisorStep
  PROVE  ToldToEnd'
<1> USE DEF controller, supervisor, pool, queues, mutexes, submitters, workers
<1>0. /\ m_workers \in Seq(Threads \cup {NoThread}) /\ Len(m_workers) \in Nat /\ vId \in Nat
  BY LenProperties, IdNumbers DEF ToldInv, TypeOK
<1>1. CASE SupervisorLoop \/ SupervisorLock \/ SupervisorSleep \/ SupervisorDecide
  <2>1. UNCHANGED <<m_running, cPc, cIndex, wPc, m_workers>> /\ vPc' \notin {"recheck", "replace"}
    BY <1>1 DEF SupervisorLoop, SupervisorLock, SupervisorSleep, SupervisorDecide
  <2> QED BY <2>1 DEF ToldInv, ToldToEnd
<1>2. CASE SupervisorJoin
  <2>1. /\ UNCHANGED <<m_running, cPc, cIndex>> /\ vPc = "join" /\ vPc' = "recheck"
        /\ Joined(m_workers[vId + 1]) /\ m_workers' = [m_workers EXCEPT ![vId + 1] = NoThread]
    BY <1>2 DEF SupervisorJoin, Handle
  <2>2. vId + 1 \in 1 .. Len(m_workers)
    BY <1>0, <2>1 DEF ToldInv, Slots
  <2>3. ~m_running
    BY <2>1, <2>2 DEF Joined, ToldInv, ToldToEnd
  <2>4. /\ Len(m_workers') = Len(m_workers)
        /\ \A j \in 1 .. Len(m_workers) : m_workers'[j] = IF j = vId + 1 THEN NoThread ELSE m_workers[j]
    BY <1>0, <2>1, StoreIsSeq
  <2> QED BY <2>1, <2>3, <2>4 DEF ToldInv, ToldToEnd
<1>3. CASE SupervisorRecheck
  <2>1. UNCHANGED <<m_running, cPc, cIndex, wPc, m_workers>> /\ vPc' = "dead"
    BY <1>3 DEF SupervisorRecheck, ToldInv, ToldToEnd
  <2> QED BY <2>1 DEF ToldInv, ToldToEnd
<1>4. CASE SupervisorReplace
  BY <1>4 DEF SupervisorReplace, ToldInv, ToldToEnd
<1> QED BY <1>1, <1>2, <1>3, <1>4 DEF SupervisorStep

(* Every step of such a pool. *)
LEMMA NextTold ==
  ASSUME MaxExits = 0, ToldInv, [Next]_vars
  PROVE  ToldInv'
<1> USE DEF controller, supervisor, pool, queues, mutexes, submitters, workers
<1>1. BaseInv'
  BY NextBase DEF ToldInv, BaseInv
<1>2. Handled'
  <2>1. cPc = "launch" => \A t \in Threads : ~Live(t)
    BY NobodyLeft DEF ToldInv, Phases
  <2> QED BY <2>1, StaysHandled DEF ToldInv, BaseInv
<1>3. ToldToEnd'
  <2>1. CASE UNCHANGED vars
    BY <2>1 DEF vars, ToldInv, ToldToEnd
  <2>2. CASE \/ \E s \in Submitters : Submit(s)
             \/ \E t \in Threads : WorkerStep(t) \/ Interrupted(t)
             \/ SpuriousWakeup
    <3>1. exits' = exits
      <4>1. exits \in Nat
        BY DEF ToldInv, TypeOK
      <4> QED BY <2>2, <4>1 DEF Submit, SubmitStep, SubmitCheckRunning, SubmitEnqueue, SubmitNotify,
             WorkerStep, WorkerLoop, WorkerLock, WorkerSleep, WorkerDecide, WorkerRun, WorkerExit,
             WorkerEnd, Interrupted, SpuriousWakeup
    <3>2. /\ Calm /\ UNCHANGED <<m_running, cPc, cIndex>>
          /\ vPc' = vPc \/ vPc' \notin {"recheck", "replace"}
      BY <2>2, CalmSteps DEF ToldInv, control
    <3> QED BY <3>1, <3>2, CalmTold
  <2> QED BY <2>1, <2>2, ControllerTold, SupervisorTold DEF Next
<1> QED BY <1>1, <1>2, <1>3 DEF ToldInv, BaseInv

(* The invariant of a pool whose workers end only when told to. *)
LEMMA ToldInvHolds ==
  ASSUME MaxExits = 0
  PROVE  Spec => []ToldInv
<1>1. Init => ToldInv
  <2> SUFFICES ASSUME Init PROVE ToldInv
    OBVIOUS
  <2>1. ToldToEnd
    BY DEF Init, ToldToEnd
  <2> QED BY <2>1, InitBase, InitHandled DEF ToldInv, BaseInv
<1>2. ToldInv /\ [Next]_vars => ToldInv'
  BY NextTold
<1> QED BY <1>1, <1>2, PTL DEF Spec

(* Unless somebody interrupts a worker from outside, which nothing in the   *)
(* repository does: when stop() has returned, no worker and no supervisor   *)
(* is left, however often the pool is stopped and started again.            *)
THEOREM StopLeavesNobody ==
  ASSUME MaxExits = 0
  PROVE  Spec => []StopJoinsAll
<1>1. ToldInv => StopJoinsAll
  BY NobodyLeft DEF StopJoinsAll, ToldInv, Phases
<1> QED BY <1>1, ToldInvHolds, PTL

(* And no two workers share an id, across restarts. *)
THEOREM RestartsStayApart ==
  ASSUME MaxExits = 0
  PROVE  Spec => []OneWorkerPerId
<1>1. ToldInv => OneWorkerPerId
  BY HandledApart DEF ToldInv
<1> QED BY <1>1, ToldInvHolds, PTL

=============================================================================
