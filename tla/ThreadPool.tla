------------------------------ MODULE ThreadPool ------------------------------
(***************************************************************************)
(* code/ThreadPool.h and code/ThreadPool.cpp: the pool that Epoller hands   *)
(* every readable connection to.  Three kinds of thread meet in it:         *)
(*   - producers call addTask (in the server: the event loop alone);        *)
(*   - workers run ThreadPool::worker;                                      *)
(*   - the manager runs ThreadPool::manager and adds or retires workers.    *)
(*                                                                          *)
(* threadPoolMutex guards taskQueue, busyMutex guards busyNum.  The manager *)
(* changes currentNum, exitNum and threadList under neither, so each ++ and *)
(* -- on the first two is a load and a store that others may separate.      *)
(* A critical section that touches only what its mutex guards is one step.  *)
(* The model covers the life of a pool that is never destroyed (isStart is  *)
(* TRUE): the server's main never returns from TcpServer::run.              *)
(***************************************************************************)
EXTENDS Integers, FiniteSets

CONSTANTS
  Producers,   \* threads that call addTask
  Workers,     \* names of worker threads; the name of a dead one is reused
  Tasks,       \* names of tasks; the name of an executed one is reused
  NoTask,      \* the empty function of a default-constructed Task
  NoWorker,    \* threadPoolMutex is free; the manager holds no new thread
  Start,       \* the workers the constructor creates (startNum of them)
  minNum, maxNum, maxTaskNum, num,   \* the fields of the same names
  priority,    \* Task::priority
  TornSizes,   \* what size() may return to a reader that races with push
  ExitCap      \* bound of the model: no round of retirements beyond this

ASSUME PoolAssumption ==
  /\ IsFiniteSet(Producers) /\ Producers # {}
  /\ IsFiniteSet(Workers) /\ Start \subseteq Workers
  /\ NoTask \notin Tasks /\ NoWorker \notin Workers
  /\ minNum \in Nat /\ maxNum \in Nat /\ Cardinality(Start) <= maxNum
  /\ maxTaskNum \in Nat \ {0} /\ num \in Nat \ {0} /\ ExitCap \in Nat
  /\ priority \in [Tasks -> Int]
  /\ TornSizes \subseteq Int

VARIABLES
  taskQueue,   \* the set of queued tasks (a priority_queue leaves ties open)
  mutex,       \* the worker that holds threadPoolMutex across steps
  ppc, ptask,  \* producers: control state, the argument of addTask
  wpc, wtask,  \* workers: control state, temp
  wreg,        \* workers: the value loaded by a -- that is not stored yet
  mpc, mi,     \* manager: control state, loop counter i
  mbusy, mcur, \* manager: its local copies of busyNum and currentNum
  mreg,        \* manager: the value loaded by a ++ that is not stored yet
  mnew,        \* manager: the thread it started and has not listed yet
  currentNum, busyNum, exitNum, threadList,
  fault        \* how the process ended: "none" while it runs

producerVars == <<ppc, ptask>>
workerVars   == <<wpc, wtask, wreg>>
managerVars  == <<mpc, mi, mbusy, mcur, mreg, mnew>>
counterVars  == <<currentNum, busyNum, exitNum>>
vars == <<taskQueue, mutex, producerVars, workerVars, managerVars,
          counterVars, threadList, fault>>

Free    == mutex = NoWorker
Running == fault = "none"

\* Threads that have been started and have not left worker().
Live == {w \in Workers : wpc[w] # "none"}
\* Workers between busyNum++ and busyNum--.
Busy == {w \in Workers : wpc[w] = "run"}
\* Workers blocked in notEmpty.wait; producers blocked in notFull.wait.
Waiting        == {w \in Workers : wpc[w] = "wait"}
FullWaiters    == {p \in Producers : ppc[p] = "notFull"}
\* Producers that have seen room and have not pushed yet.
Cleared        == {p \in Producers : ppc[p] = "push"}

Init ==
  /\ taskQueue = {} /\ mutex = NoWorker
  /\ ppc = [p \in Producers |-> "idle"]
  /\ ptask = [p \in Producers |-> NoTask]
  /\ wpc = [w \in Workers |-> IF w \in Start THEN "acquire" ELSE "none"]
  /\ wtask = [w \in Workers |-> NoTask]
  /\ wreg = [w \in Workers |-> 0]
  /\ mpc = "sleep" /\ mi = 0 /\ mbusy = 0 /\ mcur = 0 /\ mreg = 0
  /\ mnew = NoWorker
  /\ currentNum = Cardinality(Start) /\ busyNum = 0 /\ exitNum = 0
  /\ threadList = Start
  /\ fault = "none"

(***************************************************************************)
(* Condition variables                                                      *)
(***************************************************************************)
\* notEmpty.notify_one(): some blocked worker, if any, returns from wait.
NotifyNotEmpty ==
  IF Waiting = {} THEN UNCHANGED wpc
  ELSE \E w \in Waiting : wpc' = [wpc EXCEPT ![w] = "acquire"]

\* notFull.notify_one()
NotifyNotFull ==
  IF FullWaiters = {} THEN UNCHANGED ppc
  ELSE \E p \in FullWaiters : ppc' = [ppc EXCEPT ![p] = "check"]

\* wait may return without a notification.
SpuriousWorker(w) ==
  /\ Running /\ wpc[w] = "wait"
  /\ wpc' = [wpc EXCEPT ![w] = "acquire"]
  /\ UNCHANGED <<taskQueue, mutex, producerVars, wtask, wreg, managerVars,
                 counterVars, threadList, fault>>

SpuriousProducer(p) ==
  /\ Running /\ ppc[p] = "notFull"
  /\ ppc' = [ppc EXCEPT ![p] = "check"]
  /\ UNCHANGED <<taskQueue, mutex, ptask, workerVars, managerVars,
                 counterVars, threadList, fault>>

(***************************************************************************)
(* addTask                                                                  *)
(***************************************************************************)
InFlight == taskQueue \cup {wtask[w] : w \in Workers}
                      \cup {ptask[p] : p \in Producers}

\* A producer enters addTask.
Submit(p, t) ==
  /\ Running /\ ppc[p] = "idle"
  /\ t \notin InFlight
  /\ ppc' = [ppc EXCEPT ![p] = "check"]
  /\ ptask' = [ptask EXCEPT ![p] = t]
  /\ UNCHANGED <<taskQueue, mutex, workerVars, managerVars, counterVars,
                 threadList, fault>>

\* Mutant: the size test lets one task too many in.
CheckRoomLate(p) ==
  /\ Running /\ ppc[p] = "check" /\ Free
  /\ ppc' = [ppc EXCEPT ![p] = IF Cardinality(taskQueue) > maxTaskNum
                               THEN "notFull" ELSE "push"]
  /\ UNCHANGED <<taskQueue, mutex, ptask, workerVars, managerVars,
                 counterVars, threadList, fault>>

\* The first critical section: wait until there is room, then unlock.
CheckRoom(p) ==
  /\ Running /\ ppc[p] = "check" /\ Free
  /\ ppc' = [ppc EXCEPT ![p] = IF Cardinality(taskQueue) >= maxTaskNum
                               THEN "notFull" ELSE "push"]
  /\ UNCHANGED <<taskQueue, mutex, ptask, workerVars, managerVars,
                 counterVars, threadList, fault>>

\* Mutant: pushes a default-constructed Task instead of the argument.
PushDefault(p) ==
  /\ Running /\ ppc[p] = "push" /\ Free
  /\ taskQueue' = taskQueue \cup {NoTask}
  /\ ptask' = [ptask EXCEPT ![p] = NoTask]
  /\ ppc' = [ppc EXCEPT ![p] = "notify"]
  /\ UNCHANGED <<mutex, workerVars, managerVars, counterVars, threadList,
                 fault>>

\* The second critical section pushes without looking at the size again.
Push(p) ==
  /\ Running /\ ppc[p] = "push" /\ Free
  /\ taskQueue' = taskQueue \cup {ptask[p]}
  /\ ptask' = [ptask EXCEPT ![p] = NoTask]
  /\ ppc' = [ppc EXCEPT ![p] = "notify"]
  /\ UNCHANGED <<mutex, workerVars, managerVars, counterVars, threadList,
                 fault>>

\* Mutant: addTask returns without notify_one.
NotifyForgotten(p) ==
  /\ Running /\ ppc[p] = "notify"
  /\ ppc' = [ppc EXCEPT ![p] = "idle"]
  /\ UNCHANGED <<taskQueue, mutex, ptask, workerVars, managerVars,
                 counterVars, threadList, fault>>

\* notify_one after the unlock, then addTask returns.
NotifyPushed(p) ==
  /\ Running /\ ppc[p] = "notify"
  /\ NotifyNotEmpty
  /\ ppc' = [ppc EXCEPT ![p] = "idle"]
  /\ UNCHANGED <<taskQueue, mutex, ptask, wtask, wreg, managerVars,
                 counterVars, threadList, fault>>

(***************************************************************************)
(* worker                                                                   *)
(***************************************************************************)
\* Task::operator< ranks the smaller priority number higher; ties are open.
Tops(q) == {t \in q : \A u \in q : priority[t] <= priority[u]}

\* Nothing is queued: wait, whatever exitNum says.
Wait(w) ==
  /\ Running /\ wpc[w] = "acquire" /\ Free
  /\ taskQueue = {}
  /\ wpc' = [wpc EXCEPT ![w] = "wait"]
  /\ UNCHANGED <<taskQueue, mutex, producerVars, wtask, wreg, managerVars,
                 counterVars, threadList, fault>>

\* Mutant: top() without pop().
PopCopies(w) ==
  /\ Running /\ wpc[w] = "acquire" /\ Free
  /\ taskQueue # {} /\ exitNum <= 0
  /\ \E t \in Tops(taskQueue) : wtask' = [wtask EXCEPT ![w] = t]
  /\ wpc' = [wpc EXCEPT ![w] = "start"]
  /\ NotifyNotFull
  /\ UNCHANGED <<taskQueue, mutex, ptask, wreg, managerVars, counterVars,
                 threadList, fault>>

\* Mutant: no notFull.notify_one after the pop.
PopSilent(w) ==
  /\ Running /\ wpc[w] = "acquire" /\ Free
  /\ taskQueue # {} /\ exitNum <= 0
  /\ \E t \in Tops(taskQueue) :
       /\ taskQueue' = taskQueue \ {t}
       /\ wtask' = [wtask EXCEPT ![w] = t]
  /\ wpc' = [wpc EXCEPT ![w] = "start"]
  /\ UNCHANGED <<mutex, producerVars, wreg, managerVars, counterVars,
                 threadList, fault>>

\* Something is queued and no exit is due: pop, notFull.notify_one, unlock.
Pop(w) ==
  /\ Running /\ wpc[w] = "acquire" /\ Free
  /\ taskQueue # {} /\ exitNum <= 0
  /\ \E t \in Tops(taskQueue) :
       /\ taskQueue' = taskQueue \ {t}
       /\ wtask' = [wtask EXCEPT ![w] = t]
  /\ wpc' = [wpc EXCEPT ![w] = "start"]
  /\ NotifyNotFull
  /\ UNCHANGED <<mutex, ptask, wreg, managerVars, counterVars, threadList,
                 fault>>

\* Mutant: tests exitNum >= 0.
BeginExitEarly(w) ==
  /\ Running /\ wpc[w] = "acquire" /\ Free
  /\ taskQueue # {} /\ exitNum >= 0
  /\ mutex' = w
  /\ wreg' = [wreg EXCEPT ![w] = exitNum]
  /\ wpc' = [wpc EXCEPT ![w] = "decExit"]
  /\ UNCHANGED <<taskQueue, producerVars, wtask, managerVars, counterVars,
                 threadList, fault>>

\* Something is queued and an exit is due: the load of exitNum--, lock held.
BeginExit(w) ==
  /\ Running /\ wpc[w] = "acquire" /\ Free
  /\ taskQueue # {} /\ exitNum > 0
  /\ mutex' = w
  /\ wreg' = [wreg EXCEPT ![w] = exitNum]
  /\ wpc' = [wpc EXCEPT ![w] = "decExit"]
  /\ UNCHANGED <<taskQueue, producerVars, wtask, managerVars, counterVars,
                 threadList, fault>>

\* The store of exitNum--, the test against minNum, the load of currentNum--.
\* At minNum the worker unlocks and goes on to call its empty temp.
DecExit(w) ==
  /\ Running /\ wpc[w] = "decExit"
  /\ exitNum' = wreg[w] - 1
  /\ IF currentNum > minNum
     THEN /\ wreg' = [wreg EXCEPT ![w] = currentNum]
          /\ wpc' = [wpc EXCEPT ![w] = "decCurrent"]
          /\ UNCHANGED mutex
     ELSE /\ wreg' = [wreg EXCEPT ![w] = 0]
          /\ wpc' = [wpc EXCEPT ![w] = "start"]
          /\ mutex' = NoWorker
  /\ UNCHANGED <<taskQueue, producerVars, wtask, managerVars, currentNum,
                 busyNum, threadList, fault>>

\* The store of currentNum--, then the unlock.
DecCurrent(w) ==
  /\ Running /\ wpc[w] = "decCurrent"
  /\ currentNum' = wreg[w] - 1
  /\ wreg' = [wreg EXCEPT ![w] = 0]
  /\ wpc' = [wpc EXCEPT ![w] = "exiting"]
  /\ mutex' = NoWorker
  /\ UNCHANGED <<taskQueue, producerVars, wtask, managerVars, busyNum,
                 exitNum, threadList, fault>>

\* Mutant: returns without detaching the handle.
ThreadExitAttached(w) ==
  /\ Running /\ wpc[w] = "exiting"
  /\ wpc' = [wpc EXCEPT ![w] = "none"]
  /\ UNCHANGED <<taskQueue, mutex, producerVars, wtask, wreg, managerVars,
                 counterVars, threadList, fault>>

\* threadExit: find the own handle and detach it (a detached handle stays in
\* the list but has no id any more).  A thread that is not listed yet
\* dereferences threadList.end().
ThreadExit(w) ==
  /\ Running /\ wpc[w] = "exiting"
  /\ IF w \in threadList
     THEN /\ threadList' = threadList \ {w}
          /\ wpc' = [wpc EXCEPT ![w] = "none"]
          /\ UNCHANGED fault
     ELSE /\ fault' = "end_dereferenced"
          /\ UNCHANGED <<threadList, wpc>>
  /\ UNCHANGED <<taskQueue, mutex, producerVars, wtask, wreg, managerVars,
                 counterVars>>

\* busyNum++ under busyMutex.
StartTask(w) ==
  /\ Running /\ wpc[w] = "start"
  /\ busyNum' = busyNum + 1
  /\ wpc' = [wpc EXCEPT ![w] = "run"]
  /\ UNCHANGED <<taskQueue, mutex, producerVars, wtask, wreg, managerVars,
                 currentNum, exitNum, threadList, fault>>

\* Mutant: no busyNum-- after the task.
FinishUncounted(w) ==
  /\ Running /\ wpc[w] = "run" /\ wtask[w] # NoTask
  /\ wtask' = [wtask EXCEPT ![w] = NoTask]
  /\ wpc' = [wpc EXCEPT ![w] = "acquire"]
  /\ UNCHANGED <<taskQueue, mutex, producerVars, wreg, managerVars,
                 counterVars, threadList, fault>>

\* The task function returns; busyNum-- under busyMutex; next iteration.
FinishTask(w) ==
  /\ Running /\ wpc[w] = "run" /\ wtask[w] # NoTask
  /\ busyNum' = busyNum - 1
  /\ wtask' = [wtask EXCEPT ![w] = NoTask]
  /\ wpc' = [wpc EXCEPT ![w] = "acquire"]
  /\ UNCHANGED <<taskQueue, mutex, producerVars, wreg, managerVars,
                 currentNum, exitNum, threadList, fault>>

\* Calling an empty std::function throws bad_function_call; nothing in the
\* thread catches it, so the process terminates.
CallEmpty(w) ==
  /\ Running /\ wpc[w] = "run" /\ wtask[w] = NoTask
  /\ fault' = "bad_function_call"
  /\ UNCHANGED <<taskQueue, mutex, producerVars, workerVars, managerVars,
                 counterVars, threadList>>

(***************************************************************************)
(* manager                                                                  *)
(***************************************************************************)
\* After the sleep: copy busyNum and currentNum under busyMutex.
Sample ==
  /\ Running /\ mpc = "sleep"
  /\ mbusy' = busyNum /\ mcur' = currentNum
  /\ mpc' = "decide"
  /\ UNCHANGED <<taskQueue, mutex, producerVars, workerVars, mi, mreg, mnew,
                 counterVars, threadList, fault>>

\* taskQueue.size() without the mutex: while a producer may be inside push,
\* the vector's begin and end pointers can be read from different states.
RacyTaskNum ==
  {Cardinality(taskQueue)} \cup (IF Free /\ Cleared # {} THEN TornSizes ELSE {})

\* Compare the tasks with the idle workers and choose a branch.
Decide ==
  /\ Running /\ mpc = "decide"
  /\ \E taskNum \in RacyTaskNum :
       LET leisureNum == mcur - mbusy IN
       mpc' = IF taskNum > leisureNum /\ mcur < maxNum THEN "spawn"
              ELSE IF /\ leisureNum - taskNum > minNum
                      /\ exitNum + num <= ExitCap
                   THEN "retire" ELSE "sleep"
  /\ mi' = 0 /\ mbusy' = 0 /\ mcur' = 0
  /\ UNCHANGED <<taskQueue, mutex, producerVars, workerVars, mreg, mnew,
                 counterVars, threadList, fault>>

\* new std::thread: the worker runs from here on.
Spawn(w) ==
  /\ Running /\ mpc = "spawn" /\ wpc[w] = "none"
  /\ wpc' = [wpc EXCEPT ![w] = "acquire"]
  /\ mnew' = w /\ mpc' = "list"
  /\ UNCHANGED <<taskQueue, mutex, producerVars, wtask, wreg, mi, mbusy, mcur,
                 mreg, counterVars, threadList, fault>>

\* threadList.push_back, then the load of currentNum++.
EnlistThread ==
  /\ Running /\ mpc = "list"
  /\ threadList' = threadList \cup {mnew}
  /\ mnew' = NoWorker
  /\ mreg' = currentNum /\ mpc' = "count"
  /\ UNCHANGED <<taskQueue, mutex, producerVars, workerVars, mi, mbusy, mcur,
                 counterVars, fault>>

\* The store of currentNum++.
CountThread ==
  /\ Running /\ mpc = "count"
  /\ currentNum' = mreg + 1
  /\ mreg' = 0 /\ mpc' = "full"
  /\ UNCHANGED <<taskQueue, mutex, producerVars, workerVars, mi, mbusy, mcur,
                 mnew, busyNum, exitNum, threadList, fault>>

\* Mutant: no break at maxNum.
TestFullNever ==
  /\ Running /\ mpc = "full"
  /\ IF mi + 1 = num THEN mi' = 0 /\ mpc' = "sleep"
                     ELSE mi' = mi + 1 /\ mpc' = "spawn"
  /\ UNCHANGED <<taskQueue, mutex, producerVars, workerVars, mbusy, mcur,
                 mreg, mnew, counterVars, threadList, fault>>

\* Break at maxNum, else i++ and the loop condition.
TestFull ==
  /\ Running /\ mpc = "full"
  /\ IF currentNum = maxNum \/ mi + 1 = num
     THEN mi' = 0 /\ mpc' = "sleep"
     ELSE mi' = mi + 1 /\ mpc' = "spawn"
  /\ UNCHANGED <<taskQueue, mutex, producerVars, workerVars, mbusy, mcur,
                 mreg, mnew, counterVars, threadList, fault>>

\* The load of exitNum++.
LoadExit ==
  /\ Running /\ mpc = "retire"
  /\ mreg' = exitNum /\ mpc' = "notify"
  /\ UNCHANGED <<taskQueue, mutex, producerVars, workerVars, mi, mbusy, mcur,
                 mnew, counterVars, threadList, fault>>

\* The store of exitNum++, notEmpty.notify_one, i++ and the loop condition.
StoreExit ==
  /\ Running /\ mpc = "notify"
  /\ exitNum' = mreg + 1
  /\ NotifyNotEmpty
  /\ mreg' = 0
  /\ IF mi + 1 = num THEN mi' = 0 /\ mpc' = "sleep"
                     ELSE mi' = mi + 1 /\ mpc' = "retire"
  /\ UNCHANGED <<taskQueue, mutex, producerVars, wtask, wreg, mbusy, mcur,
                 mnew, currentNum, busyNum, threadList, fault>>

-------------------------------------------------------------------------------
Producer(p) == CheckRoom(p) \/ Push(p) \/ NotifyPushed(p)

Worker(w) ==
  \/ Wait(w) \/ Pop(w) \/ BeginExit(w) \/ DecExit(w) \/ DecCurrent(w)
  \/ ThreadExit(w) \/ StartTask(w) \/ FinishTask(w) \/ CallEmpty(w)

Manager ==
  \/ Sample \/ Decide \/ (\E w \in Workers : Spawn(w)) \/ EnlistThread
  \/ CountThread \/ TestFull \/ LoadExit \/ StoreExit

Next ==
  \/ \E p \in Producers : \/ \E t \in Tasks : Submit(p, t)
                          \/ Producer(p)
                          \/ SpuriousProducer(p)
  \/ \E w \in Workers : Worker(w) \/ SpuriousWorker(w)
  \/ Manager

Spec == Init /\ [][Next]_vars

\* Threads once started keep running, the operating system schedules them all,
\* and a task function returns.  Nobody is obliged to call addTask.
Fairness ==
  /\ \A p \in Producers : WF_vars(Producer(p))
  /\ \A w \in Workers : WF_vars(Worker(w))
  /\ WF_vars(Manager)

FairSpec == Spec /\ Fairness

-------------------------------------------------------------------------------
(***************************************************************************)
(* Properties                                                               *)
(***************************************************************************)
ProducerStates == {"idle", "check", "notFull", "push", "notify"}
WorkerStates   == {"none", "acquire", "wait", "start", "run",
                   "decExit", "decCurrent", "exiting"}
ManagerStates  == {"sleep", "decide", "spawn", "list", "count", "full",
                   "retire", "notify"}

\* Every variable has its type.
TypeOK ==
  /\ taskQueue \subseteq Tasks
  /\ mutex \in Workers \cup {NoWorker}
  /\ ppc \in [Producers -> ProducerStates]
  /\ ptask \in [Producers -> Tasks \cup {NoTask}]
  /\ wpc \in [Workers -> WorkerStates]
  /\ wtask \in [Workers -> Tasks \cup {NoTask}]
  /\ wreg \in [Workers -> Int]
  /\ mpc \in ManagerStates
  /\ mi \in Nat /\ mbusy \in Int /\ mcur \in Int /\ mreg \in Int
  /\ mnew \in Workers \cup {NoWorker}
  /\ currentNum \in Int /\ busyNum \in Int /\ exitNum \in Int
  /\ threadList \subseteq Workers
  /\ fault \in {"none", "bad_function_call", "end_dereferenced"}

\* addTask tests the size in one critical section and pushes in another, so
\* the queue may outgrow maxTaskNum, but only by one task for every producer
\* other than the first; the server has one producer and stays within the limit.
Capacity   == maxTaskNum + Cardinality(Producers) - 1
QueueBound == Cardinality(taskQueue) <= Capacity

\* Although the manager's ++ and the workers' -- on currentNum can overwrite
\* each other, the counter never passes maxNum and retirements never bring it
\* below minNum (or below the initial size, when that is smaller).
Floor == IF Cardinality(Start) < minNum THEN Cardinality(Start) ELSE minNum
PoolSizeBounds == Floor <= currentNum /\ currentNum <= maxNum

\* A lost update may leave exitNum too high or too low, but never negative:
\* only a worker that has seen it positive under the mutex decrements it.
ExitNumNonNegative == exitNum >= 0

\* busyNum counts the workers between its ++ and its --, a worker that is
\* about to call an empty temp included.
BusyExact == busyNum = Cardinality(Busy)

\* The handles that have not been detached are those of the live threads, but
\* for the one the manager has started and not listed yet: that thread alone
\* can run past the end of threadList in threadExit.
ListedThreads == threadList = Live \ {mnew}

\* The pool implements TaskPool: through retirements, spurious wake-ups and
\* racing counters, every queued task goes to exactly one worker and leaves
\* the pool only by being executed, and the pending tasks stay bounded.
Pool == INSTANCE TaskPool
          WITH pending <- taskQueue,
               running <- {wtask[w] : w \in Workers} \ {NoTask}
ImplementsTaskPool == Pool!Spec

\* Until the first retirement no wake-up is lost: whenever a task is queued,
\* some worker goes on to pop a task.
Popped == \E w \in Workers : wpc[w] = "start" /\ wtask[w] # NoTask
TaskProgress == [](exitNum = 0) => (taskQueue # {} ~> Popped)

\* Until the first retirement a producer blocked by a full queue gets on.
ProducerProgress ==
  [](exitNum = 0) => \A p \in Producers : ppc[p] = "notFull" ~> ppc[p] = "idle"

(***************************************************************************)
(* What comments of the source say and the code does not do                 *)
(***************************************************************************)
\* ThreadPool.cpp:108, a busy worker executes a task: never an empty function.
OnlyTasksRun == fault # "bad_function_call"

\* ThreadPool.cpp:47 and 101, a producer waits until the queue is not full and
\* is told so: it does not wait for ever in a process that goes on running.
BlockedProducerResumes ==
  \A p \in Producers : ppc[p] = "notFull" ~> (ppc[p] # "notFull" \/ ~Running)
===============================================================================
