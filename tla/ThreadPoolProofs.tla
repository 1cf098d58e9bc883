--------------------------- MODULE ThreadPoolProofs ---------------------------
(***************************************************************************)
(* Theorems about ThreadPool, for every set of producers, workers and tasks *)
(* and every value of the pool's parameters.                                *)
(*                                                                          *)
(* The invariants are proved in layers: types, then who owns the mutex, and *)
(* on these the bounds of the counters, the bound of the queue and the      *)
(* ownership of tasks, which together give the refinement of TaskPool.      *)
(***************************************************************************)
EXTENDS ThreadPool, FiniteSetTheorems, TLAPS

(***************************************************************************)
(* Inductive strengthenings                                                 *)
(***************************************************************************)
\* What a thread is about to hand over exists: the task a producer pushes, the
\* thread the manager lists.
HandInv ==
  /\ \A p \in Producers :
       ppc[p] \in {"check", "notFull", "push"} => ptask[p] \in Tasks
  /\ mpc = "list" => mnew \in Workers

TypeInv == TypeOK /\ HandInv

\* A worker in the middle of its exit holds threadPoolMutex.
MutexInv ==
  \A w \in Workers : wpc[w] \in {"decExit", "decCurrent"} => mutex = w

\* What the pending stores of currentNum may write.  While a worker is about
\* to decrement, nobody else decrements, so its loaded value is a lower bound
\* of the counter; the manager's loaded value is an upper bound.
SizeInv ==
  /\ PoolSizeBounds
  /\ \A w \in Workers : wpc[w] = "decCurrent" =>
       /\ wreg[w] > minNum /\ wreg[w] <= currentNum
       /\ mpc = "count" => wreg[w] <= mreg
  /\ mpc = "decide" => currentNum <= mcur
  /\ mpc \in {"spawn", "list"} => currentNum < maxNum
  /\ mpc = "count" => Floor <= mreg /\ currentNum <= mreg /\ mreg < maxNum

\* What the pending stores of exitNum may write.
ExitInv ==
  /\ ExitNumNonNegative
  /\ \A w \in Workers : wpc[w] = "decExit" => wreg[w] > 0
  /\ mpc = "notify" => mreg >= 0

\* The manager holds a thread only between starting and listing it, and that
\* thread cannot leave before it is listed.
ListInv ==
  /\ ListedThreads
  /\ mpc = "list" => mnew \in Live
  /\ mpc # "list" => mnew = NoWorker

\* A producer that was cleared to push has a reserved place above the limit.
QueueInv ==
  /\ IsFiniteSet(taskQueue)
  /\ Cardinality(taskQueue) + Cardinality(Cleared) <= Capacity

\* Who has which task: nobody shares one, and only a worker between taking and
\* finishing, or a producer inside addTask, has one at all.
OwnerInv ==
  /\ \A w \in Workers : wtask[w] # NoTask => /\ wpc[w] \in {"start", "run"}
                                             /\ wtask[w] \notin taskQueue
  /\ \A p \in Producers : ppc[p] \in {"check", "notFull", "push"}
                            <=> ptask[p] # NoTask
  /\ \A p \in Producers : ptask[p] \notin taskQueue
  /\ \A p \in Producers, w \in Workers : ptask[p] # NoTask => ptask[p] # wtask[w]
  /\ \A v, w \in Workers : v # w /\ wtask[v] # NoTask => wtask[v] # wtask[w]
  /\ \A p, q \in Producers : p # q /\ ptask[p] # NoTask => ptask[p] # ptask[q]

-------------------------------------------------------------------------------
(***************************************************************************)
(* Types                                                                    *)
(***************************************************************************)
LEMMA ConstantTypes ==
  /\ IsFiniteSet(Start) /\ Cardinality(Start) \in Nat
  /\ Cardinality(Producers) \in Nat
  /\ Floor \in Int /\ Floor <= minNum /\ Floor <= Cardinality(Start)
BY FS_Subset, FS_CardinalityType, PoolAssumption DEF PoolAssumption, Floor

LEMMA InitTypeInv == Init => TypeInv
BY PoolAssumption, ConstantTypes
   DEF Init, TypeInv, TypeOK, HandInv, PoolAssumption, ProducerStates,
       WorkerStates, ManagerStates

\* A notification wakes a waiting thread and touches no other.
LEMMA NotifyNotEmptyEffect ==
  ASSUME wpc \in [Workers -> WorkerStates], NotifyNotEmpty
  PROVE  /\ wpc' \in [Workers -> WorkerStates]
         /\ \A w \in Workers : \/ wpc'[w] = wpc[w]
                               \/ wpc[w] = "wait" /\ wpc'[w] = "acquire"
<1>1. CASE Waiting = {}
  BY <1>1 DEF NotifyNotEmpty
<1>2. CASE Waiting # {}
  <2>1. PICK v \in Waiting : wpc' = [wpc EXCEPT ![v] = "acquire"]
    BY <1>2 DEF NotifyNotEmpty
  <2>2. v \in Workers /\ wpc[v] = "wait"
    BY <2>1 DEF Waiting
  <2>3. QED BY <2>1, <2>2 DEF WorkerStates
<1>3. QED BY <1>1, <1>2

LEMMA NotifyNotFullEffect ==
  ASSUME ppc \in [Producers -> ProducerStates], NotifyNotFull
  PROVE  /\ ppc' \in [Producers -> ProducerStates]
         /\ \A p \in Producers : \/ ppc'[p] = ppc[p]
                                 \/ ppc[p] = "notFull" /\ ppc'[p] = "check"
<1>1. CASE FullWaiters = {}
  BY <1>1 DEF NotifyNotFull
<1>2. CASE FullWaiters # {}
  <2>1. PICK q \in FullWaiters : ppc' = [ppc EXCEPT ![q] = "check"]
    BY <1>2 DEF NotifyNotFull
  <2>2. q \in Producers /\ ppc[q] = "notFull"
    BY <2>1 DEF FullWaiters
  <2>3. QED BY <2>1, <2>2 DEF ProducerStates
<1>3. QED BY <1>1, <1>2

\* The steps of addTask keep the types.
LEMMA ProducerTypeInv ==
  ASSUME TypeInv, NEW p \in Producers,
         \/ \E t \in Tasks : Submit(p, t)
         \/ Producer(p) \/ SpuriousProducer(p)
  PROVE  TypeInv'
<1> USE PoolAssumption DEF TypeInv, TypeOK, HandInv, PoolAssumption,
          ProducerStates, workerVars, managerVars, counterVars
<1>1. ASSUME NEW t \in Tasks, Submit(p, t) PROVE TypeInv'
  BY <1>1 DEF Submit
<1>2. CASE CheckRoom(p)
  BY <1>2 DEF CheckRoom
<1>3. CASE Push(p)
  BY <1>3 DEF Push
<1>4. CASE NotifyPushed(p)
  <2>1. wpc' \in [Workers -> WorkerStates]
    BY <1>4, NotifyNotEmptyEffect DEF NotifyPushed
  <2>2. QED BY <1>4, <2>1 DEF NotifyPushed
<1>5. CASE SpuriousProducer(p)
  BY <1>5 DEF SpuriousProducer
<1>6. QED BY <1>1, <1>2, <1>3, <1>4, <1>5 DEF Producer

\* The steps of worker keep the types.
LEMMA WorkerTypeInv ==
  ASSUME TypeInv, NEW w \in Workers, Worker(w) \/ SpuriousWorker(w)
  PROVE  TypeInv'
<1> USE PoolAssumption DEF TypeInv, TypeOK, HandInv, PoolAssumption,
          WorkerStates, producerVars, managerVars, counterVars
<1>1. CASE Wait(w)
  BY <1>1 DEF Wait
<1>2. CASE Pop(w)
  <2>1. ppc' \in [Producers -> ProducerStates]
    BY <1>2, NotifyNotFullEffect DEF Pop
  <2>2. \A p \in Producers : ppc'[p] \in {"check", "notFull", "push"}
                             => ptask'[p] \in Tasks
    BY <1>2, NotifyNotFullEffect DEF Pop
  <2>3. QED BY <1>2, <2>1, <2>2 DEF Pop, Tops
<1>3. CASE BeginExit(w)
  BY <1>3 DEF BeginExit
<1>4. CASE DecExit(w)
  BY <1>4 DEF DecExit
<1>5. CASE DecCurrent(w)
  BY <1>5 DEF DecCurrent
<1>6. CASE ThreadExit(w)
  BY <1>6 DEF ThreadExit
<1>7. CASE StartTask(w)
  BY <1>7 DEF StartTask
<1>8. CASE FinishTask(w)
  BY <1>8 DEF FinishTask
<1>9. CASE CallEmpty(w)
  BY <1>9 DEF CallEmpty, workerVars
<1>10. CASE SpuriousWorker(w)
  BY <1>10 DEF SpuriousWorker
<1>11. QED
  BY <1>1, <1>2, <1>3, <1>4, <1>5, <1>6, <1>7, <1>8, <1>9, <1>10 DEF Worker

\* The steps of manager keep the types.
LEMMA ManagerTypeInv ==
  ASSUME TypeInv, Manager
  PROVE  TypeInv'
<1> USE PoolAssumption DEF TypeInv, TypeOK, HandInv, PoolAssumption,
          ManagerStates, producerVars, workerVars, counterVars
<1>1. CASE Sample
  BY <1>1 DEF Sample
<1>2. CASE Decide
  BY <1>2 DEF Decide
<1>3. ASSUME NEW w \in Workers, Spawn(w) PROVE TypeInv'
  BY <1>3 DEF Spawn, WorkerStates
<1>4. CASE EnlistThread
  BY <1>4 DEF EnlistThread
<1>5. CASE CountThread
  BY <1>5 DEF CountThread
<1>6. CASE TestFull
  BY <1>6 DEF TestFull
<1>7. CASE LoadExit
  BY <1>7 DEF LoadExit
<1>8. CASE StoreExit
  <2>1. wpc' \in [Workers -> WorkerStates]
    BY <1>8, NotifyNotEmptyEffect DEF StoreExit
  <2>2. QED BY <1>8, <2>1 DEF StoreExit
<1>9. QED
  BY <1>1, <1>2, <1>3, <1>4, <1>5, <1>6, <1>7, <1>8 DEF Manager

LEMMA NextTypeInv == TypeInv /\ [Next]_vars => TypeInv'
<1> SUFFICES ASSUME TypeInv, [Next]_vars PROVE TypeInv'
  OBVIOUS
<1>1. CASE Next
  BY <1>1, ProducerTypeInv, WorkerTypeInv, ManagerTypeInv DEF Next
<1>2. CASE UNCHANGED vars
  BY <1>2 DEF TypeInv, TypeOK, HandInv, vars, producerVars, workerVars,
              managerVars, counterVars
<1>3. QED BY <1>1, <1>2

LEMMA TypeInvariant == Spec => []TypeInv
BY InitTypeInv, NextTypeInv, PTL DEF Spec

\* Every variable of the pool keeps its type, whatever the interleaving: in
\* particular push receives a task and push_back a thread.
THEOREM TypeCorrect == Spec => []TypeOK
BY TypeInvariant, PTL DEF TypeInv

-------------------------------------------------------------------------------
(***************************************************************************)
(* The counters                                                             *)
(***************************************************************************)
\* Only one worker at a time is in the middle of its exit.
LEMMA MutexInvariant == Spec => []MutexInv
<1> USE DEF MutexInv
<1>1. Init => MutexInv
  BY DEF Init
<1>2. TypeInv /\ MutexInv /\ [Next]_vars => MutexInv'
  <2> SUFFICES ASSUME TypeInv, MutexInv, [Next]_vars PROVE MutexInv'
    OBVIOUS
  <2> USE PoolAssumption DEF TypeInv, TypeOK, PoolAssumption, workerVars
  <2>1. ASSUME NEW p \in Producers, NotifyPushed(p) PROVE MutexInv'
    BY <2>1, NotifyNotEmptyEffect DEF NotifyPushed
  <2>2. ASSUME NEW p \in Producers,
               \/ \E t \in Tasks : Submit(p, t)
               \/ CheckRoom(p) \/ Push(p) \/ SpuriousProducer(p)
        PROVE  MutexInv'
    BY <2>2 DEF Submit, CheckRoom, Push, SpuriousProducer
  <2>3. ASSUME NEW w \in Workers,
               \/ Wait(w) \/ Pop(w) \/ BeginExit(w) \/ DecExit(w)
               \/ DecCurrent(w)
        PROVE  MutexInv'
    BY <2>3 DEF Wait, Pop, BeginExit, DecExit, DecCurrent, Free
  <2>4. ASSUME NEW w \in Workers,
               \/ ThreadExit(w) \/ StartTask(w) \/ FinishTask(w)
               \/ CallEmpty(w) \/ SpuriousWorker(w)
        PROVE  MutexInv'
    BY <2>4 DEF ThreadExit, StartTask, FinishTask, CallEmpty, SpuriousWorker
  <2>5. CASE Sample \/ Decide \/ EnlistThread \/ CountThread \/ TestFull
             \/ LoadExit
    BY <2>5 DEF Sample, Decide, EnlistThread, CountThread, TestFull, LoadExit
  <2>6. ASSUME NEW w \in Workers, Spawn(w) PROVE MutexInv'
    BY <2>6 DEF Spawn
  <2>7. CASE StoreExit
    BY <2>7, NotifyNotEmptyEffect DEF StoreExit
  <2>8. CASE UNCHANGED vars
    BY <2>8 DEF vars
  <2>9. QED
    BY <2>1, <2>2, <2>3, <2>4, <2>5, <2>6, <2>7, <2>8
       DEF Next, Producer, Worker, Manager
<1>3. QED BY <1>1, <1>2, TypeInvariant, PTL DEF Spec

\* The inductive step of SizeInv.  Steps that leave the counter, the workers'
\* loaded values and the manager alone cannot disturb it.
LEMMA NextSizeInv ==
  TypeInv /\ MutexInv /\ MutexInv' /\ SizeInv /\ [Next]_vars => SizeInv'
<1> SUFFICES ASSUME TypeInv, MutexInv, MutexInv', SizeInv, [Next]_vars
             PROVE  SizeInv'
  OBVIOUS
<1> DEFINE Untouched == /\ UNCHANGED <<currentNum, wreg, mpc, mcur, mreg>>
                        /\ \A w \in Workers : wpc'[w] = "decCurrent"
                                               => wpc[w] = "decCurrent"
<1>1. Untouched => SizeInv'
  BY DEF SizeInv, PoolSizeBounds, Floor
<1> USE PoolAssumption, ConstantTypes DEF TypeInv, TypeOK, PoolAssumption
<1>2. ASSUME NEW p \in Producers, NotifyPushed(p) PROVE SizeInv'
  BY <1>1, <1>2, NotifyNotEmptyEffect DEF NotifyPushed, managerVars, counterVars
<1>3. ASSUME NEW p \in Producers,
             \/ \E t \in Tasks : Submit(p, t)
             \/ CheckRoom(p) \/ Push(p) \/ SpuriousProducer(p)
      PROVE  SizeInv'
  BY <1>1, <1>3 DEF Submit, CheckRoom, Push, SpuriousProducer,
                    workerVars, managerVars, counterVars
<1>4. ASSUME NEW w \in Workers,
             \/ Wait(w) \/ Pop(w) \/ ThreadExit(w) \/ StartTask(w)
             \/ FinishTask(w) \/ CallEmpty(w) \/ SpuriousWorker(w)
      PROVE  SizeInv'
  BY <1>1, <1>4 DEF Wait, Pop, ThreadExit, StartTask, FinishTask, CallEmpty,
                    SpuriousWorker, workerVars, managerVars, counterVars
<1>5. ASSUME NEW w \in Workers, BeginExit(w) PROVE SizeInv'
  BY <1>5 DEF BeginExit, SizeInv, PoolSizeBounds, managerVars, counterVars
<1>6. ASSUME NEW w \in Workers, DecExit(w) PROVE SizeInv'
  BY <1>6 DEF DecExit, SizeInv, PoolSizeBounds, managerVars
<1>7. ASSUME NEW w \in Workers, DecCurrent(w) PROVE SizeInv'
  <2>1. \A v \in Workers : wpc'[v] # "decCurrent"
    BY <1>7 DEF DecCurrent, MutexInv
  <2>2. currentNum' = wreg[w] - 1 /\ wreg[w] > minNum /\ wreg[w] <= currentNum
    BY <1>7 DEF DecCurrent, SizeInv
  <2>3. UNCHANGED <<mpc, mcur, mreg>>
    BY <1>7 DEF DecCurrent, managerVars
  <2>4. QED
    BY <2>1, <2>2, <2>3 DEF SizeInv, PoolSizeBounds
<1>8. CASE Sample
  BY <1>8 DEF Sample, SizeInv, PoolSizeBounds, workerVars, counterVars
<1>9. CASE Decide
  BY <1>9 DEF Decide, SizeInv, PoolSizeBounds, workerVars, counterVars
<1>10. ASSUME NEW w \in Workers, Spawn(w) PROVE SizeInv'
  BY <1>10 DEF Spawn, SizeInv, PoolSizeBounds, counterVars
<1>11. CASE EnlistThread
  BY <1>11 DEF EnlistThread, SizeInv, PoolSizeBounds, workerVars, counterVars
<1>12. CASE CountThread
  BY <1>12 DEF CountThread, SizeInv, PoolSizeBounds, workerVars
<1>13. CASE TestFull
  BY <1>13 DEF TestFull, SizeInv, PoolSizeBounds, workerVars, counterVars
<1>14. CASE LoadExit
  BY <1>14 DEF LoadExit, SizeInv, PoolSizeBounds, workerVars, counterVars
<1>15. CASE StoreExit
  <2>1. \A v \in Workers : wpc'[v] = "decCurrent" => wpc[v] = "decCurrent"
    BY <1>15, NotifyNotEmptyEffect DEF StoreExit
  <2>2. QED BY <1>15, <2>1 DEF StoreExit, SizeInv, PoolSizeBounds
<1>16. CASE UNCHANGED vars
  BY <1>1, <1>16 DEF vars, workerVars, managerVars, counterVars
<1>17. QED
  BY <1>2, <1>3, <1>4, <1>5, <1>6, <1>7, <1>8, <1>9, <1>10, <1>11, <1>12,
     <1>13, <1>14, <1>15, <1>16 DEF Next, Producer, Worker, Manager

\* currentNum stays within its bounds although manager and workers update it
\* without a common lock: every store that is pending would respect them.
THEOREM PoolSizeBounded == Spec => []PoolSizeBounds
<1>1. Init => SizeInv
  BY PoolAssumption, ConstantTypes
     DEF Init, SizeInv, PoolSizeBounds, PoolAssumption
<1>2. SizeInv => PoolSizeBounds
  BY DEF SizeInv
<1>3. QED
  BY <1>1, <1>2, NextSizeInv, TypeInvariant, MutexInvariant, PTL DEF Spec

LEMMA NextExitInv ==
  TypeInv /\ MutexInv /\ ExitInv /\ [Next]_vars => ExitInv'
<1> SUFFICES ASSUME TypeInv, MutexInv, ExitInv, [Next]_vars PROVE ExitInv'
  OBVIOUS
<1> DEFINE Untouched == /\ UNCHANGED <<exitNum, wreg>>
                        /\ mpc' = "notify" => mpc = "notify" /\ mreg' = mreg
                        /\ \A w \in Workers : wpc'[w] = "decExit"
                                               => wpc[w] = "decExit"
<1>1. Untouched => ExitInv'
  BY DEF ExitInv, ExitNumNonNegative
<1> USE PoolAssumption DEF TypeInv, TypeOK, PoolAssumption
<1>2. ASSUME NEW p \in Producers, NotifyPushed(p) PROVE ExitInv'
  BY <1>1, <1>2, NotifyNotEmptyEffect DEF NotifyPushed, managerVars, counterVars
<1>3. ASSUME NEW p \in Producers,
             \/ \E t \in Tasks : Submit(p, t)
             \/ CheckRoom(p) \/ Push(p) \/ SpuriousProducer(p)
      PROVE  ExitInv'
  BY <1>1, <1>3 DEF Submit, CheckRoom, Push, SpuriousProducer,
                    workerVars, managerVars, counterVars
<1>4. ASSUME NEW w \in Workers,
             \/ Wait(w) \/ Pop(w) \/ ThreadExit(w) \/ StartTask(w)
             \/ FinishTask(w) \/ CallEmpty(w) \/ SpuriousWorker(w)
      PROVE  ExitInv'
  BY <1>1, <1>4 DEF Wait, Pop, ThreadExit, StartTask, FinishTask, CallEmpty,
                    SpuriousWorker, workerVars, managerVars, counterVars
<1>5. ASSUME NEW w \in Workers, BeginExit(w) PROVE ExitInv'
  BY <1>5 DEF BeginExit, ExitInv, ExitNumNonNegative, managerVars, counterVars
<1>6. ASSUME NEW w \in Workers, DecExit(w) PROVE ExitInv'
  <2>1. exitNum' = wreg[w] - 1 /\ wreg[w] > 0
    BY <1>6 DEF DecExit, ExitInv
  <2>2. \A v \in Workers : wpc'[v] # "decExit"
    BY <1>6 DEF DecExit, MutexInv
  <2>3. QED
    BY <1>6, <2>1, <2>2 DEF DecExit, ExitInv, ExitNumNonNegative, managerVars
<1>7. ASSUME NEW w \in Workers, DecCurrent(w) PROVE ExitInv'
  BY <1>7 DEF DecCurrent, ExitInv, ExitNumNonNegative, MutexInv, managerVars
<1>8. ASSUME NEW w \in Workers, Spawn(w) PROVE ExitInv'
  BY <1>1, <1>8 DEF Spawn, counterVars
<1>9. CASE Sample \/ Decide \/ EnlistThread \/ CountThread \/ TestFull
  BY <1>1, <1>9 DEF Sample, Decide, EnlistThread, CountThread, TestFull,
                    workerVars, counterVars
<1>10. CASE LoadExit
  BY <1>10 DEF LoadExit, ExitInv, ExitNumNonNegative, workerVars, counterVars
<1>11. CASE StoreExit
  <2>1. \A v \in Workers : wpc'[v] = "decExit" => wpc[v] = "decExit"
    BY <1>11, NotifyNotEmptyEffect DEF StoreExit
  <2>2. QED BY <1>11, <2>1 DEF StoreExit, ExitInv, ExitNumNonNegative
<1>12. CASE UNCHANGED vars
  BY <1>1, <1>12 DEF vars, workerVars, managerVars, counterVars
<1>13. QED
  BY <1>2, <1>3, <1>4, <1>5, <1>6, <1>7, <1>8, <1>9, <1>10, <1>11, <1>12
     DEF Next, Producer, Worker, Manager

\* exitNum never becomes negative although its ++ and -- can overwrite each
\* other: a decrement stores what a worker saw positive, minus one.
THEOREM ExitNumBounded == Spec => []ExitNumNonNegative
<1>1. Init => ExitInv
  BY DEF Init, ExitInv, ExitNumNonNegative
<1>2. ExitInv => ExitNumNonNegative
  BY DEF ExitInv
<1>3. QED
  BY <1>1, <1>2, NextExitInv, TypeInvariant, MutexInvariant, PTL DEF Spec

\* Only StartTask and FinishTask change the set of busy workers.
LEMMA NextBusyExact ==
  TypeInv /\ BusyExact /\ [Next]_vars => BusyExact'
<1> SUFFICES ASSUME TypeInv, BusyExact, [Next]_vars PROVE BusyExact'
  OBVIOUS
<1> USE PoolAssumption DEF TypeInv, TypeOK, PoolAssumption
<1>1. busyNum' = busyNum /\ Busy' = Busy => BusyExact'
  BY DEF BusyExact
<1>2. IsFiniteSet(Busy) /\ Cardinality(Busy) \in Nat
  BY FS_Subset, FS_CardinalityType DEF Busy
<1>3. ASSUME NEW p \in Producers, NotifyPushed(p) PROVE BusyExact'
  BY <1>1, <1>3, NotifyNotEmptyEffect DEF NotifyPushed, counterVars, Busy
<1>4. ASSUME NEW p \in Producers,
             \/ \E t \in Tasks : Submit(p, t)
             \/ CheckRoom(p) \/ Push(p) \/ SpuriousProducer(p)
      PROVE  BusyExact'
  BY <1>1, <1>4 DEF Submit, CheckRoom, Push, SpuriousProducer,
                    workerVars, counterVars, Busy
<1>5. ASSUME NEW w \in Workers,
             \/ Wait(w) \/ Pop(w) \/ BeginExit(w) \/ DecExit(w)
             \/ DecCurrent(w) \/ ThreadExit(w) \/ CallEmpty(w)
             \/ SpuriousWorker(w)
      PROVE  BusyExact'
  BY <1>1, <1>5 DEF Wait, Pop, BeginExit, DecExit, DecCurrent, ThreadExit,
                    CallEmpty, SpuriousWorker, workerVars, counterVars, Busy
<1>6. ASSUME NEW w \in Workers, StartTask(w) PROVE BusyExact'
  <2>1. Busy' = Busy \cup {w} /\ w \notin Busy
    BY <1>6 DEF StartTask, Busy
  <2>2. Cardinality(Busy') = Cardinality(Busy) + 1
    BY <1>2, <2>1, FS_AddElement
  <2>3. QED BY <1>6, <2>2 DEF StartTask, BusyExact
<1>7. ASSUME NEW w \in Workers, FinishTask(w) PROVE BusyExact'
  <2>1. Busy' = Busy \ {w} /\ w \in Busy
    BY <1>7 DEF FinishTask, Busy
  <2>2. Cardinality(Busy') = Cardinality(Busy) - 1
    BY <1>2, <2>1, FS_RemoveElement
  <2>3. QED BY <1>7, <2>2 DEF FinishTask, BusyExact
<1>8. CASE Sample \/ Decide \/ EnlistThread \/ CountThread \/ TestFull
           \/ LoadExit
  BY <1>1, <1>8 DEF Sample, Decide, EnlistThread, CountThread, TestFull,
                    LoadExit, workerVars, counterVars, Busy
<1>9. ASSUME NEW w \in Workers, Spawn(w) PROVE BusyExact'
  BY <1>1, <1>9 DEF Spawn, counterVars, Busy
<1>10. CASE StoreExit
  BY <1>1, <1>10, NotifyNotEmptyEffect DEF StoreExit, Busy
<1>11. CASE UNCHANGED vars
  BY <1>1, <1>11 DEF vars, workerVars, counterVars, Busy
<1>12. QED
  BY <1>3, <1>4, <1>5, <1>6, <1>7, <1>8, <1>9, <1>10, <1>11
     DEF Next, Producer, Worker, Manager

\* busyNum is exactly the number of workers between its ++ and its --.
THEOREM BusyCounted == Spec => []BusyExact
<1>1. Init => BusyExact
  <2>1. ASSUME Init PROVE Busy = {}
    BY <2>1 DEF Init, Busy
  <2>2. QED BY <2>1, FS_EmptySet DEF Init, BusyExact
<1>2. QED BY <1>1, NextBusyExact, TypeInvariant, PTL DEF Spec

LEMMA NextListInv ==
  TypeInv /\ ListInv /\ [Next]_vars => ListInv'
<1> SUFFICES ASSUME TypeInv, ListInv, [Next]_vars PROVE ListInv'
  OBVIOUS
<1> USE PoolAssumption DEF TypeInv, TypeOK, PoolAssumption
<1> DEFINE Untouched == /\ UNCHANGED <<threadList, mnew>> /\ Live' = Live
                        /\ mpc' = "list" <=> mpc = "list"
<1>1. Untouched => ListInv'
  BY DEF ListInv, ListedThreads
<1>2. ASSUME NEW p \in Producers, NotifyPushed(p) PROVE ListInv'
  BY <1>1, <1>2, NotifyNotEmptyEffect DEF NotifyPushed, managerVars, Live
<1>3. ASSUME NEW p \in Producers,
             \/ \E t \in Tasks : Submit(p, t)
             \/ CheckRoom(p) \/ Push(p) \/ SpuriousProducer(p)
      PROVE  ListInv'
  BY <1>1, <1>3 DEF Submit, CheckRoom, Push, SpuriousProducer,
                    workerVars, managerVars, Live
<1>4. ASSUME NEW w \in Workers,
             \/ Wait(w) \/ Pop(w) \/ BeginExit(w) \/ DecExit(w)
             \/ DecCurrent(w) \/ StartTask(w) \/ FinishTask(w)
             \/ CallEmpty(w) \/ SpuriousWorker(w)
      PROVE  ListInv'
  <2>1. Live' = Live
    BY <1>4 DEF Wait, Pop, BeginExit, DecExit, DecCurrent, StartTask,
                FinishTask, CallEmpty, SpuriousWorker, workerVars, Live
  <2>2. UNCHANGED <<threadList, mnew, mpc>>
    BY <1>4 DEF Wait, Pop, BeginExit, DecExit, DecCurrent, StartTask,
                FinishTask, CallEmpty, SpuriousWorker, managerVars
  <2>3. QED BY <1>1, <2>1, <2>2
<1>5. ASSUME NEW w \in Workers, ThreadExit(w) PROVE ListInv'
  <2>1. CASE w \in threadList
    <3>1. /\ threadList' = threadList \ {w} /\ Live' = Live \ {w}
          /\ UNCHANGED <<mpc, mnew>>
      BY <1>5, <2>1 DEF ThreadExit, managerVars, Live
    <3>2. w # mnew
      BY <2>1 DEF ListInv, ListedThreads
    <3>3. QED BY <3>1, <3>2 DEF ListInv, ListedThreads
  <2>2. CASE w \notin threadList
    BY <1>1, <1>5, <2>2 DEF ThreadExit, managerVars, Live
  <2>3. QED BY <2>1, <2>2
<1>6. CASE Sample \/ Decide \/ CountThread \/ TestFull \/ LoadExit
  BY <1>1, <1>6 DEF Sample, Decide, CountThread, TestFull, LoadExit,
                    workerVars, Live
<1>7. ASSUME NEW w \in Workers, Spawn(w) PROVE ListInv'
  <2>1. /\ Live' = Live \cup {w} /\ w \notin Live /\ mnew = NoWorker
        /\ UNCHANGED threadList /\ mnew' = w /\ mpc' = "list"
    BY <1>7 DEF Spawn, Live, ListInv
  <2>2. NoWorker \notin Live
    BY DEF Live
  <2>3. QED BY <2>1, <2>2 DEF ListInv, ListedThreads
<1>8. CASE EnlistThread
  <2>1. /\ Live' = Live /\ threadList' = threadList \cup {mnew}
        /\ mnew \in Live /\ mnew' = NoWorker /\ mpc' = "count"
    BY <1>8 DEF EnlistThread, workerVars, Live, ListInv
  <2>2. NoWorker \notin Live
    BY DEF Live
  <2>3. QED BY <2>1, <2>2 DEF ListInv, ListedThreads
<1>9. CASE StoreExit
  <2>1. Live' = Live
    BY <1>9, NotifyNotEmptyEffect DEF StoreExit, Live
  <2>2. QED BY <1>1, <1>9, <2>1 DEF StoreExit
<1>10. CASE UNCHANGED vars
  BY <1>1, <1>10 DEF vars, workerVars, managerVars, Live
<1>11. QED
  BY <1>2, <1>3, <1>4, <1>5, <1>6, <1>7, <1>8, <1>9, <1>10
     DEF Next, Producer, Worker, Manager

\* The undetached handles are those of the live threads except the one being
\* listed: no other thread can run past the end of threadList.
THEOREM ThreadsListed == Spec => []ListedThreads
<1>1. Init => ListInv
  BY PoolAssumption DEF Init, ListInv, ListedThreads, Live, PoolAssumption
<1>2. ListInv => ListedThreads
  BY DEF ListInv
<1>3. QED BY <1>1, <1>2, NextListInv, TypeInvariant, PTL DEF Spec

-------------------------------------------------------------------------------
(***************************************************************************)
(* The queue                                                                *)
(***************************************************************************)
LEMMA ClearedFinite == IsFiniteSet(Cleared) /\ Cardinality(Cleared) \in Nat
BY PoolAssumption, FS_Subset, FS_CardinalityType DEF PoolAssumption, Cleared

LEMMA NextQueueInv ==
  TypeInv /\ QueueInv /\ [Next]_vars => QueueInv'
<1> SUFFICES ASSUME TypeInv, QueueInv, [Next]_vars PROVE QueueInv'
  OBVIOUS
<1>1. ASSUME taskQueue' \subseteq taskQueue, Cleared' \subseteq Cleared
      PROVE  QueueInv'
  <2>1. /\ IsFiniteSet(taskQueue')
        /\ Cardinality(taskQueue') <= Cardinality(taskQueue)
        /\ Cardinality(taskQueue') \in Nat /\ Cardinality(taskQueue) \in Nat
    BY <1>1, FS_Subset, FS_CardinalityType DEF QueueInv
  <2>2. /\ Cardinality(Cleared') <= Cardinality(Cleared)
        /\ Cardinality(Cleared') \in Nat /\ Cardinality(Cleared) \in Nat
    BY <1>1, ClearedFinite, FS_Subset, FS_CardinalityType
  <2>3. QED
    BY <2>1, <2>2, ConstantTypes, PoolAssumption
       DEF QueueInv, Capacity, PoolAssumption
<1> USE PoolAssumption DEF TypeInv, TypeOK, PoolAssumption
<1>2. ASSUME NEW p \in Producers, CheckRoom(p) PROVE QueueInv'
  <2>1. CASE Cardinality(taskQueue) >= maxTaskNum
    BY <1>1, <1>2, <2>1 DEF CheckRoom, Cleared
  <2>2. CASE ~(Cardinality(taskQueue) >= maxTaskNum)
    <3>1. taskQueue' = taskQueue /\ Cleared' \subseteq Producers
      BY <1>2 DEF CheckRoom, Cleared
    <3>2. /\ Cardinality(Cleared') <= Cardinality(Producers)
          /\ Cardinality(Cleared') \in Nat
      BY <3>1, FS_Subset, FS_CardinalityType
    <3>3. Cardinality(taskQueue) \in Nat
      BY FS_CardinalityType DEF QueueInv
    <3>4. QED
      BY <2>2, <3>1, <3>2, <3>3, ConstantTypes DEF QueueInv, Capacity
  <2>3. QED BY <2>1, <2>2
<1>3. ASSUME NEW p \in Producers, Push(p) PROVE QueueInv'
  <2>1. /\ taskQueue' = taskQueue \cup {ptask[p]}
        /\ Cleared' = Cleared \ {p} /\ p \in Cleared
    BY <1>3 DEF Push, Cleared
  <2>2. /\ IsFiniteSet(taskQueue') /\ Cardinality(taskQueue) \in Nat
        /\ Cardinality(taskQueue') \in Nat
        /\ Cardinality(taskQueue') <= Cardinality(taskQueue) + 1
    <3>1. IsFiniteSet(taskQueue) /\ Cardinality(taskQueue) \in Nat
      BY FS_CardinalityType DEF QueueInv
    <3>2. LET Q == taskQueue \cup {ptask[p]}
          IN  /\ IsFiniteSet(Q)
              /\ Cardinality(Q) = IF ptask[p] \in taskQueue
                                  THEN Cardinality(taskQueue)
                                  ELSE Cardinality(taskQueue) + 1
      BY <3>1, FS_AddElement, Zenon
    <3>3. QED BY <2>1, <3>1, <3>2
  <2>3. Cardinality(Cleared') = Cardinality(Cleared) - 1
    BY <2>1, ClearedFinite, FS_RemoveElement
  <2>4. QED
    BY <2>2, <2>3, ClearedFinite, ConstantTypes DEF QueueInv, Capacity
<1>4. ASSUME NEW p \in Producers,
             \/ \E t \in Tasks : Submit(p, t)
             \/ NotifyPushed(p) \/ SpuriousProducer(p)
      PROVE  QueueInv'
  BY <1>1, <1>4 DEF Submit, NotifyPushed, SpuriousProducer, Cleared
<1>5. ASSUME NEW w \in Workers, Pop(w) PROVE QueueInv'
  <2>1. taskQueue' \subseteq taskQueue
    BY <1>5 DEF Pop
  <2>2. Cleared' \subseteq Cleared
    BY <1>5, NotifyNotFullEffect DEF Pop, Cleared
  <2>3. QED BY <1>1, <2>1, <2>2
<1>6. ASSUME NEW w \in Workers,
             \/ Wait(w) \/ BeginExit(w) \/ DecExit(w) \/ DecCurrent(w)
             \/ ThreadExit(w) \/ StartTask(w) \/ FinishTask(w) \/ CallEmpty(w)
             \/ SpuriousWorker(w)
      PROVE  QueueInv'
  BY <1>1, <1>6 DEF Wait, BeginExit, DecExit, DecCurrent, ThreadExit,
                    StartTask, FinishTask, CallEmpty, SpuriousWorker,
                    producerVars, Cleared
<1>7. CASE Manager
  BY <1>1, <1>7 DEF Manager, Sample, Decide, Spawn, EnlistThread, CountThread,
                    TestFull, LoadExit, StoreExit, producerVars, Cleared
<1>8. CASE UNCHANGED vars
  BY <1>1, <1>8 DEF vars, producerVars, Cleared
<1>9. QED
  BY <1>2, <1>3, <1>4, <1>5, <1>6, <1>7, <1>8 DEF Next, Producer, Worker

LEMMA QueueInvariant == Spec => []QueueInv
<1>1. Init => QueueInv
  <2> SUFFICES ASSUME Init PROVE QueueInv
    OBVIOUS
  <2>1. taskQueue = {} /\ Cleared = {}
    BY DEF Init, Cleared
  <2>2. Cardinality(Producers) >= 1
    BY PoolAssumption, ConstantTypes, FS_EmptySet DEF PoolAssumption
  <2>3. QED
    BY <2>1, <2>2, ConstantTypes, PoolAssumption, FS_EmptySet
       DEF QueueInv, Capacity, PoolAssumption
<1>2. QED BY <1>1, NextQueueInv, TypeInvariant, PTL DEF Spec

\* The queue outgrows maxTaskNum by at most one task for every producer other
\* than the first, although the test and the push are separate sections.
THEOREM QueueBounded == Spec => []QueueBound
<1>1. QueueInv => QueueBound
  BY ClearedFinite, ConstantTypes, PoolAssumption, FS_CardinalityType
     DEF QueueInv, QueueBound, Capacity, PoolAssumption
<1>2. QED BY <1>1, QueueInvariant, PTL
-------------------------------------------------------------------------------
(***************************************************************************)
(* Ownership of tasks and the refinement of TaskPool                        *)
(***************************************************************************)
LEMMA NextOwnerInv ==
  TypeInv /\ MutexInv /\ OwnerInv /\ [Next]_vars => OwnerInv'
<1> SUFFICES ASSUME TypeInv, MutexInv, OwnerInv, [Next]_vars PROVE OwnerInv'
  OBVIOUS
<1> USE PoolAssumption DEF TypeInv, TypeOK, PoolAssumption
<1> DEFINE Holds(p) == ppc[p] \in {"check", "notFull", "push"}
           Runs(w)  == wpc[w] \in {"start", "run"}
           Untouched ==
             /\ UNCHANGED <<taskQueue, ptask, wtask>>
             /\ \A p \in Producers : Holds(p)' <=> Holds(p)
             /\ \A w \in Workers : Runs(w) => Runs(w)' \/ wtask[w] = NoTask
<1>1. Untouched => OwnerInv'
  BY DEF OwnerInv
<1>2. ASSUME NEW p \in Producers, NEW t \in Tasks, Submit(p, t) PROVE OwnerInv'
  <2>1. /\ t # NoTask /\ t \notin taskQueue
        /\ \A w \in Workers : wtask[w] # t
        /\ \A q \in Producers : ptask[q] # t
    BY <1>2 DEF Submit, InFlight
  <2>2. /\ UNCHANGED <<taskQueue, wpc, wtask>>
        /\ ppc' = [ppc EXCEPT ![p] = "check"]
        /\ ptask' = [ptask EXCEPT ![p] = t]
    BY <1>2 DEF Submit, workerVars
  <2>3. QED BY <2>1, <2>2 DEF OwnerInv
<1>3. ASSUME NEW p \in Producers, CheckRoom(p) \/ SpuriousProducer(p)
      PROVE  OwnerInv'
  BY <1>1, <1>3 DEF CheckRoom, SpuriousProducer, workerVars
<1>4. ASSUME NEW p \in Producers, Push(p) PROVE OwnerInv'
  <2>1. /\ UNCHANGED <<wpc, wtask>>
        /\ taskQueue' = taskQueue \cup {ptask[p]}
        /\ ppc' = [ppc EXCEPT ![p] = "notify"]
        /\ ptask' = [ptask EXCEPT ![p] = NoTask]
        /\ ppc[p] = "push" /\ ptask[p] # NoTask /\ ptask[p] \in Tasks
    BY <1>4 DEF Push, workerVars, HandInv
  <2>2. /\ \A w \in Workers : wtask'[w] # NoTask =>
             /\ wpc'[w] \in {"start", "run"} /\ wtask'[w] \notin taskQueue'
        /\ \A q \in Producers : ppc'[q] \in {"check", "notFull", "push"}
                                  <=> ptask'[q] # NoTask
    BY <2>1 DEF OwnerInv
  <2>3. \A q \in Producers : ptask'[q] \notin taskQueue'
    BY <2>1 DEF OwnerInv
  <2>4. QED BY <2>1, <2>2, <2>3 DEF OwnerInv
<1>5. ASSUME NEW p \in Producers, NotifyPushed(p) PROVE OwnerInv'
  <2>1. Untouched
    BY <1>5, NotifyNotEmptyEffect DEF NotifyPushed
  <2>2. QED BY <1>1, <2>1
<1>6. ASSUME NEW w \in Workers, Pop(w) PROVE OwnerInv'
  <2>1. PICK t \in Tops(taskQueue) : /\ taskQueue' = taskQueue \ {t}
                                     /\ wtask' = [wtask EXCEPT ![w] = t]
    BY <1>6 DEF Pop
  <2>2. t \in taskQueue /\ t # NoTask
    BY <2>1 DEF Tops
  <2>3. /\ wpc' = [wpc EXCEPT ![w] = "start"] /\ ptask' = ptask
        /\ wtask[w] = NoTask
    BY <1>6 DEF Pop, OwnerInv
  <2>4. \A p \in Producers : Holds(p)' <=> Holds(p)
    BY <1>6, NotifyNotFullEffect DEF Pop
  <2>5. \A p \in Producers : ptask'[p] # t /\ ptask'[p] \notin taskQueue'
    BY <2>1, <2>2, <2>3 DEF OwnerInv
  <2>6. \A v \in Workers : v # w => wtask'[v] = wtask[v] /\ wtask[v] # t
    BY <2>1, <2>2 DEF OwnerInv
  <2>7. QED BY <2>1, <2>2, <2>3, <2>4, <2>5, <2>6 DEF OwnerInv
<1>7. ASSUME NEW w \in Workers,
             \/ Wait(w) \/ BeginExit(w) \/ ThreadExit(w)
             \/ StartTask(w) \/ CallEmpty(w) \/ SpuriousWorker(w)
      PROVE  OwnerInv'
  BY <1>1, <1>7 DEF Wait, BeginExit, ThreadExit, StartTask, CallEmpty,
                    SpuriousWorker, producerVars, workerVars, OwnerInv
<1>8. ASSUME NEW w \in Workers, DecExit(w) \/ DecCurrent(w) PROVE OwnerInv'
  BY <1>1, <1>8 DEF DecExit, DecCurrent, producerVars, OwnerInv
<1>9. ASSUME NEW w \in Workers, FinishTask(w) PROVE OwnerInv'
  BY <1>9 DEF FinishTask, producerVars, OwnerInv
<1>10. CASE Sample \/ Decide \/ EnlistThread \/ CountThread \/ TestFull
            \/ LoadExit
  BY <1>1, <1>10 DEF Sample, Decide, EnlistThread, CountThread, TestFull,
                     LoadExit, producerVars, workerVars
<1>11. ASSUME NEW w \in Workers, Spawn(w) PROVE OwnerInv'
  BY <1>1, <1>11 DEF Spawn, producerVars
<1>12. CASE StoreExit
  <2>1. Untouched
    BY <1>12, NotifyNotEmptyEffect DEF StoreExit, producerVars
  <2>2. QED BY <1>1, <2>1
<1>13. CASE UNCHANGED vars
  BY <1>1, <1>13 DEF vars, producerVars, workerVars
<1>14. QED
  BY <1>2, <1>3, <1>4, <1>5, <1>6, <1>7, <1>8, <1>9, <1>10, <1>11, <1>12,
     <1>13 DEF Next, Producer, Worker, Manager

LEMMA OwnerInvariant == Spec => []OwnerInv
<1>1. Init => OwnerInv
  BY DEF Init, OwnerInv
<1>2. QED BY <1>1, NextOwnerInv, TypeInvariant, MutexInvariant, PTL DEF Spec

\* The tasks some worker has taken and not completed: TaskPool's running.
Taken == {wtask[w] : w \in Workers} \ {NoTask}

\* Which step of the pool is which operation of TaskPool: the push is Add, the
\* pop is Take, the return of the task function is Complete.
LEMMA PushAdds ==
  ASSUME TypeInv, OwnerInv, QueueInv, NEW p \in Producers, Push(p)
  PROVE  \E t \in Tasks : Pool!Add(t)
<1> USE PoolAssumption DEF TypeInv, TypeOK, PoolAssumption
<1>1. /\ ptask[p] \in Tasks /\ ptask[p] # NoTask
      /\ taskQueue' = taskQueue \cup {ptask[p]} /\ wtask' = wtask
      /\ p \in Cleared
  BY DEF Push, HandInv, Cleared, workerVars
<1>2. ptask[p] \notin taskQueue \cup Taken
  BY <1>1 DEF OwnerInv, Taken
<1>3. Cardinality(taskQueue) < Capacity
  <2>1. Cardinality(Cleared) > 0
    BY <1>1, ClearedFinite, FS_EmptySet
  <2>2. Cardinality(taskQueue) \in Nat
    BY FS_CardinalityType DEF QueueInv
  <2>3. QED BY <2>1, <2>2, ClearedFinite, ConstantTypes DEF QueueInv, Capacity
<1>4. Taken' = Taken
  BY <1>1 DEF Taken
<1>5. Pool!Cardinality(taskQueue) = Cardinality(taskQueue)
  BY Zenon DEF Pool!Cardinality, Cardinality
<1>6. Pool!Add(ptask[p])
  BY <1>1, <1>2, <1>3, <1>4, <1>5 DEF Pool!Add, Taken
<1>7. QED BY <1>1, <1>6

LEMMA PopTakes ==
  ASSUME TypeInv, OwnerInv, NEW w \in Workers, Pop(w)
  PROVE  \E t \in Tasks : Pool!Take(t)
<1> USE PoolAssumption DEF TypeInv, TypeOK, PoolAssumption
<1>1. PICK t \in Tops(taskQueue) : /\ taskQueue' = taskQueue \ {t}
                                   /\ wtask' = [wtask EXCEPT ![w] = t]
  BY DEF Pop
<1>2. t \in taskQueue /\ t \in Tasks /\ t # NoTask /\ wtask[w] = NoTask
  BY <1>1 DEF Pop, OwnerInv, Tops
<1>3. Taken' = Taken \cup {t}
  BY <1>1, <1>2 DEF Taken
<1>4. QED BY <1>1, <1>2, <1>3 DEF Pool!Take, Taken

LEMMA FinishCompletes ==
  ASSUME TypeInv, OwnerInv, NEW w \in Workers, FinishTask(w)
  PROVE  \E t \in Tasks : Pool!Complete(t)
<1> USE PoolAssumption DEF TypeInv, TypeOK, PoolAssumption
<1>1. PICK t \in Tasks : t = wtask[w] /\ t # NoTask
  BY DEF FinishTask
<1>2. taskQueue' = taskQueue /\ wtask' = [wtask EXCEPT ![w] = NoTask]
  BY DEF FinishTask
<1>3. \A v \in Workers : v # w => wtask[v] # t
  BY <1>1 DEF OwnerInv
<1>4. Taken' = Taken \ {t} /\ t \in Taken
  BY <1>1, <1>2, <1>3 DEF Taken
<1>5. Pool!Complete(t)
  BY <1>2, <1>4 DEF Pool!Complete, Taken
<1>6. QED BY <1>5

\* Every other step leaves TaskPool's variables alone.
LEMMA NextRefines ==
  ASSUME TypeInv, OwnerInv, QueueInv, [Next]_vars
  PROVE  [Pool!Next]_(Pool!vars)
<1> DEFINE Stutter == UNCHANGED <<taskQueue, wtask>>
<1>1. Stutter => UNCHANGED Pool!vars
  BY DEF Pool!vars
<1>2. ASSUME NEW p \in Producers, Push(p) PROVE Pool!Next
  BY <1>2, PushAdds DEF Pool!Next
<1>3. ASSUME NEW p \in Producers,
             \/ \E t \in Tasks : Submit(p, t)
             \/ CheckRoom(p) \/ NotifyPushed(p) \/ SpuriousProducer(p)
      PROVE  Stutter
  BY <1>3 DEF Submit, CheckRoom, NotifyPushed, SpuriousProducer, workerVars
<1>4. ASSUME NEW w \in Workers, Pop(w) PROVE Pool!Next
  BY <1>4, PopTakes DEF Pool!Next
<1>5. ASSUME NEW w \in Workers, FinishTask(w) PROVE Pool!Next
  BY <1>5, FinishCompletes DEF Pool!Next
<1>6. ASSUME NEW w \in Workers,
             \/ Wait(w) \/ BeginExit(w) \/ DecExit(w) \/ DecCurrent(w)
             \/ ThreadExit(w) \/ StartTask(w) \/ CallEmpty(w)
             \/ SpuriousWorker(w)
      PROVE  Stutter
  BY <1>6 DEF Wait, BeginExit, DecExit, DecCurrent, ThreadExit, StartTask,
              CallEmpty, SpuriousWorker, workerVars
<1>7. CASE Manager
  BY <1>1, <1>7 DEF Manager, Sample, Decide, Spawn, EnlistThread, CountThread,
                    TestFull, LoadExit, StoreExit, workerVars
<1>8. CASE UNCHANGED vars
  BY <1>1, <1>8 DEF vars, workerVars
<1>9. QED
  BY <1>1, <1>2, <1>3, <1>4, <1>5, <1>6, <1>7, <1>8 DEF Next, Producer, Worker

\* The pool implements TaskPool: in every interleaving, retirements and racing
\* counters included, a task is executed by the one worker that popped it and
\* is never dropped or duplicated.
THEOREM PoolImplementsTaskPool == Spec => ImplementsTaskPool
<1>1. Init => Pool!Init
  <2> SUFFICES ASSUME Init PROVE Pool!Init
    OBVIOUS
  <2>1. taskQueue = {} /\ Taken = {}
    BY DEF Init, Taken
  <2>2. QED BY <2>1 DEF Pool!Init, Taken
<1>2. QED
  BY <1>1, NextRefines, TypeInvariant, OwnerInvariant, QueueInvariant, PTL
     DEF Spec, ImplementsTaskPool, Pool!Spec
===============================================================================
