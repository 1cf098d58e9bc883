----------------------------- MODULE TimersProofs -----------------------------
(* Proofs about Timers: what becomes of a timer between addTimer and its last
   call, for all timers, intervals and repeat counts. *)
EXTENDS Timers, TLAPS

-------------------------------------------------------------------------------
(***************************************************************************)
(* The inductive invariant                                                  *)
(***************************************************************************)
Held == task_queue \cup m_timers

\* A timer that nobody has added yet.
Blank(t) == t \notin Held /\ fires[t] = 0

\* An added timer: its start time tells how often it was called, its repeat count
\* how often it still will be.
Counted(t) ==
  /\ kind[t] \in Kinds
  /\ m_startTime[t] = born[t] + fires[t] * kind[t].interval
  /\ IF kind[t].repeat = -1 THEN repeatCount[t] = -1
     ELSE repeatCount[t] = kind[t].repeat - fires[t] /\ fires[t] <= kind[t].repeat

\* Where it is, and what it is filed under there: the time of addTimer before
\* the first call, its start time after that.
Filed(t) ==
  /\ t \in task_queue => fires[t] = 0 /\ t \notin m_timers
  /\ fires[t] = 0 => born[t] <= key[t] /\ key[t] <= now
  /\ fires[t] > 0 /\ t \in m_timers => key[t] = m_startTime[t]
  /\ pc = "scan" /\ t \in m_timers /\ fires[t] = 0 => key[t] <= currentTime

Kept(t) == t \in Held <=> ~Spent(t)

TimerInv == \A t \in Timers : IF Added(t) THEN Counted(t) /\ Filed(t) /\ Kept(t)
                                          ELSE Blank(t)

Inv == TypeOK /\ currentTime <= now /\ InOrder /\ TimerInv

LEMMA OneMore == \A a, b \in Nat : (a + 1) * b = a * b + b /\ a * b \in Nat /\ 0 * b = 0
  BY SMT

LEMMA InitInv == Init => Inv
  BY TimersAssumption DEF Init, Inv, TypeOK, InOrder, TimerInv, Added, Blank, Held

-------------------------------------------------------------------------------
(***************************************************************************)
(* addTimer                                                                 *)
(***************************************************************************)
LEMMA AddInv ==
  ASSUME Inv, NEW t \in Timers, NEW k \in Kinds, addTimer(t, k)
  PROVE  Inv'
<1> USE TimersAssumption DEF Inv, TypeOK, runnerVars
<1>1. TypeOK' /\ currentTime' <= now'
  BY DEF addTimer
<1>2. t \notin m_timers /\ fires[t] = 0
  BY DEF addTimer, TimerInv, Blank, Held
<1>3. InOrder'
  BY <1>2 DEF addTimer, InOrder, Begin, Least
<1>4. ASSUME NEW u \in Timers, u # t
      PROVE  (IF Added(u) THEN Counted(u) /\ Filed(u) /\ Kept(u) ELSE Blank(u))'
  BY <1>4 DEF addTimer, TimerInv, Added, Counted, Filed, Kept, Blank, Held, Spent
<1>5. Added(t)' /\ Counted(t)'
  <2>1. PICK began \in {now, now - 1} \cap Nat :
          /\ m_startTime' = [m_startTime EXCEPT ![t] = began]
          /\ born' = [born EXCEPT ![t] = began]
    BY DEF addTimer
  <2>2. 0 * k.interval = 0
    BY OneMore
  <2>3. QED
    BY <1>2, <2>1, <2>2 DEF addTimer, Added, Counted
<1>6. Filed(t)'
  BY <1>2 DEF addTimer, Filed
<1>7. Kept(t)'
  BY <1>2 DEF addTimer, Kept, Held, Spent
<1>8. QED
  BY <1>1, <1>3, <1>4, <1>5, <1>6, <1>7 DEF TimerInv

-------------------------------------------------------------------------------
(***************************************************************************)
(* The runner                                                               *)
(***************************************************************************)
\* One turn of update's loop: a timer that is due.
LEMMA FireStep ==
  ASSUME Inv, Fire
  PROVE  /\ it \in m_timers /\ Added(it) /\ it \notin task_queue
         /\ it \in Least(m_timers)
         /\ key[it] <= now
         /\ {u \in m_timers \ {it} : key[u] >= key[it]} = m_timers \ {it}
<1> USE DEF Inv, TypeOK
<1>1. it \in Least(m_timers)
  BY DEF Fire, Due, InOrder, Begin
<1>2. it \in m_timers
  BY <1>1 DEF Least
<1>3. Added(it) /\ it \notin task_queue
  BY <1>2 DEF TimerInv, Blank, Held, Filed
<1>4. key[it] <= now
  BY <1>2 DEF Fire, Due
<1>5. QED
  BY <1>1, <1>2, <1>3, <1>4 DEF Least

LEMMA FireTyped ==
  ASSUME Inv, Fire
  PROVE  TypeOK'
<1> USE TimersAssumption DEF Inv, TypeOK
<1>1. it \in m_timers /\ Added(it)
  BY FireStep
<1>2. kind[it] \in Kinds
  BY <1>1 DEF TimerInv, Counted
<1>3. fires' \in [Timers -> Nat] /\ m_startTime' \in [Timers -> Nat]
      /\ repeatCount' \in [Timers -> Nat \cup {-1}]
  BY <1>1, <1>2 DEF Fire, trigger, NextStart, Repeats
<1>4. PICK n \in Begin({u \in m_timers \ {it} : key[u] >= key[it]}) :
        IF repeatCount'[it] # 0
        THEN /\ key' = [key EXCEPT ![it] = m_startTime'[it]]
             /\ it' = GoOn(it, n)
             /\ UNCHANGED m_timers
        ELSE /\ m_timers' = m_timers \ {it}
             /\ it' = n
             /\ UNCHANGED key
  BY DEF Fire
<1>5. n \in Timers \cup {End}
  BY <1>1 DEF Begin, Least
<1>6. key' \in [Timers -> Nat] /\ m_timers' \subseteq Timers /\ it' \in Timers \cup {End}
  BY <1>1, <1>3, <1>4, <1>5 DEF GoOn
<1>7. QED
  BY <1>3, <1>6 DEF Fire

LEMMA FireInOrder ==
  ASSUME Inv, Fire
  PROVE  InOrder'
<1> USE DEF Inv, TypeOK
<1> DEFINE R == m_timers \ {it}
<1>1. it \in m_timers /\ it \in Timers
  BY FireStep DEF Least
<1>2. PICK n \in Begin(R) :
        IF repeatCount'[it] # 0
        THEN /\ key' = [key EXCEPT ![it] = m_startTime'[it]]
             /\ it' = GoOn(it, n)
             /\ UNCHANGED m_timers
        ELSE /\ m_timers' = m_timers \ {it}
             /\ it' = n
             /\ UNCHANGED key
  BY FireStep DEF Fire
<1>3. TypeOK'
  BY FireTyped
<1>4. CASE repeatCount'[it] = 0
  BY <1>2, <1>4 DEF InOrder, Begin, Least
<1>5. CASE repeatCount'[it] # 0
  <2>1. m_timers' = m_timers /\ \A u \in R : key'[u] = key[u]
    BY <1>2, <1>5
  <2>2. CASE R = {}
    <3>1. n = End
      BY <2>2 DEF Begin
    <3>2. it' = it /\ m_timers' = {it}
      BY <1>1, <1>2, <1>5, <2>1, <2>2, <3>1 DEF GoOn
    <3>3. key'[it] <= key'[it]
      BY <1>1, <1>3
    <3>4. QED
      BY <3>2, <3>3 DEF InOrder, Begin, Least
  <2>3. CASE R # {}
    <3>1. n \in R /\ n # End /\ \A u \in R : key[n] <= key[u]
      BY <2>3, TimersAssumption DEF Begin, Least
    <3>2. \A u \in m_timers : u \in R \/ u = it
      OBVIOUS
    <3>3. it' = (IF key'[it] < key[n] THEN it ELSE n)
      BY <1>2, <1>5, <3>1 DEF GoOn
    <3>4. it' \in m_timers' /\ \A u \in m_timers' : key'[it'] <= key'[u]
      BY <1>1, <1>3, <2>1, <3>1, <3>2, <3>3
    <3>5. QED
      BY <1>1, <2>1, <3>4 DEF InOrder, Begin, Least
  <2>4. QED
    BY <2>2, <2>3
<1>6. QED
  BY <1>4, <1>5

\* What a call of trigger and the insertion behind it do to the timer itself.
LEMMA FiredTimer ==
  ASSUME Inv, Fire, NEW t \in Timers, t = it
  PROVE  Counted(t)' /\ Filed(t)' /\ Kept(t)'
<1> USE TimersAssumption DEF Inv, TypeOK
<1>1. t \in m_timers /\ t \in Timers /\ Added(t) /\ t \notin task_queue /\ key[t] <= now
  BY FireStep
<1>2. Counted(t) /\ Filed(t) /\ Kept(t)
  BY <1>1 DEF TimerInv
<1>3. TypeOK'
  BY FireTyped
<1>4. /\ UNCHANGED <<now, task_queue, kind, born, pc, currentTime>>
      /\ IF repeatCount'[t] # 0
         THEN key'[t] = m_startTime'[t] /\ m_timers' = m_timers
         ELSE key' = key /\ m_timers' = m_timers \ {t}
  BY <1>1 DEF Fire
<1>5. CASE repeatCount[t] = 0
  <2>1. UNCHANGED <<fires, m_startTime, repeatCount>>
    BY <1>5 DEF Fire, trigger
  <2>2. kind[t].repeat = 0 /\ fires[t] = 0
    <3>1. kind[t].repeat \in Nat \cup {-1}
      BY <1>2 DEF Counted
    <3>2. kind[t].repeat = fires[t]
      BY <1>2, <1>5, <3>1 DEF Counted
    <3>3. ~Spent(t)
      BY <1>1, <1>2 DEF Kept, Held
    <3>4. QED
      BY <3>2, <3>3 DEF Spent
  <2>3. QED
    BY <1>1, <1>2, <1>4, <1>5, <2>1, <2>2 DEF Counted, Filed, Kept, Held, Spent
<1>6. CASE repeatCount[t] # 0
  <2>1. /\ fires'[t] = fires[t] + 1
        /\ m_startTime'[t] = m_startTime[t] + kind[t].interval
        /\ repeatCount'[t] = Repeats(repeatCount[t])
    BY <1>1, <1>6 DEF Fire, trigger, NextStart
  <2>2. kind[t].interval \in Nat /\ kind[t].repeat \in Nat \cup {-1}
    BY <1>2 DEF Counted
  <2>3. (fires[t] + 1) * kind[t].interval = fires[t] * kind[t].interval + kind[t].interval
        /\ fires[t] * kind[t].interval \in Nat
    BY <1>1, <2>2, OneMore
  <2>4. m_startTime'[t] = born'[t] + fires'[t] * kind'[t].interval
    BY <1>1, <1>2, <1>4, <2>1, <2>2, <2>3 DEF Counted
  <2>5. Counted(t)'
    BY <1>1, <1>2, <1>4, <1>6, <2>1, <2>2, <2>4 DEF Counted, Repeats
  <2>6. Filed(t)'
    BY <1>1, <1>4, <2>1 DEF Filed
  <2>7. Kept(t)'
    BY <1>1, <1>2, <1>4, <1>6, <2>1, <2>2
       DEF Counted, Repeats, Kept, Held, Spent
  <2>8. QED
    BY <2>5, <2>6, <2>7
<1>7. QED
  BY <1>5, <1>6

LEMMA FireInv ==
  ASSUME Inv, Fire
  PROVE  Inv'
<1> USE DEF Inv, TypeOK
<1>1. ASSUME NEW u \in Timers, u # it
      PROVE  (IF Added(u) THEN Counted(u) /\ Filed(u) /\ Kept(u) ELSE Blank(u))'
  <2>1. /\ UNCHANGED <<now, task_queue, kind, born, pc, currentTime>>
        /\ fires'[u] = fires[u] /\ m_startTime'[u] = m_startTime[u]
        /\ repeatCount'[u] = repeatCount[u] /\ key'[u] = key[u]
        /\ u \in m_timers' <=> u \in m_timers
    BY <1>1 DEF Fire, trigger
  <2>2. QED
    BY <2>1 DEF TimerInv, Added, Counted, Filed, Kept, Blank, Held, Spent
<1>2. ASSUME NEW u \in Timers, u = it
      PROVE  Added(u)' /\ Counted(u)' /\ Filed(u)' /\ Kept(u)'
  BY <1>2, FireStep, FiredTimer DEF Fire, Added
<1>3. QED
  BY FireTyped, FireInOrder, <1>1, <1>2 DEF Fire, TimerInv

LEMMA RunnerInv ==
  ASSUME Inv, Runner
  PROVE  Inv'
<1> USE TimersAssumption DEF Inv, TypeOK, timerVars
<1>1. ASSUME NEW l \in {"test", "off", "loop", "drain", "clock"},
             pc' = l, pc # "scan" \/ l = "loop",
             it' \in Timers \cup {End},
             UNCHANGED <<now, m_isRunning, task_queue, m_timers, timerVars, currentTime>>
      PROVE  Inv'
  BY <1>1 DEF InOrder, TimerInv, Added, Counted, Filed, Kept, Blank, Held, Spent
<1>2. CASE Loop
  BY <1>1, <1>2 DEF Loop
<1>3. CASE Test
  BY <1>1, <1>3 DEF Test
<1>4. ASSUME NEW t \in Timers, Drain(t)
      PROVE  Inv'
  <2>1. t \notin m_timers /\ Added(t)
    BY <1>4 DEF Drain, TimerInv, Filed, Blank, Held
  <2>2. TypeOK' /\ currentTime' <= now' /\ InOrder'
    BY <1>4 DEF Drain, runnerVars, InOrder
  <2>3. Held' = Held
    BY <1>4 DEF Drain, Held
  <2>4. TimerInv'
    BY <1>4, <2>1, <2>3
       DEF Drain, runnerVars, TimerInv, Added, Counted, Filed, Kept, Blank, Held, Spent
  <2>5. QED
    BY <2>2, <2>4
<1>5. CASE Drained
  BY <1>1, <1>5 DEF Drained
<1>6. CASE ReadClock
  <2>1. TypeOK' /\ currentTime' <= now'
    BY <1>6 DEF ReadClock, Begin, Least
  <2>2. InOrder'
    BY <1>6 DEF ReadClock, InOrder, Begin, Least
  <2>3. TimerInv'
    BY <1>6 DEF ReadClock, TimerInv, Added, Counted, Filed, Kept, Blank, Held, Spent
  <2>4. QED
    BY <2>1, <2>2, <2>3
<1>7. CASE EndScan
  BY <1>1, <1>7 DEF EndScan
<1>8. QED
  BY FireInv, <1>2, <1>3, <1>4, <1>5, <1>6, <1>7 DEF Runner

LEMMA NextInv == Inv /\ [Next]_vars => Inv'
<1> SUFFICES ASSUME Inv, [Next]_vars
             PROVE  Inv'
  OBVIOUS
<1> USE TimersAssumption DEF Inv, TypeOK, timerVars, runnerVars
<1>1. ASSUME NEW t \in Timers, now' >= now, now' \in Nat, pc' = "scan" => pc = "scan",
             UNCHANGED <<task_queue, m_timers, timerVars, currentTime>>
      PROVE  (IF Added(t) THEN Counted(t) /\ Filed(t) /\ Kept(t) ELSE Blank(t))'
  <2>1. IF Added(t) THEN Counted(t) /\ Filed(t) /\ Kept(t) ELSE Blank(t)
    BY DEF TimerInv
  <2>2. Filed(t) => Filed(t)'
    BY <1>1 DEF Filed
  <2>3. QED
    BY <1>1, <2>1, <2>2 DEF Added, Counted, Kept, Blank, Held, Spent
<1>2. CASE Tick
  <2>1. TypeOK' /\ currentTime' <= now' /\ InOrder'
    BY <1>2 DEF Tick, InOrder, Begin, Least
  <2>2. QED
    BY <1>1, <1>2, <2>1 DEF Tick, TimerInv
<1>3. CASE start
  <2>1. TypeOK' /\ currentTime' <= now' /\ InOrder'
    BY <1>3 DEF start, InOrder
  <2>2. QED
    BY <1>1, <1>3, <2>1 DEF start, TimerInv
<1>4. CASE stop
  <2>1. TypeOK' /\ currentTime' <= now' /\ InOrder'
    BY <1>4 DEF stop, InOrder, Begin, Least
  <2>2. QED
    BY <1>1, <1>4, <2>1 DEF stop, TimerInv
<1>5. CASE UNCHANGED vars
  <2>1. TypeOK' /\ currentTime' <= now' /\ InOrder'
    BY <1>5 DEF vars, InOrder, Begin, Least
  <2>2. QED
    BY <1>1, <1>5, <2>1 DEF vars, TimerInv
<1>6. QED
  BY AddInv, RunnerInv, <1>2, <1>3, <1>4, <1>5 DEF Next

LEMMA Invariant == Spec => []Inv
  BY InitInv, NextInv, PTL DEF Spec

-------------------------------------------------------------------------------
(***************************************************************************)
(* The theorems                                                             *)
(***************************************************************************)
\* Every variable of the timers keeps its type (timer.h, timer.cpp).
THEOREM TimersTypeCorrect == Spec => []TypeOK
<1>1. Inv => TypeOK
  BY DEF Inv
<1>2. QED
  BY Invariant, <1>1, PTL

\* addTimer, the draining of task_queue and update's erasing and inserting
\* neither lose a timer nor double it (timer.cpp:63-101).
THEOREM TimersNoneLost == Spec => []NoneLost
<1>1. Inv => NoneLost
  <2> SUFFICES ASSUME Inv
               PROVE  NoneLost
    OBVIOUS
  <2>1. \A t \in Timers : Added(t) => Counted(t) /\ Filed(t) /\ Kept(t)
    BY DEF Inv, TimerInv
  <2>2. \A t \in Timers : t \in task_queue \cap m_timers => Added(t)
    BY DEF Inv, TimerInv, Blank, Held
  <2>3. task_queue \cap m_timers = {}
    BY <2>1, <2>2 DEF Inv, TypeOK, Filed
  <2>4. QED
    BY <2>1, <2>3 DEF NoneLost, Counted, Kept, Held, Inv, TypeOK
<1>2. QED
  BY Invariant, <1>1, PTL

\* update's iterator never passes a timer by (timer.cpp:79-99).
THEOREM TimersInOrder == Spec => []InOrder
<1>1. Inv => InOrder
  BY DEF Inv
<1>2. QED
  BY Invariant, <1>1, PTL

\* trigger moves the start time by one interval at each call, so that no call
\* comes before its time (timer.cpp:47-59).
THEOREM TimersNeverEarly == Spec => NeverEarly
<1>1. Inv /\ [Next]_vars =>
        [\A t \in Timers : fires'[t] # fires[t] =>
           /\ fires'[t] = fires[t] + 1
           /\ now >= born[t] + fires[t] * kind[t].interval]_vars
  <2> SUFFICES ASSUME Inv, Next, NEW t \in Timers, fires'[t] # fires[t]
               PROVE  /\ fires'[t] = fires[t] + 1
                      /\ now >= born[t] + fires[t] * kind[t].interval
    OBVIOUS
  <2> USE DEF Inv, TypeOK, timerVars, runnerVars
  <2>1. Fire
    BY DEF Next, Runner, Tick, start, stop, Loop, Test, Drain, Drained, ReadClock,
           EndScan, addTimer
  <2>2. t = it /\ fires'[t] = fires[t] + 1
    BY <2>1 DEF Fire, trigger
  <2>3. t \in m_timers /\ key[t] <= now /\ Counted(t) /\ Filed(t)
    BY <2>1, <2>2, FireStep DEF TimerInv
  <2>4. kind[t].interval \in Nat /\ 0 * kind[t].interval = 0
    BY <2>3, OneMore, TimersAssumption DEF Counted
  <2>5. now >= born[t] + fires[t] * kind[t].interval
    <3>1. CASE fires[t] = 0
      BY <2>3, <2>4, <3>1 DEF Filed
    <3>2. CASE fires[t] > 0
      BY <2>3, <3>2 DEF Filed, Counted
    <3>3. QED
      BY <3>1, <3>2
  <2>6. QED
    BY <2>2, <2>5
<1>2. QED
  BY Invariant, <1>1, PTL DEF Spec, NeverEarly

\* When update returns it has made every call that was due (timer.cpp:63-101).
THEOREM TimersCatchUp == Spec => CatchesUp
<1>1. Inv /\ [Next]_vars =>
        [pc = "scan" /\ pc' # "scan" =>
           \A t \in m_timers : born[t] + fires[t] * kind[t].interval > currentTime]_vars
  <2> SUFFICES ASSUME Inv, Next, pc = "scan", pc' # "scan", NEW t \in m_timers
               PROVE  born[t] + fires[t] * kind[t].interval > currentTime
    OBVIOUS
  <2> USE DEF Inv, TypeOK, timerVars, runnerVars
  <2>1. EndScan
    BY DEF Next, Runner, Tick, start, stop, Loop, Test, Drain, Drained, ReadClock,
           Fire, addTimer
  <2>2. it \in Timers /\ key[it] <= key[t]
    BY DEF InOrder, Begin, Least
  <2>3. key[t] > currentTime
    BY <2>1, <2>2, TimersAssumption DEF EndScan, Due
  <2>4. Added(t) /\ Counted(t) /\ Filed(t)
    BY DEF TimerInv, Blank, Held
  <2>5. fires[t] > 0 /\ key[t] = m_startTime[t]
    BY <2>3, <2>4 DEF Filed
  <2>6. QED
    BY <2>3, <2>4, <2>5 DEF Counted
<1>2. QED
  BY Invariant, <1>1, PTL DEF Spec, CatchesUp
===============================================================================
