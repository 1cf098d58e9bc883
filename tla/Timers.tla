--------------------------------- MODULE Timers ---------------------------------
(***************************************************************************)
(* timer.h and timer.cpp: timerManager, which a thread inside start()       *)
(* serves (the runner) while others call addTimer and stop().                *)
(*                                                                           *)
(* addTimer puts a timer into task_queue under m_mutex_queue; update moves   *)
(* it into m_timers, which only the runner touches, and fires what is due.   *)
(* The multimap m_timers is the set of its timers, ordered by key; timers    *)
(* with equal keys may follow each other in any order.  The clock goes on    *)
(* while update runs, and in particular while a callback does.               *)
(* The server itself adds a timer at each login (Cache::addUser) and calls   *)
(* neither start nor stop: this is what a user of the class gets.            *)
(***************************************************************************)
EXTENDS Integers

CONSTANTS
  Timers,   \* names of timers; each is added once
  Kinds,    \* what addTimer is called with: records of interval and repeat
  End,      \* m_timers.end()
  MaxTime   \* bound of the model: the last time of the clock

\* setRepeatCount asserts count >= -1; -1 repeats for ever.
ASSUME TimersAssumption ==
  /\ Kinds \subseteq [interval : Nat, repeat : Nat \cup {-1}]
  /\ End \notin Timers /\ MaxTime \in Nat

VARIABLES
  now,         \* the clock
  m_isRunning,
  task_queue, m_timers,   \* timers in the one and in the other
  kind,        \* of a timer: its m_interval and its first repeatCount
  key,         \* of a timer: the time it is filed under
  m_startTime, repeatCount,   \* fields of the timers
  pc,          \* runner: off, loop, test, drain, clock, scan
  currentTime, it,  \* runner: variables of update
  born, fires  \* history: first m_startTime of a timer, calls of its callback

timerVars  == <<kind, key, m_startTime, repeatCount, born, fires>>
runnerVars == <<pc, currentTime, it>>
vars == <<now, m_isRunning, task_queue, m_timers, timerVars, runnerVars>>

NoKind == [interval |-> 0, repeat |-> 0]

\* m_isRunning is not initialised.
Init ==
  /\ now = 0 /\ m_isRunning \in BOOLEAN
  /\ task_queue = {} /\ m_timers = {}
  /\ kind = [t \in Timers |-> NoKind]
  /\ key = [t \in Timers |-> 0] /\ m_startTime = [t \in Timers |-> 0]
  /\ repeatCount = [t \in Timers |-> 0]
  /\ pc = "off" /\ currentTime = 0 /\ it = End
  /\ born = [t \in Timers |-> -1] /\ fires = [t \in Timers |-> 0]

Added(t) == born[t] >= 0

Tick ==
  /\ now < MaxTime
  /\ now' = now + 1
  /\ UNCHANGED <<m_isRunning, task_queue, m_timers, timerVars, runnerVars>>

-------------------------------------------------------------------------------
(***************************************************************************)
(* addTimer, start and stop                                                  *)
(***************************************************************************)
\* Under m_mutex_queue, which the runner holds while it drains the queue.  The
\* constructor reads the clock for m_startTime, push reads it again.
addTimer(t, k) ==
  /\ ~Added(t) /\ pc # "drain"
  /\ task_queue' = task_queue \cup {t}
  /\ kind' = [kind EXCEPT ![t] = k]
  /\ key' = [key EXCEPT ![t] = now]
  /\ \E began \in {now, now - 1} \cap Nat :
       /\ m_startTime' = [m_startTime EXCEPT ![t] = began]
       /\ born' = [born EXCEPT ![t] = began]
  /\ repeatCount' = [repeatCount EXCEPT ![t] = k.repeat]
  /\ UNCHANGED <<now, m_isRunning, m_timers, fires, runnerVars>>

\* A stop that comes before this is overwritten.
start ==
  /\ pc = "off"
  /\ m_isRunning' = TRUE /\ pc' = "loop"
  /\ UNCHANGED <<now, task_queue, m_timers, timerVars, currentTime, it>>

stop ==
  /\ m_isRunning
  /\ m_isRunning' = FALSE
  /\ UNCHANGED <<now, task_queue, m_timers, timerVars, runnerVars>>

\* Mutant: goes on as long as there are timers.
LoopWhileBusy ==
  /\ pc = "loop"
  /\ pc' = IF m_isRunning \/ m_timers # {} THEN "test" ELSE "off"
  /\ UNCHANGED <<now, m_isRunning, task_queue, m_timers, timerVars, currentTime, it>>

\* while(m_isRunning.load())
Loop ==
  /\ pc = "loop"
  /\ pc' = IF m_isRunning THEN "test" ELSE "off"
  /\ UNCHANGED <<now, m_isRunning, task_queue, m_timers, timerVars, currentTime, it>>

(***************************************************************************)
(* update                                                                    *)
(***************************************************************************)
\* Mutant: returns whenever m_timers is empty.
TestMapOnly ==
  /\ pc = "test"
  /\ pc' = IF m_timers = {} THEN "loop" ELSE "drain"
  /\ UNCHANGED <<now, m_isRunning, task_queue, m_timers, timerVars, currentTime, it>>

\* Both tests of task_queue.empty() are made without the mutex.
Test ==
  /\ pc = "test"
  /\ pc' = IF m_timers = {} /\ task_queue = {} THEN "loop"
           ELSE IF task_queue # {} THEN "drain" ELSE "clock"
  /\ UNCHANGED <<now, m_isRunning, task_queue, m_timers, timerVars, currentTime, it>>

\* Mutant: clears the queue after the first timer.
DrainFirst(t) ==
  /\ pc = "drain" /\ t \in task_queue
  /\ m_timers' = m_timers \cup {t} /\ task_queue' = {}
  /\ UNCHANGED <<now, m_isRunning, timerVars, runnerVars>>

\* One round of the loop that empties the queue.
Drain(t) ==
  /\ pc = "drain" /\ t \in task_queue
  /\ m_timers' = m_timers \cup {t} /\ task_queue' = task_queue \ {t}
  /\ UNCHANGED <<now, m_isRunning, timerVars, runnerVars>>

Drained ==
  /\ pc = "drain" /\ task_queue = {}
  /\ pc' = "clock"
  /\ UNCHANGED <<now, m_isRunning, task_queue, m_timers, timerVars, currentTime, it>>

\* The timers of S that an iterator may come to first.
Least(S) == {t \in S : \A u \in S : key[t] <= key[u]}
Begin(S) == IF S = {} THEN {End} ELSE Least(S)

\* getCurrentTime, m_timers.begin()
ReadClock ==
  /\ pc = "clock"
  /\ currentTime' = now
  /\ it' \in Begin(m_timers)
  /\ pc' = "scan"
  /\ UNCHANGED <<now, m_isRunning, task_queue, m_timers, timerVars>>

Due == it # End /\ key[it] <= currentTime

\* Mutant: counts down past the last repeat, and from -1 on.
OneLess(r) == r - 1

Repeats(r) == IF r > 0 THEN r - 1 ELSE r

\* Mutant: the start time stays what it was.
SameStart(t) == m_startTime[t]

NextStart(t) == m_startTime[t] + kind[t].interval

\* trigger(): addTimer always sets a callback.
trigger(t) ==
  IF repeatCount[t] = 0 THEN UNCHANGED <<fires, m_startTime, repeatCount>>
  ELSE /\ fires' = [fires EXCEPT ![t] = @ + 1]
       /\ m_startTime' = [m_startTime EXCEPT ![t] = NextStart(t)]
       /\ repeatCount' = [repeatCount EXCEPT ![t] = Repeats(@)]

\* Mutant: goes on behind the timer it has inserted.
GoOnBehind(t, n) == n

\* Where the loop goes on: n is what erase returned, t was inserted again.
GoOn(t, n) == IF n = End \/ key'[t] < key[n] THEN t ELSE n

\* A timer that is due: trigger, erase and, with repeats left, insert.
Fire ==
  LET t == it IN
  /\ pc = "scan" /\ Due
  /\ trigger(t)
  /\ \E n \in Begin({u \in m_timers \ {t} : key[u] >= key[t]}) :
       IF repeatCount'[t] # 0
       THEN /\ key' = [key EXCEPT ![t] = m_startTime'[t]]
            /\ it' = GoOn(t, n)
            /\ UNCHANGED m_timers
       ELSE /\ m_timers' = m_timers \ {t}
            /\ it' = n
            /\ UNCHANGED key
  /\ UNCHANGED <<now, m_isRunning, task_queue, kind, born, pc, currentTime>>

\* The first timer that is not due ends the loop.
EndScan ==
  /\ pc = "scan" /\ ~Due
  /\ pc' = "loop" /\ it' = End
  /\ UNCHANGED <<now, m_isRunning, task_queue, m_timers, timerVars, currentTime>>

-------------------------------------------------------------------------------
Runner ==
  \/ Loop \/ Test \/ (\E t \in Timers : Drain(t)) \/ Drained
  \/ ReadClock \/ Fire \/ EndScan

Next ==
  \/ Tick \/ start \/ stop \/ Runner
  \/ \E t \in Timers, k \in Kinds : addTimer(t, k)

Spec == Init /\ [][Next]_vars

\* The runner's thread keeps running.  The callers and the clock owe nothing.
Fairness == WF_vars(Runner)
FairSpec == Spec /\ Fairness

-------------------------------------------------------------------------------
(***************************************************************************)
(* Properties                                                                *)
(***************************************************************************)
\* Every variable has its type.
TypeOK ==
  /\ now \in Nat /\ m_isRunning \in BOOLEAN
  /\ task_queue \subseteq Timers /\ m_timers \subseteq Timers
  /\ kind \in [Timers -> Kinds \cup {NoKind}]
  /\ key \in [Timers -> Nat] /\ m_startTime \in [Timers -> Nat]
  /\ repeatCount \in [Timers -> Nat \cup {-1}]
  /\ pc \in {"off", "loop", "test", "drain", "clock", "scan"}
  /\ currentTime \in Nat /\ it \in Timers \cup {End}
  /\ born \in [Timers -> Nat \cup {-1}] /\ fires \in [Timers -> Nat]

\* No timer is lost or doubled on its way through queue, map, erase and insert:
\* until it has been called as often as it was to be, it is in exactly one of
\* the two, and after that in neither.
Spent(t) == IF kind[t].repeat = 0 THEN t \notin task_queue \cup m_timers
            ELSE fires[t] = kind[t].repeat
NoneLost ==
  /\ task_queue \cap m_timers = {}
  /\ \A t \in Timers : Added(t) =>
       /\ t \in task_queue \cup m_timers <=> ~Spent(t)
       /\ kind[t].repeat >= 0 => fires[t] <= kind[t].repeat

\* update looks at the timers in the order of their keys although it erases and
\* inserts while it iterates: nothing that it has passed by is in the map.
InOrder == pc = "scan" => it \in Begin(m_timers)

\* The n-th call of a callback comes no sooner than n - 1 intervals after the
\* timer was made, however late the calls before it were,
NeverEarly ==
  [][\A t \in Timers : fires'[t] # fires[t] =>
       /\ fires'[t] = fires[t] + 1
       /\ now >= born[t] + fires[t] * kind[t].interval]_vars

\* ... and update catches up: when it returns, every call that was due at the
\* time it read has been made.
CatchesUp ==
  [][pc = "scan" /\ pc' # "scan" =>
       \A t \in m_timers : born[t] + fires[t] * kind[t].interval > currentTime]_vars

\* With an interval of zero, a timer that is to be repeated for ever is due again
\* as soon as it has been called: update never returns, and what is in the queue
\* is never called.
NoEndlessKind == \A k \in Kinds : k.repeat = -1 => k.interval > 0

\* A stop that meets start's loop ends it: update returns, whatever the callbacks
\* cost, as long as there is no such timer,
StopEnds ==
  NoEndlessKind => (~m_isRunning /\ pc # "off" ~> pc = "off")

\* ... and as long as there is none, and the runner runs, every timer that is added
\* is called.  Nothing makes the first call wait for an interval to pass, although
\* Cache.cpp:57-59 counts on that.
EveryTimerFires ==
  NoEndlessKind =>
    \A t \in Timers : Added(t) /\ kind[t].repeat # 0 /\ fires[t] = 0 /\ pc # "off"
                        ~> fires[t] > 0 \/ pc = "off"
===============================================================================
