------------------------------- MODULE TaskPool -------------------------------
(***************************************************************************)
(* What a user of code/ThreadPool.h is promised: a task handed to addTask   *)
(* is kept in a bounded pool of pending tasks, is taken from it by exactly  *)
(* one worker, and leaves the pool only by being executed.  No threads,     *)
(* locks, wake-ups or counters.  Module ThreadPool is the detailed          *)
(* specification that implements this one.                                  *)
(***************************************************************************)
EXTENDS Integers, FiniteSets

CONSTANTS Tasks,     \* names of the tasks that may be in flight
          Capacity   \* upper bound of the number of pending tasks

VARIABLES pending,   \* tasks accepted and not yet taken by a worker
          running    \* tasks taken by a worker and not yet completed

vars == <<pending, running>>

Init == pending = {} /\ running = {}

\* addTask accepts a task that is not already in flight, while there is room.
Add(t) ==
  /\ t \notin pending \cup running
  /\ Cardinality(pending) < Capacity
  /\ pending' = pending \cup {t}
  /\ UNCHANGED running

\* A worker takes a pending task, which is then nobody else's to take.
Take(t) ==
  /\ t \in pending
  /\ pending' = pending \ {t}
  /\ running' = running \cup {t}

\* The task function returns.
Complete(t) ==
  /\ t \in running
  /\ running' = running \ {t}
  /\ UNCHANGED pending

Next == \E t \in Tasks : Add(t) \/ Take(t) \/ Complete(t)

Spec == Init /\ [][Next]_vars
===============================================================================
