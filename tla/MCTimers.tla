------------------------------- MODULE MCTimers -------------------------------
(* A small instance of Timers for TLC. *)
EXTENDS Timers

\* For ever, a few times at another interval, a few times without an interval,
\* and never.  For ever without an interval is left out: the number of calls, and
\* with it the states, would grow without end.
SomeKinds == {[interval |-> i, repeat |-> r] :
                <<i, r>> \in {<<1, -1>>, <<2, 2>>, <<0, 2>>, <<1, 0>>}}
===============================================================================
