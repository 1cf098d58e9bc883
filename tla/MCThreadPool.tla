----------------------------- MODULE MCThreadPool -----------------------------
(* Small instances of ThreadPool for TLC. *)
EXTENDS ThreadPool, TLC

\* Every Task of the program is built with priority 0.
EqualPriority == [t \in Tasks |-> 0]

\* Threads and tasks are interchangeable: Next and the invariants use none of
\* them by name.
Symmetry == Permutations(Workers) \cup Permutations(Tasks)
              \cup Permutations(Producers)

NoTearing == {}
Tearing   == {-9, 9}
===============================================================================
