------------------------------- MODULE MCReactor -------------------------------
(* Small instances of Reactor for TLC. *)
EXTENDS Reactor, Framing, TLC

\* What the code makes of the headers that can arrive, and that together with
\* what it is meant to make of them.
FramesAsWritten == {Frame(t) : t \in Texts}
AllFrames == FramesAsWritten \cup {"good"}

\* No definition names a connection, a worker or a descriptor.
Symmetry == Permutations(Conns) \cup Permutations(Workers) \cup Permutations(Fds)
===============================================================================
