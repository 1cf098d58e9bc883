------------------------------ MODULE MCJsonHeap ------------------------------
(* Small instance of JsonHeap for TLC. *)
EXTENDS JsonHeap

\* No definition names a variable, an address, a key or the content of a leaf.
Symmetry == Permutations(Vars) \cup Permutations(Blocks) \cup Permutations(Keys)
              \cup Permutations(Atoms)
===============================================================================
