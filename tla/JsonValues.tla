----------------------------- MODULE JsonValues -----------------------------
(***************************************************************************)
(* What Json promises to a program that gives its values away: a value is  *)
(* a tree, an operation changes the tree it is called on and no other, and *)
(* what has been assigned or appended is in its new place as it was.       *)
(***************************************************************************)
EXTENDS Naturals, Sequences, SequencesExt

CONSTANTS
  Vars,     \* the program's variables of type Json
  Keys,     \* keys of objects
  Atoms,    \* what scalars and strings contain
  MaxDepth, \* bound of the model: steps of a path
  MaxLen    \* bound of the model: elements of an array

VARIABLE val

Null      == [t |-> "null"]
Scalar(a) == [t |-> "scalar", atom |-> a]
Text(a)   == [t |-> "string", atom |-> a]
Array(s)  == [t |-> "array", items |-> s]
Object(f) == [t |-> "object", items |-> f]

Branches(tree) == IF tree.t \in {"array", "object"} THEN DOMAIN tree.items ELSE {}

\* The subtree at the end of a path, and the tree with another one there.
At(tree, path) ==
  LET at[n \in 0..Len(path)] == IF n = 0 THEN tree ELSE at[n - 1].items[path[n]]
  IN  at[Len(path)]

Put(tree, path, new) ==
  LET put[n \in 0..Len(path)] ==
        IF n = Len(path) THEN new
        ELSE [At(tree, SubSeq(path, 1, n)) EXCEPT !.items[path[n + 1]] = put[n + 1]]
  IN  put[0]

Paths(tree) ==
  LET upTo[n \in 0..MaxDepth] ==
        IF n = 0 THEN {<<>>}
        ELSE LET shorter == upTo[n - 1] IN
             shorter \cup UNION {{Append(p, i) : i \in Branches(At(tree, p))} :
                                 p \in shorter}
  IN  upTo[MaxDepth]

-----------------------------------------------------------------------------
Init == val = [v \in Vars |-> Null]

\* The place that an operation is called on gets the tree `new`.
Becomes(v, path, new) == val' = [val EXCEPT ![v] = Put(@, path, new)]

Declare(v) ==
  /\ val[v] = Null
  /\ \E new \in UNION {{Scalar(a), Text(a)} : a \in Atoms}
                  \cup {Array(<<>>), Object(<<>>)} :
       Becomes(v, <<>>, new)

\* Assignment, copy construction.
Give(v, path, w) ==
  val' = [val EXCEPT ![v] = Put(@, path, val[w]), ![w] = Null]

Push(v, path, w) ==
  LET old   == At(val[v], path)
      items == IF old.t = "array" THEN old.items ELSE <<>> IN
  /\ Len(items) < MaxLen
  /\ val' = [val EXCEPT ![v] = Put(@, path, Array(Append(items, val[w]))),
                        ![w] = Null]

\* operator[] for a key that is not there adds it; for an index it must be there.
Member(v, path, k) ==
  LET old   == At(val[v], path)
      items == IF old.t = "object" THEN old.items ELSE <<>> IN
  Becomes(v, path,
          Object([i \in DOMAIN items \cup {k} |->
                    IF i \in DOMAIN items THEN items[i] ELSE Null]))

NoElement(v, path) ==
  At(val[v], path).t # "array" /\ Becomes(v, path, Array(<<>>))

RemoveIndex(v, path, i) ==
  LET old == At(val[v], path) IN
  /\ old.t = "array" /\ i \in DOMAIN old.items
  /\ Becomes(v, path, Array(RemoveAt(old.items, i)))

RemoveKey(v, path, k) ==
  LET old == At(val[v], path) IN
  /\ old.t = "object" /\ k \in DOMAIN old.items
  /\ Becomes(v, path, Object(Restrict(old.items, DOMAIN old.items \ {k})))

Clear(v, path) == Becomes(v, path, Null)

\* A member or an element that is there is only read; a value that has been given
\* away goes out of scope.
Read == UNCHANGED val

\* The process may end.
End == val' = [v \in Vars |-> Null]

Next ==
  \/ Read
  \/ End
  \/ \E v \in Vars :
       \/ Declare(v)
       \/ \E path \in Paths(val[v]) :
            \/ NoElement(v, path) \/ Clear(v, path)
            \/ \E w \in Vars \ {v} : Give(v, path, w) \/ Push(v, path, w)
            \/ \E k \in Keys : Member(v, path, k) \/ RemoveKey(v, path, k)
            \/ \E i \in 1..MaxLen : RemoveIndex(v, path, i)

Spec == Init /\ [][Next]_val
=============================================================================
