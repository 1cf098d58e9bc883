------------------------------ MODULE JsonHeapProofs ------------------------------
(***************************************************************************)
(* Theorems about JsonHeap, for every set of variables, blocks, keys and    *)
(* atoms and every bound on paths and arrays.                               *)
(*                                                                          *)
(* The invariant speaks of places, not of paths: a value is in a variable   *)
(* in use or in an item of a block, and some set U of live blocks keeps     *)
(* them, so that each points into U and no two to the same block (Sound).   *)
(* Paths come in where an operation is called at the end of one: it leads   *)
(* to a place (PathPlace), by one way only (PathOnce), and never through    *)
(* more blocks than there are (PathShort).  What clear deletes there is a   *)
(* part of U that nothing outside points to but the value that is cleared,  *)
(* and does not contain its own place (ClearedInside).  Each operation then *)
(* takes blocks from U or adds one, and moves at most one value.            *)
(***************************************************************************)
EXTENDS JsonHeap, Induction, FiniteSetTheorems, TLAPS

-------------------------------------------------------------------------------
(***************************************************************************)
(* What a path leads to                                                     *)
(***************************************************************************)
AtStep(v, path, g, n) == IF n = 0 THEN env[v] ELSE heap[g[n - 1].p].items[path[n]]
Trail(v, path) == CHOOSE g : g = [n \in 0..Len(path) |-> AtStep(v, path, g, n)]

LEMMA AtIsTrail ==
  ASSUME NEW v, NEW path
  PROVE  At(v, path) = Trail(v, path)[Len(path)]
BY DEF At, Trail, AtStep

LEMMA TrailUnfolds ==
  ASSUME NEW v, NEW path, Len(path) \in Nat
  PROVE  Trail(v, path) = [n \in 0..Len(path) |-> AtStep(v, path, Trail(v, path), n)]
<1> DEFINE Good == {n \in Nat : \E g : \A m \in 0..n : g[m] = AtStep(v, path, g, m)}
<1>1. 0 \in Good
  <2>1. [m \in {0} |-> env[v]][0] = env[v]
    OBVIOUS
  <2>2. PICK g : g[0] = env[v]
    BY <2>1
  <2>3. \A m \in 0..0 : g[m] = AtStep(v, path, g, m)
    BY <2>2 DEF AtStep
  <2> QED
    BY <2>3
<1>2. ASSUME NEW n \in Nat, n \in Good PROVE n + 1 \in Good
  <2>1. PICK g : \A m \in 0..n : g[m] = AtStep(v, path, g, m)
    BY <1>2
  <2> DEFINE h == [m \in 0..n + 1 |-> IF m = n + 1 THEN AtStep(v, path, g, n + 1) ELSE g[m]]
  <2>2. ASSUME NEW m \in 0..n + 1 PROVE h[m] = AtStep(v, path, h, m)
    <3>1. h[m] = AtStep(v, path, g, m)
      BY <2>1
    <3>2. m > 0 => h[m - 1] = g[m - 1]
      OBVIOUS
    <3> HIDE DEF h
    <3> QED
      BY <3>1, <3>2 DEF AtStep
  <2>3. \E f : \A m \in 0..n + 1 : f[m] = AtStep(v, path, f, m)
    <3> HIDE DEF h
    <3> QED
      BY <2>2
  <2> QED
    BY <2>3
<1>3. Len(path) \in Good
  <2> HIDE DEF Good
  <2> QED
    BY <1>1, <1>2, SetInduction
<1>4. PICK g : \A m \in 0..Len(path) : g[m] = AtStep(v, path, g, m)
  BY <1>3
<1> DEFINE h == [m \in 0..Len(path) |-> g[m]]
<1>5. \A m \in 0..Len(path) : h[m] = AtStep(v, path, h, m)
  BY <1>4 DEF AtStep
<1>6. h = [n \in 0..Len(path) |-> AtStep(v, path, h, n)]
  BY <1>5
<1> QED
  BY <1>6 DEF Trail

LEMMA AtRoot ==
  ASSUME NEW v
  PROVE  At(v, <<>>) = env[v]
BY AtIsTrail, TrailUnfolds DEF AtStep

LEMMA AtAppend ==
  ASSUME NEW v, NEW X, NEW path \in Seq(X), NEW i \in X
  PROVE  At(v, Append(path, i)) = heap[At(v, path).p].items[i]
<1>1. PICK long \in Seq(X) : long = Append(path, i)
  <2>1. Append(path, i) \in Seq(X)
    OBVIOUS
  <2> QED
    BY <2>1
<1>2. Len(long) = Len(path) + 1 /\ long[Len(path) + 1] = i
      /\ \A n \in 1..Len(path) : long[n] = path[n]
  BY <1>1
<1> DEFINE Good == {n \in Nat : n <= Len(path) => Trail(v, long)[n] = Trail(v, path)[n]}
<1>3. 0 \in Good
  BY <1>2, TrailUnfolds DEF AtStep
<1>4. ASSUME NEW n \in Nat, n \in Good PROVE n + 1 \in Good
  <2> SUFFICES ASSUME n + 1 <= Len(path) PROVE Trail(v, long)[n + 1] = Trail(v, path)[n + 1]
    OBVIOUS
  <2>1. Trail(v, long)[n + 1] = heap[Trail(v, long)[n].p].items[long[n + 1]]
    BY <1>2, TrailUnfolds DEF AtStep
  <2>2. Trail(v, path)[n + 1] = heap[Trail(v, path)[n].p].items[path[n + 1]]
    BY TrailUnfolds DEF AtStep
  <2> QED
    BY <1>2, <1>4, <2>1, <2>2
<1>5. Len(path) \in Good
  <2> HIDE DEF Good
  <2> QED
    BY <1>3, <1>4, SetInduction
<1>6. Trail(v, long)[Len(path) + 1] = heap[Trail(v, long)[Len(path)].p].items[i]
  BY <1>2, TrailUnfolds DEF AtStep
<1>7. Trail(v, long)[Len(path)] = At(v, path)
  BY <1>5, AtIsTrail
<1>8. At(v, long) = Trail(v, long)[Len(path) + 1]
  BY <1>2, AtIsTrail
<1> QED
  BY <1>1, <1>6, <1>7, <1>8

-------------------------------------------------------------------------------
(***************************************************************************)
(* The paths of a value                                                     *)
(***************************************************************************)
Onward(v, path) == IF IsPointer(At(v, path)) THEN Holds(heap, At(v, path).p) ELSE {}
Longer(v, S)    == S \cup UNION {{Append(p, i) : i \in Onward(v, p)} : p \in S}

PathsStep(v, g, n) == IF n = 0 THEN {<<>>} ELSE Longer(v, g[n - 1])
Levels(v, depth)   == CHOOSE g : g = [n \in 0..depth |-> PathsStep(v, g, n)]

LEMMA PathsAreLevels ==
  ASSUME NEW v, NEW depth
  PROVE  PathsTo(v, depth) = Levels(v, depth)[depth]
BY DEF PathsTo, Levels, PathsStep, Longer, Onward

LEMMA LevelsUnfold ==
  ASSUME NEW v, NEW depth \in Nat
  PROVE  Levels(v, depth) = [n \in 0..depth |-> PathsStep(v, Levels(v, depth), n)]
<1> DEFINE Good == {n \in Nat : \E g : \A m \in 0..n : g[m] = PathsStep(v, g, m)}
<1>1. 0 \in Good
  <2>1. [m \in {0} |-> {<<>>}][0] = {<<>>}
    OBVIOUS
  <2>2. PICK g : g[0] = {<<>>}
    BY <2>1
  <2>3. \A m \in 0..0 : g[m] = PathsStep(v, g, m)
    BY <2>2 DEF PathsStep
  <2> QED
    BY <2>3
<1>2. ASSUME NEW n \in Nat, n \in Good PROVE n + 1 \in Good
  <2>1. PICK g : \A m \in 0..n : g[m] = PathsStep(v, g, m)
    BY <1>2
  <2> DEFINE h == [m \in 0..n + 1 |-> IF m = n + 1 THEN PathsStep(v, g, n + 1) ELSE g[m]]
  <2>2. ASSUME NEW m \in 0..n + 1 PROVE h[m] = PathsStep(v, h, m)
    <3>1. h[m] = PathsStep(v, g, m)
      BY <2>1
    <3>2. m > 0 => h[m - 1] = g[m - 1]
      OBVIOUS
    <3> HIDE DEF h
    <3> QED
      BY <3>1, <3>2 DEF PathsStep
  <2>3. \E f : \A m \in 0..n + 1 : f[m] = PathsStep(v, f, m)
    <3> HIDE DEF h
    <3> QED
      BY <2>2
  <2> QED
    BY <2>3
<1>3. depth \in Good
  <2> HIDE DEF Good
  <2> QED
    BY <1>1, <1>2, SetInduction
<1>4. PICK g : \A m \in 0..depth : g[m] = PathsStep(v, g, m)
  BY <1>3
<1> DEFINE h == [m \in 0..depth |-> g[m]]
<1>5. \A m \in 0..depth : h[m] = PathsStep(v, h, m)
  BY <1>4 DEF PathsStep
<1>6. h = [n \in 0..depth |-> PathsStep(v, h, n)]
  BY <1>5
<1> QED
  BY <1>6 DEF Levels

\* A level does not depend on how deep the search goes on.
LEMMA LevelIsPaths ==
  ASSUME NEW v, NEW depth \in Nat, NEW n \in 0..depth
  PROVE  Levels(v, depth)[n] = PathsTo(v, n)
<1> DEFINE Good == {m \in Nat : m <= n => Levels(v, depth)[m] = Levels(v, n)[m]}
<1>1. 0 \in Good
  <2>1. Levels(v, depth)[0] = {<<>>}
    BY LevelsUnfold DEF PathsStep
  <2>2. Levels(v, n)[0] = {<<>>}
    BY LevelsUnfold DEF PathsStep
  <2> QED
    BY <2>1, <2>2
<1>2. ASSUME NEW m \in Nat, m \in Good PROVE m + 1 \in Good
  <2> SUFFICES ASSUME m + 1 <= n
               PROVE  Levels(v, depth)[m + 1] = Levels(v, n)[m + 1]
    OBVIOUS
  <2>1. Levels(v, depth)[m + 1] = Longer(v, Levels(v, depth)[m])
    BY LevelsUnfold DEF PathsStep
  <2>2. Levels(v, n)[m + 1] = Longer(v, Levels(v, n)[m])
    BY LevelsUnfold DEF PathsStep
  <2> QED
    BY <1>2, <2>1, <2>2
<1>3. n \in Good
  <2> HIDE DEF Good
  <2> QED
    BY <1>1, <1>2, SetInduction
<1> QED
  BY <1>3, PathsAreLevels

LEMMA PathsUnfold ==
  ASSUME NEW v
  PROVE  /\ PathsTo(v, 0) = {<<>>}
         /\ \A n \in Nat : PathsTo(v, n + 1) = Longer(v, PathsTo(v, n))
<1>1. PathsTo(v, 0) = {<<>>}
  BY PathsAreLevels, LevelsUnfold DEF PathsStep
<1>2. ASSUME NEW n \in Nat PROVE PathsTo(v, n + 1) = Longer(v, PathsTo(v, n))
  <2>1. PathsTo(v, n + 1) = Levels(v, n + 1)[n + 1]
    BY PathsAreLevels
  <2>2. Levels(v, n + 1)[n + 1] = Longer(v, Levels(v, n + 1)[n])
    BY LevelsUnfold DEF PathsStep
  <2> QED
    BY <2>1, <2>2, LevelIsPaths
<1> QED
  BY <1>1, <1>2

\* A path of S, one step on.
Extends(v, S, path) == \E p \in S : \E i \in Onward(v, p) : path = Append(p, i)

LEMMA PathsNext ==
  ASSUME NEW v, NEW n \in Nat, NEW path
  PROVE  path \in PathsTo(v, n + 1) <=>
           path \in PathsTo(v, n) \/ Extends(v, PathsTo(v, n), path)
<1> DEFINE From(p) == {Append(p, i) : i \in Onward(v, p)}
<1>1. ASSUME NEW S PROVE path \in Longer(v, S) <=> path \in S \/ Extends(v, S, path)
  <2>1. path \in Longer(v, S) <=> path \in S \/ \E p \in S : path \in From(p)
    BY Zenon DEF Longer
  <2>2. \A p : path \in From(p) <=> \E i \in Onward(v, p) : path = Append(p, i)
    BY Zenon
  <2> HIDE DEF From
  <2> QED
    BY <2>1, <2>2, Zenon DEF Extends
<1>2. PathsTo(v, n + 1) = Longer(v, PathsTo(v, n))
  BY PathsUnfold
<1> QED
  BY <1>1, <1>2

-------------------------------------------------------------------------------
(***************************************************************************)
(* Ownership.  A value is in a variable that is in use or in an item of a    *)
(* block; Nil stands for the variables, as if they were a block's items.     *)
(***************************************************************************)
HoldsIn(h, W, c)    == IF c = Nil THEN W ELSE Holds(h, c)
ValueIn(e, h, c, i) == IF c = Nil THEN e[i] ELSE h[c].items[i]

\* U is a set of live blocks to which the values in the variables W, and those in
\* U itself, keep: each points to one of its type, and no other value does.
Sound(e, h, W, U) ==
  /\ \A b \in U : b \in Blocks /\ h[b] # Free
  /\ \A c \in U \cup {Nil} : \A i \in HoldsIn(h, W, c) :
       LET x == ValueIn(e, h, c, i) IN
       IsPointer(x) => x.p \in U /\ h[x.p].k = x.t
  /\ \A c, d \in U \cup {Nil} : \A i \in HoldsIn(h, W, c), j \in HoldsIn(h, W, d) :
       LET x == ValueIn(e, h, c, i)  y == ValueIn(e, h, d, j) IN
       IsPointer(x) /\ IsPointer(y) /\ x.p = y.p => c = d /\ i = j

Steps == Keys \cup Nat

\* What a block may hold, in a form that the lemmas below give to the provers.
ArrayOK(x)  == x = Filled("array", x.items) /\ x.items \in Seq(Value) /\ Len(x.items) <= MaxLen
ObjectOK(x) == /\ x = Filled("object", x.items) /\ DOMAIN x.items \subseteq Keys
               /\ x.items \in [DOMAIN x.items -> Value]
StringOK(x) == x \in [k : {"string"}, atom : Atoms]
BlockOK(x)  == x = Free \/ StringOK(x) \/ ArrayOK(x) \/ ObjectOK(x)

LEMMA BlocksOK ==
  TypeOK <=> /\ env \in [Vars -> Value] /\ spent \in SUBSET Vars
             /\ fault \in {"none", "wild_delete", "double_free"}
             /\ \A b \in Blocks : BlockOK(heap[b])
BY DEF TypeOK, BlockOK, StringOK, ArrayOK, ObjectOK

LEMMA Kinds ==
  ASSUME NEW x, BlockOK(x)
  PROVE  /\ x.k \in {"free", "string", "array", "object"}
         /\ x.k = "free" <=> x = Free
         /\ x.k = "string" <=> StringOK(x)
         /\ x.k = "array" <=> ArrayOK(x)
         /\ x.k = "object" <=> ObjectOK(x)
BY DEF BlockOK, StringOK, ArrayOK, ObjectOK, Free, Filled

LEMMA ItemsTyped ==
  ASSUME TypeOK, NEW b \in Blocks, NEW i \in Holds(heap, b)
  PROVE  i \in Steps /\ heap[b].items[i] \in Value
<1>1. BlockOK(heap[b])
  BY BlocksOK
<1>2. CASE heap[b].k = "array"
  <2>1. ArrayOK(heap[b])
    BY <1>1, <1>2, Kinds
  <2>2. PICK s \in Seq(Value) : s = heap[b].items
    BY <2>1 DEF ArrayOK
  <2> QED
    BY <1>2, <2>2 DEF Holds, Steps
<1>3. CASE heap[b].k = "object"
  <2>1. ObjectOK(heap[b])
    BY <1>1, <1>3, Kinds
  <2>2. PICK f : f = heap[b].items
    OBVIOUS
  <2>3. DOMAIN f \subseteq Keys /\ f \in [DOMAIN f -> Value]
    BY <2>1, <2>2 DEF ObjectOK
  <2> QED
    BY <1>3, <2>2, <2>3 DEF Holds, Steps
<1> QED
  BY <1>2, <1>3 DEF Holds

LEMMA PathsTyped ==
  ASSUME TypeOK, NEW U, NEW W \in SUBSET Vars, Sound(env, heap, W, U), NEW v \in W,
         NEW n \in Nat, NEW path \in PathsTo(v, n)
  PROVE  /\ path \in Seq(Steps) /\ Len(path) <= n /\ At(v, path) \in Value
         /\ IsPointer(At(v, path)) => At(v, path).p \in U
                                      /\ heap[At(v, path).p].k = At(v, path).t
<1> DEFINE Fine(p, m) == /\ p \in Seq(Steps) /\ Len(p) <= m /\ At(v, p) \in Value
                         /\ IsPointer(At(v, p)) => At(v, p).p \in U
                                                   /\ heap[At(v, p).p].k = At(v, p).t
           Good == {m \in Nat : \A p \in PathsTo(v, m) : Fine(p, m)}
<1>1. 0 \in Good
  <2>1. <<>> \in Seq(Steps) /\ Len(<<>>) = 0
    OBVIOUS
  <2>2. At(v, <<>>) = env[v] /\ env[v] \in Value
    BY AtRoot DEF TypeOK
  <2>3. v \in HoldsIn(heap, W, Nil) /\ ValueIn(env, heap, Nil, v) = env[v]
    BY DEF HoldsIn, ValueIn
  <2>4. Fine(<<>>, 0)
    BY <2>1, <2>2, <2>3 DEF Sound
  <2> HIDE DEF Fine
  <2> QED
    BY <2>4, PathsUnfold
<1>2. ASSUME NEW m \in Nat, m \in Good PROVE m + 1 \in Good
  <2>1. SUFFICES ASSUME NEW p \in PathsTo(v, m), NEW i \in Onward(v, p)
                 PROVE  Fine(Append(p, i), m + 1)
    <3> DEFINE Fuller(p) == Fine(p, m + 1)
    <3>2. \A p \in PathsTo(v, m) : Fuller(p)
      BY <1>2
    <3> HIDE DEF Fine
    <3>3. ASSUME NEW q \in PathsTo(v, m + 1) PROVE Fine(q, m + 1)
      <4>1. q \in PathsTo(v, m) \/ Extends(v, PathsTo(v, m), q)
        BY PathsNext
      <4> QED
        BY <2>1, <3>2, <4>1, Zenon DEF Extends
    <3> QED
      BY <3>3
  <2>2. Fine(p, m)
    BY <1>2
  <2>3. IsPointer(At(v, p)) /\ i \in Holds(heap, At(v, p).p)
    BY DEF Onward
  <2>4. PICK c : c = At(v, p).p
    OBVIOUS
  <2>5. c \in U /\ c \in Blocks /\ c # Nil
    BY <2>2, <2>3, <2>4, JsonHeapAssumption DEF Sound
  <2>6. i \in Steps /\ heap[c].items[i] \in Value
    BY <2>3, <2>4, <2>5, ItemsTyped
  <2>7. Append(p, i) \in Seq(Steps) /\ Len(Append(p, i)) <= m + 1
    BY <2>2, <2>6
  <2>8. At(v, Append(p, i)) = heap[c].items[i]
    BY <2>2, <2>4, <2>6, AtAppend
  <2>9. i \in HoldsIn(heap, W, c) /\ ValueIn(env, heap, c, i) = heap[c].items[i]
    BY <2>3, <2>4, <2>5 DEF HoldsIn, ValueIn
  <2> QED
    BY <2>5, <2>6, <2>7, <2>8, <2>9 DEF Sound
<1>3. n \in Good
  <2> HIDE DEF Good
  <2> QED
    BY <1>1, <1>2, SetInduction
<1> QED
  BY <1>3

LEMMA PathsGrow ==
  ASSUME NEW v, NEW n \in Nat
  PROVE  /\ <<>> \in PathsTo(v, n) /\ PathsTo(v, n) \subseteq PathsTo(v, n + 1)
         /\ \A p \in PathsTo(v, n) : \A i \in Onward(v, p) : Append(p, i) \in PathsTo(v, n + 1)
<1>1. ASSUME NEW m \in Nat PROVE PathsTo(v, m) \subseteq PathsTo(v, m + 1)
  BY PathsNext
<1>2. ASSUME NEW p \in PathsTo(v, n), NEW i \in Onward(v, p)
      PROVE  Append(p, i) \in PathsTo(v, n + 1)
  <2>1. PICK path : path = Append(p, i)
    OBVIOUS
  <2>2. Extends(v, PathsTo(v, n), path)
    BY <2>1, Zenon DEF Extends
  <2>3. path \in PathsTo(v, n + 1)
    BY <2>2, PathsNext
  <2> QED
    BY <2>1, <2>3
<1>3. <<>> \in PathsTo(v, n)
  <2> DEFINE Good == {m \in Nat : <<>> \in PathsTo(v, m)}
  <2>1. 0 \in Good
    BY PathsUnfold
  <2>2. \A m \in Nat : m \in Good => m + 1 \in Good
    BY <1>1
  <2>3. n \in Good
    <3> HIDE DEF Good
    <3> QED
      BY <2>1, <2>2, SetInduction
  <2> QED
    BY <2>3
<1> QED
  BY <1>1, <1>2, <1>3

LEMMA PathCases ==
  ASSUME NEW v, NEW n \in Nat, NEW path \in PathsTo(v, n)
  PROVE  path = <<>> \/ (n > 0 /\ Extends(v, PathsTo(v, n - 1), path))
<1> DEFINE Good == {m \in Nat : \A p \in PathsTo(v, m) :
                                  p = <<>> \/ (m > 0 /\ Extends(v, PathsTo(v, m - 1), p))}
<1>1. 0 \in Good
  BY PathsUnfold
<1>2. ASSUME NEW m \in Nat, m \in Good PROVE m + 1 \in Good
  <2>1. ASSUME NEW p \in PathsTo(v, m + 1) PROVE p = <<>> \/ Extends(v, PathsTo(v, m), p)
    <3>1. p \in PathsTo(v, m) \/ Extends(v, PathsTo(v, m), p)
      BY PathsNext
    <3>2. CASE p \in PathsTo(v, m)
      <4>1. p = <<>> \/ (m > 0 /\ Extends(v, PathsTo(v, m - 1), p))
        BY <1>2, <3>2
      <4>2. m > 0 => PathsTo(v, m - 1) \subseteq PathsTo(v, m)
        <5>1. m > 0 => m - 1 \in Nat /\ (m - 1) + 1 = m
          OBVIOUS
        <5> QED
          BY <5>1, PathsGrow
      <4> QED
        BY <4>1, <4>2, Zenon DEF Extends
    <3> QED
      BY <3>1, <3>2
  <2> QED
    BY <2>1
<1>3. n \in Good
  <2> HIDE DEF Good
  <2> QED
    BY <1>1, <1>2, SetInduction
<1> QED
  BY <1>3

-------------------------------------------------------------------------------
(***************************************************************************)
(* The blocks U keep the values of the variables in use.                     *)
(***************************************************************************)
Kept(U) == TypeOK /\ heap = [b \in Blocks |-> heap[b]] /\ Sound(env, heap, Vars \ spent, U)

LEMMA PathKept ==
  ASSUME NEW U, Kept(U), NEW v \in Vars \ spent, NEW n \in Nat, NEW path \in PathsTo(v, n)
  PROVE  /\ path \in Seq(Steps) /\ Len(path) \in 0..n /\ At(v, path) \in Value
         /\ IsPointer(At(v, path)) =>
              /\ At(v, path).p \in U /\ At(v, path).p \in Blocks
              /\ heap[At(v, path).p].k = At(v, path).t /\ heap[At(v, path).p] # Free
<1>1. /\ path \in Seq(Steps) /\ Len(path) <= n /\ At(v, path) \in Value
      /\ IsPointer(At(v, path)) => At(v, path).p \in U
                                   /\ heap[At(v, path).p].k = At(v, path).t
  BY PathsTyped DEF Kept
<1>2. \A b \in U : b \in Blocks /\ heap[b] # Free
  BY DEF Kept, Sound
<1>3. Len(path) \in 0..n
  BY <1>1
<1> QED
  BY <1>1, <1>2, <1>3

\* The path goes on to item i of block c, from a shorter path.
Above(v, path, n, c, i) ==
  \E q \in PathsTo(v, n - 1) :
    /\ path = Append(q, i) /\ Len(path) = Len(q) + 1
    /\ Front(path) = q /\ Last(path) = i /\ path # <<>>
    /\ IsPointer(At(v, q)) /\ At(v, q).p = c

\* Where the value at the end of a path is.
LEMMA PathPlace ==
  ASSUME NEW U, Kept(U), NEW v \in Vars \ spent, NEW n \in Nat, NEW path \in PathsTo(v, n)
  PROVE  \E c \in U \cup {Nil} : \E i \in HoldsIn(heap, Vars \ spent, c) :
           /\ ValueIn(env, heap, c, i) = At(v, path)
           /\ \/ path = <<>> /\ c = Nil /\ i = v
              \/ c # Nil /\ n > 0 /\ Above(v, path, n, c, i)
<1>1. CASE path = <<>>
  BY <1>1, AtRoot DEF HoldsIn, ValueIn
<1>2. CASE n > 0 /\ Extends(v, PathsTo(v, n - 1), path)
  <2>0. PICK q \in PathsTo(v, n - 1) : \E i \in Onward(v, q) : path = Append(q, i)
    BY <1>2, Zenon DEF Extends
  <2>1. PICK i \in Onward(v, q) : path = Append(q, i)
    BY <2>0
  <2>2. PICK c : c = At(v, q).p
    OBVIOUS
  <2>3. IsPointer(At(v, q)) /\ i \in Holds(heap, c)
    BY <2>2 DEF Onward
  <2>4. q \in Seq(Steps) /\ c \in U
    <3>1. n - 1 \in Nat
      BY <1>2
    <3> QED
      BY <2>2, <2>3, <3>1, PathsTyped DEF Kept
  <2>5. c \in Blocks /\ c # Nil
    BY <2>4, JsonHeapAssumption DEF Kept, Sound
  <2>6. i \in Steps
    BY <2>3, <2>5, ItemsTyped DEF Kept
  <2>7. At(v, path) = heap[c].items[i]
    BY <2>1, <2>2, <2>4, <2>6, AtAppend
  <2>8. Len(path) = Len(q) + 1 /\ Front(path) = q /\ Last(path) = i /\ path # <<>>
    BY <2>1, <2>4, <2>6 DEF Front, Last
  <2>9. i \in HoldsIn(heap, Vars \ spent, c) /\ ValueIn(env, heap, c, i) = At(v, path)
    BY <2>3, <2>5, <2>7 DEF HoldsIn, ValueIn
  <2>10. Above(v, path, n, c, i)
    BY <2>1, <2>2, <2>3, <2>8, Zenon DEF Above
  <2> QED
    BY <1>2, <2>4, <2>5, <2>9, <2>10
<1> QED
  BY <1>1, <1>2, PathCases

\* Two values in use do not point to the same block.
LEMMA PathOnce ==
  ASSUME NEW U, Kept(U), NEW n \in Nat,
         NEW v \in Vars \ spent, NEW p \in PathsTo(v, n), IsPointer(At(v, p)),
         NEW w \in Vars \ spent, NEW q \in PathsTo(w, n), IsPointer(At(w, q)),
         At(v, p).p = At(w, q).p
  PROVE  v = w /\ p = q
<1> DEFINE Meet(v1, p1, v2, p2) ==
             IsPointer(At(v1, p1)) /\ IsPointer(At(v2, p2)) /\ At(v1, p1).p = At(v2, p2).p
           Good == {m \in Nat : \A v1, v2 \in Vars \ spent :
                      \A p1 \in PathsTo(v1, m), p2 \in PathsTo(v2, m) :
                        Meet(v1, p1, v2, p2) => v1 = v2 /\ p1 = p2}
<1>1. ASSUME NEW m \in Nat, m > 0 => m - 1 \in Good PROVE m \in Good
  <2> SUFFICES ASSUME NEW v1 \in Vars \ spent, NEW p1 \in PathsTo(v1, m),
                      NEW v2 \in Vars \ spent, NEW p2 \in PathsTo(v2, m),
                      Meet(v1, p1, v2, p2)
               PROVE  v1 = v2 /\ p1 = p2
    BY Zenon
  <2>1. PICK c \in U \cup {Nil} : \E i \in HoldsIn(heap, Vars \ spent, c) :
           /\ ValueIn(env, heap, c, i) = At(v1, p1)
           /\ \/ p1 = <<>> /\ c = Nil /\ i = v1
              \/ c # Nil /\ m > 0 /\ Above(v1, p1, m, c, i)
    BY PathPlace
  <2>2. PICK i \in HoldsIn(heap, Vars \ spent, c) :
           /\ ValueIn(env, heap, c, i) = At(v1, p1)
           /\ \/ p1 = <<>> /\ c = Nil /\ i = v1
              \/ c # Nil /\ m > 0 /\ Above(v1, p1, m, c, i)
    BY <2>1, Zenon
  <2>3. PICK d \in U \cup {Nil} : \E j \in HoldsIn(heap, Vars \ spent, d) :
           /\ ValueIn(env, heap, d, j) = At(v2, p2)
           /\ \/ p2 = <<>> /\ d = Nil /\ j = v2
              \/ d # Nil /\ m > 0 /\ Above(v2, p2, m, d, j)
    BY PathPlace
  <2>4. PICK j \in HoldsIn(heap, Vars \ spent, d) :
           /\ ValueIn(env, heap, d, j) = At(v2, p2)
           /\ \/ p2 = <<>> /\ d = Nil /\ j = v2
              \/ d # Nil /\ m > 0 /\ Above(v2, p2, m, d, j)
    BY <2>3, Zenon
  <2>5. c = d /\ i = j
    BY <2>2, <2>4 DEF Kept, Sound
  <2>6. CASE c = Nil
    BY <2>2, <2>4, <2>5, <2>6
  <2>7. CASE c # Nil
    <3>1. m > 0
      BY <2>2, <2>7
    <3>2. PICK r1 \in PathsTo(v1, m - 1) :
            p1 = Append(r1, i) /\ IsPointer(At(v1, r1)) /\ At(v1, r1).p = c
      BY <2>2, <2>7, Zenon DEF Above
    <3>3. PICK r2 \in PathsTo(v2, m - 1) :
            p2 = Append(r2, j) /\ IsPointer(At(v2, r2)) /\ At(v2, r2).p = d
      BY <2>4, <2>5, <2>7, Zenon DEF Above
    <3>4. v1 = v2 /\ r1 = r2
      <4>1. Meet(v1, r1, v2, r2)
        BY <2>5, <3>2, <3>3
      <4> HIDE DEF Meet
      <4> QED
        BY <1>1, <3>1, <4>1, Zenon
    <3> QED
      BY <2>5, <3>2, <3>3, <3>4, Zenon
  <2> QED
    BY <2>6, <2>7
<1>2. 0 \in Good
  <2> HIDE DEF Good
  <2> QED
    BY <1>1
<1>3. ASSUME NEW m \in Nat, m \in Good PROVE m + 1 \in Good
  <2>1. m + 1 \in Nat /\ (m + 1) - 1 = m
    OBVIOUS
  <2> HIDE DEF Good
  <2> QED
    BY <1>1, <1>3, <2>1
<1>4. n \in Good
  <2> HIDE DEF Good
  <2> QED
    BY <1>2, <1>3, SetInduction
<1>5. Meet(v, p, w, q)
  OBVIOUS
<1> HIDE DEF Meet
<1> QED
  BY <1>4, <1>5, Zenon

LEMMA PathsByLength ==
  ASSUME NEW U, Kept(U), NEW v \in Vars \ spent, NEW n \in Nat, NEW path \in PathsTo(v, n),
         NEW m \in Nat, Len(path) <= m
  PROVE  path \in PathsTo(v, m)
<1> DEFINE Good == {k \in Nat : \A p \in PathsTo(v, k) : \A j \in Nat :
                                  Len(p) <= j => p \in PathsTo(v, j)}
<1>1. ASSUME NEW k \in Nat, k > 0 => k - 1 \in Good PROVE k \in Good
  <2> SUFFICES ASSUME NEW p \in PathsTo(v, k), NEW j \in Nat, Len(p) <= j
               PROVE  p \in PathsTo(v, j)
    OBVIOUS
  <2>1. CASE p = <<>>
    BY <2>1, PathsGrow
  <2>2. CASE p # <<>>
    <3>1. PICK c, i : k > 0 /\ Above(v, p, k, c, i) /\ ValueIn(env, heap, c, i) = At(v, p)
                      /\ i \in HoldsIn(heap, Vars \ spent, c) /\ c # Nil
      BY <2>2, PathPlace
    <3>2. PICK q \in PathsTo(v, k - 1) :
            p = Append(q, i) /\ Len(p) = Len(q) + 1 /\ IsPointer(At(v, q)) /\ At(v, q).p = c
      BY <3>1, Zenon DEF Above
    <3>3. k - 1 \in Nat /\ k - 1 \in Good
      BY <1>1, <3>1
    <3>4. Len(q) \in Nat
      BY <3>3, PathKept
    <3>5. PICK r : r = Append(q, i)
      OBVIOUS
    <3>6. j > 0 /\ j - 1 \in Nat /\ Len(q) <= j - 1
      BY <3>2, <3>4
    <3>7. q \in PathsTo(v, j - 1)
      BY <3>3, <3>6
    <3>8. i \in Onward(v, q)
      BY <3>1, <3>2 DEF Onward, HoldsIn
    <3>9. r \in PathsTo(v, (j - 1) + 1)
      <4>1. Extends(v, PathsTo(v, j - 1), r)
        BY <3>5, <3>7, <3>8, Zenon DEF Extends
      <4> QED
        BY <3>6, <4>1, PathsNext
    <3>10. p = r /\ (j - 1) + 1 = j
      BY <3>2, <3>5
    <3> QED
      BY <3>9, <3>10
  <2> QED
    BY <2>1, <2>2
<1>2. 0 \in Good
  <2> HIDE DEF Good
  <2> QED
    BY <1>1
<1>3. ASSUME NEW k \in Nat, k \in Good PROVE k + 1 \in Good
  <2>1. k + 1 \in Nat /\ (k + 1) - 1 = k
    OBVIOUS
  <2> HIDE DEF Good
  <2> QED
    BY <1>1, <1>3, <2>1
<1>4. n \in Good
  <2> HIDE DEF Good
  <2> QED
    BY <1>2, <1>3, SetInduction
<1> QED
  BY <1>4

\* A path that leads to a block passes as many others as it has steps.
LEMMA PathShort ==
  ASSUME NEW U, Kept(U), NEW v \in Vars \ spent, NEW n \in Nat, NEW path \in PathsTo(v, n),
         IsPointer(At(v, path))
  PROVE  Len(path) + 1 <= Cardinality(Blocks)
<1> DEFINE Passed(p, k, S) ==
             \A b \in S : b \in Blocks /\ \E q \in PathsTo(v, k) :
               Len(q) <= Len(p) /\ IsPointer(At(v, q)) /\ At(v, q).p = b
           Good == {k \in Nat : \A p \in PathsTo(v, k) : IsPointer(At(v, p)) =>
                      \E S : IsFiniteSet(S) /\ Cardinality(S) = Len(p) + 1 /\ Passed(p, k, S)}
<1>1. ASSUME NEW k \in Nat, k > 0 => k - 1 \in Good PROVE k \in Good
  <2> SUFFICES ASSUME NEW p \in PathsTo(v, k), IsPointer(At(v, p))
               PROVE  \E S : IsFiniteSet(S) /\ Cardinality(S) = Len(p) + 1 /\ Passed(p, k, S)
    OBVIOUS
  <2>1. PICK b : b = At(v, p).p
    OBVIOUS
  <2>2. b \in Blocks /\ Len(p) \in Nat
    BY <2>1, PathKept
  <2>3. CASE p = <<>>
    <3>1. IsFiniteSet({b}) /\ Cardinality({b}) = 1
      BY FS_Singleton
    <3>2. Len(p) = 0
      BY <2>3
    <3>3. Passed(p, k, {b})
      BY <2>1, <2>2
    <3> HIDE DEF Passed
    <3> QED
      BY <3>1, <3>2, <3>3
  <2>4. CASE p # <<>>
    <3>1. PICK c, i : k > 0 /\ Above(v, p, k, c, i)
      BY <2>4, PathPlace
    <3>2. PICK q \in PathsTo(v, k - 1) :
            Len(p) = Len(q) + 1 /\ IsPointer(At(v, q)) /\ At(v, q).p = c
      BY <3>1, Zenon DEF Above
    <3>3. k - 1 \in Nat /\ k - 1 \in Good /\ (k - 1) + 1 = k
      BY <1>1, <3>1
    <3>4. Len(q) \in Nat
      BY <3>3, PathKept
    <3>5. PICK S : IsFiniteSet(S) /\ Cardinality(S) = Len(q) + 1 /\ Passed(q, k - 1, S)
      <4> HIDE DEF Passed
      <4> QED
        BY <3>2, <3>3
    <3>6. PathsTo(v, k - 1) \subseteq PathsTo(v, k)
      BY <3>3, PathsGrow
    <3>7. b \notin S
      <4>1. SUFFICES ASSUME NEW r \in PathsTo(v, k - 1), Len(r) <= Len(q),
                            IsPointer(At(v, r)), At(v, r).p = b
                     PROVE  FALSE
        BY <3>5
      <4>2. r = p
        BY <2>1, <3>6, <4>1, PathOnce
      <4> QED
        BY <3>2, <3>4, <4>1, <4>2
    <3>8. IsFiniteSet(S \cup {b}) /\ Cardinality(S \cup {b}) = Len(p) + 1
      BY <3>2, <3>5, <3>7, FS_AddElement
    <3>9. Passed(p, k, S \cup {b})
      BY <2>1, <2>2, <3>2, <3>4, <3>5, <3>6
    <3> HIDE DEF Passed
    <3> QED
      BY <3>8, <3>9
  <2> QED
    BY <2>3, <2>4
<1>2. 0 \in Good
  <2> HIDE DEF Good
  <2> QED
    BY <1>1
<1>3. ASSUME NEW k \in Nat, k \in Good PROVE k + 1 \in Good
  <2>1. k + 1 \in Nat /\ (k + 1) - 1 = k
    OBVIOUS
  <2> HIDE DEF Good
  <2> QED
    BY <1>1, <1>3, <2>1
<1>4. n \in Good
  <2> HIDE DEF Good
  <2> QED
    BY <1>2, <1>3, SetInduction
<1>5. PICK S : Cardinality(S) = Len(path) + 1 /\ S \subseteq Blocks
  BY <1>4
<1> QED
  BY <1>5, FS_Subset, JsonHeapAssumption

LEMMA KeptOwned ==
  ASSUME NEW U, Kept(U), fault # "double_free"
  PROVE  OwnedOnce
<1>1. Cardinality(Blocks) \in Nat
  BY FS_CardinalityType, JsonHeapAssumption
<1> SUFFICES ASSUME NEW x \in Places, NEW b \in Blocks, Leads(x, b)
             PROVE  /\ heap[b].k = At(x[1], x[2]).t
                    /\ \A y \in Places : Leads(y, b) => y = x
  BY Zenon DEF OwnedOnce
<1>2. ASSUME NEW y \in Places
      PROVE  \E w \in Vars \ spent : \E q \in PathsTo(w, Cardinality(Blocks)) :
               y = <<w, q>> /\ y[1] = w /\ y[2] = q
  BY DEF Places
<1>3. PICK v \in Vars \ spent : \E p \in PathsTo(v, Cardinality(Blocks)) :
        x = <<v, p>> /\ x[1] = v /\ x[2] = p
  BY <1>2
<1>4. PICK p \in PathsTo(v, Cardinality(Blocks)) : x = <<v, p>> /\ x[1] = v /\ x[2] = p
  BY <1>3
<1>5. IsPointer(At(v, p)) /\ At(v, p).p = b
  BY <1>4 DEF Leads
<1>6. heap[b].k = At(v, p).t
  BY <1>1, <1>5, PathKept
<1>7. ASSUME NEW y \in Places, Leads(y, b) PROVE y = x
  <2>1. PICK w \in Vars \ spent : \E q \in PathsTo(w, Cardinality(Blocks)) :
          y = <<w, q>> /\ y[1] = w /\ y[2] = q
    BY <1>2
  <2>2. PICK q \in PathsTo(w, Cardinality(Blocks)) : y = <<w, q>> /\ y[1] = w /\ y[2] = q
    BY <2>1
  <2>3. IsPointer(At(w, q)) /\ At(w, q).p = b
    BY <1>7, <2>2 DEF Leads
  <2>4. v = w /\ p = q
    BY <1>1, <1>5, <2>3, PathOnce
  <2> QED
    BY <1>4, <2>2, <2>4
<1> QED
  BY <1>4, <1>6, <1>7

-------------------------------------------------------------------------------
(***************************************************************************)
(* What clear deletes                                                        *)
(***************************************************************************)
Inside(S) == S \cup {Target(y) : y \in Elements(S)}

DeepStep(x, g, n) ==
  IF n = 0 THEN IF IsPointer(x) THEN {x.p} ELSE {} ELSE Inside(g[n - 1])
Deep(x) == CHOOSE g : g = [n \in 0..Cardinality(Blocks) |-> DeepStep(x, g, n)]

LEMMA ClearedIsDeep ==
  ASSUME NEW x
  PROVE  Cleared(x) = Deep(x)[Cardinality(Blocks)]
BY DEF Cleared, Deep, DeepStep, Inside

LEMMA DeepUnfolds ==
  ASSUME NEW x
  PROVE  Deep(x) = [n \in 0..Cardinality(Blocks) |-> DeepStep(x, Deep(x), n)]
<1> DEFINE Good == {n \in Nat : \E g : \A m \in 0..n : g[m] = DeepStep(x, g, m)}
<1>0. Cardinality(Blocks) \in Nat
  BY FS_CardinalityType, JsonHeapAssumption
<1>1. 0 \in Good
  <2> DEFINE first == IF IsPointer(x) THEN {x.p} ELSE {}
  <2>1. [m \in {0} |-> first][0] = first
    OBVIOUS
  <2>2. PICK g : g[0] = first
    BY <2>1
  <2>3. \A m \in 0..0 : g[m] = DeepStep(x, g, m)
    BY <2>2 DEF DeepStep
  <2> QED
    BY <2>3
<1>2. ASSUME NEW n \in Nat, n \in Good PROVE n + 1 \in Good
  <2>1. PICK g : \A m \in 0..n : g[m] = DeepStep(x, g, m)
    BY <1>2
  <2> DEFINE h == [m \in 0..n + 1 |-> IF m = n + 1 THEN DeepStep(x, g, n + 1) ELSE g[m]]
  <2>2. ASSUME NEW m \in 0..n + 1 PROVE h[m] = DeepStep(x, h, m)
    <3>1. h[m] = DeepStep(x, g, m)
      BY <2>1
    <3>2. m > 0 => h[m - 1] = g[m - 1]
      OBVIOUS
    <3> HIDE DEF h
    <3> QED
      BY <3>1, <3>2 DEF DeepStep
  <2>3. \E f : \A m \in 0..n + 1 : f[m] = DeepStep(x, f, m)
    <3> HIDE DEF h
    <3> QED
      BY <2>2
  <2> QED
    BY <2>3
<1>3. Cardinality(Blocks) \in Good
  <2> HIDE DEF Good
  <2> QED
    BY <1>0, <1>1, <1>2, SetInduction
<1>4. PICK g : \A m \in 0..Cardinality(Blocks) : g[m] = DeepStep(x, g, m)
  BY <1>3
<1> DEFINE h == [m \in 0..Cardinality(Blocks) |-> g[m]]
<1>5. ASSUME NEW m \in 0..Cardinality(Blocks) PROVE h[m] = DeepStep(x, h, m)
  <2>1. h[m] = DeepStep(x, g, m)
    BY <1>4
  <2>2. m > 0 => h[m - 1] = g[m - 1]
    BY <1>0
  <2> HIDE DEF h
  <2> QED
    BY <1>0, <2>1, <2>2 DEF DeepStep
<1>6. h = [n \in 0..Cardinality(Blocks) |-> DeepStep(x, h, n)]
  BY <1>5
<1> QED
  BY <1>6 DEF Deep

\* A set of sets that has the value's own block, and with a set its elements'
\* blocks, has what clear deletes.
LEMMA ClearedInduction ==
  ASSUME NEW x, NEW Good,
         IF IsPointer(x) THEN {x.p} \in Good ELSE {} \in Good,
         \A S \in Good : Inside(S) \in Good
  PROVE  Cleared(x) \in Good
<1> DEFINE N == Cardinality(Blocks)
           Levelled == {n \in Nat : n <= N => Deep(x)[n] \in Good}
<1>0. N \in Nat
  BY FS_CardinalityType, JsonHeapAssumption
<1> HIDE DEF N
<1>u. \A n \in 0..N : Deep(x)[n] = DeepStep(x, Deep(x), n)
  BY DeepUnfolds DEF N
<1>1. 0 \in Levelled
  <2>1. Deep(x)[0] \in Good
    BY <1>0, <1>u DEF DeepStep
  <2> QED
    BY <2>1
<1>2. ASSUME NEW n \in Nat, n \in Levelled PROVE n + 1 \in Levelled
  <2> SUFFICES ASSUME n + 1 <= N PROVE Deep(x)[n + 1] \in Good
    OBVIOUS
  <2>1. Deep(x)[n + 1] = Inside(Deep(x)[n])
    BY <1>0, <1>u DEF DeepStep
  <2>2. Deep(x)[n] \in Good
    BY <1>0, <1>2
  <2> QED
    BY <2>1, <2>2
<1>3. N \in Levelled
  <2> HIDE DEF Levelled
  <2> QED
    BY <1>0, <1>1, <1>2, SetInduction
<1> QED
  BY <1>0, <1>3, ClearedIsDeep DEF N

LEMMA ElementIsItem ==
  ASSUME NEW S, NEW y \in Elements(S)
  PROVE  /\ y = <<y[1], y[2]>> /\ y[1] \in S /\ y[2] \in Holds(heap, y[1])
         /\ IsPointer(heap[y[1]].items[y[2]]) /\ Target(y) = heap[y[1]].items[y[2]].p
BY DEF Elements, Target

\* The value in item i of block c, or in variable i, points to b.
Holder(S, c, i, b) ==
  /\ c \in S /\ i \in Holds(heap, c)
  /\ IsPointer(heap[c].items[i]) /\ heap[c].items[i].p = b

\* Each deleted block but the value's own is an element's of another, and all are
\* at ends of paths through the value.
LEMMA ClearedHeld ==
  ASSUME NEW U, Kept(U), NEW v \in Vars \ spent, NEW n \in Nat, NEW path \in PathsTo(v, n),
         NEW x, x = At(v, path)
  PROVE  /\ Cleared(x) \in SUBSET U
         /\ Cleared(x) # {} => IsPointer(x)
         /\ \A b \in Cleared(x) : b = x.p \/ \E c, i : Holder(Cleared(x), c, i, b)
         /\ \A b \in Cleared(x) : \E m \in Nat : \E q \in PathsTo(v, m) :
              IsPointer(At(v, q)) /\ At(v, q).p = b /\ Len(q) >= Len(path)
<1> DEFINE Held(S) == \A b \in S : b = x.p \/ \E c, i : Holder(S, c, i, b)
           Reaches(m, q, b) == IsPointer(At(v, q)) /\ At(v, q).p = b /\ Len(q) >= Len(path)
           Reached(b) == \E m \in Nat : \E q \in PathsTo(v, m) : Reaches(m, q, b)
           Good == {S \in SUBSET U : /\ S # {} => IsPointer(x)
                                     /\ Held(S) /\ \A b \in S : Reached(b)}
<1>1. ASSUME IsPointer(x) PROVE {x.p} \in Good
  <2>1. x.p \in U /\ Len(path) \in Nat
    BY <1>1, PathKept
  <2>2. Reached(x.p)
    BY <1>1, <2>1
  <2> HIDE DEF Reached
  <2> QED
    BY <1>1, <2>1, <2>2
<1>2. {} \in Good
  OBVIOUS
<1>3. ASSUME NEW S \in Good PROVE Inside(S) \in Good
  <2>1. S \in SUBSET U /\ Held(S) /\ (S # {} => IsPointer(x)) /\ \A b \in S : Reached(b)
    <3> HIDE DEF Held, Reached
    <3> QED
      OBVIOUS
  <2>2. ASSUME NEW y \in Elements(S)
        PROVE  /\ Target(y) \in U /\ Holder(S, y[1], y[2], Target(y))
               /\ Reached(Target(y))
    <3>1. PICK c, i : c = y[1] /\ i = y[2]
      OBVIOUS
    <3>2. PICK b : b = Target(y)
      OBVIOUS
    <3>3. Holder(S, c, i, b)
      BY <3>1, <3>2, ElementIsItem DEF Holder
    <3>4. c \in U /\ c \in Blocks /\ c # Nil
      BY <2>1, <3>3, JsonHeapAssumption DEF Holder, Kept, Sound
    <3>5. b \in U
      <4>1. i \in HoldsIn(heap, Vars \ spent, c) /\ ValueIn(env, heap, c, i) = heap[c].items[i]
        BY <3>3, <3>4 DEF Holder, HoldsIn, ValueIn
      <4> QED
        BY <3>3, <3>4, <4>1 DEF Holder, Kept, Sound
    <3>6. PICK m \in Nat : \E q \in PathsTo(v, m) : Reaches(m, q, c)
      <4> HIDE DEF Reaches
      <4> QED
        BY <2>1, <3>3 DEF Holder
    <3>7. PICK q \in PathsTo(v, m) : IsPointer(At(v, q)) /\ At(v, q).p = c /\ Len(q) >= Len(path)
      BY <3>6
    <3>8. q \in Seq(Steps) /\ Len(q) \in Nat /\ Len(path) \in Nat
      BY PathKept
    <3>9. i \in Steps
      BY <3>3, <3>4, ItemsTyped DEF Holder, Kept
    <3>10. PICK r : r = Append(q, i)
      OBVIOUS
    <3>11. Len(r) >= Len(path)
      BY <3>7, <3>8, <3>9, <3>10
    <3>12. At(v, r) = heap[c].items[i]
      BY <3>7, <3>8, <3>9, <3>10, AtAppend
    <3>13. r \in PathsTo(v, m + 1)
      <4>1. i \in Onward(v, q)
        BY <3>3, <3>7 DEF Onward, Holder
      <4>2. Extends(v, PathsTo(v, m), r)
        BY <3>10, <4>1, Zenon DEF Extends
      <4> QED
        BY <4>2, PathsNext
    <3>14. Reaches(m + 1, r, b)
      BY <3>3, <3>11, <3>12 DEF Holder
    <3>15. Reached(b)
      <4>1. m + 1 \in Nat
        OBVIOUS
      <4> HIDE DEF Reaches
      <4> QED
        BY <3>13, <3>14, <4>1
    <3> HIDE DEF Reached
    <3> QED
      BY <3>1, <3>2, <3>3, <3>5, <3>15
  <2>3. Inside(S) \in SUBSET U /\ S \subseteq Inside(S)
    BY <2>1, <2>2 DEF Inside
  <2>4. Held(Inside(S))
    BY <2>1, <2>2, <2>3 DEF Inside, Holder
  <2>5. Inside(S) # {} => IsPointer(x)
    <3>1. S = {} => Inside(S) = {}
      BY DEF Inside, Elements
    <3> QED
      BY <2>1, <3>1
  <2>6. \A b \in Inside(S) : Reached(b)
    <3> HIDE DEF Reached
    <3> QED
      BY <2>1, <2>2 DEF Inside
  <2> HIDE DEF Held, Reached
  <2> QED
    BY <2>3, <2>4, <2>5, <2>6
<1>4. Cleared(x) \in Good
  <2> HIDE DEF Good
  <2> QED
    BY <1>1, <1>2, <1>3, ClearedInduction
<1> QED
  BY <1>4

\* The value at place c, i: item i of block c, or variable i; at the end of the path.
IsPlace(v, path, n, c, i) ==
  /\ i \in HoldsIn(heap, Vars \ spent, c) /\ ValueIn(env, heap, c, i) = At(v, path)
  /\ \/ path = <<>> /\ c = Nil /\ i = v
     \/ c # Nil /\ n > 0 /\ Above(v, path, n, c, i)

LEMMA PlaceExists ==
  ASSUME NEW U, Kept(U), NEW v \in Vars \ spent, NEW n \in Nat, NEW path \in PathsTo(v, n)
  PROVE  \E c \in U \cup {Nil} : \E i : IsPlace(v, path, n, c, i)
BY PathPlace DEF IsPlace

\* From outside K only the place c, i points to K.
OnlyAt(U, K, c, i) ==
  \A d \in (U \ K) \cup {Nil} : \A j \in HoldsIn(heap, Vars \ spent, d) :
    LET y == ValueIn(env, heap, d, j) IN
    IsPointer(y) /\ y.p \in K => d = c /\ j = i

\* A value in use can be cleared; what is deleted does not include the block that it
\* is in, and from outside nothing but the value points there.
LEMMA ClearedInside ==
  ASSUME NEW U, Kept(U), NEW v \in Vars \ spent, NEW n \in Nat, NEW path \in PathsTo(v, n),
         NEW c \in U \cup {Nil}, NEW i, IsPlace(v, path, n, c, i),
         NEW x, x = At(v, path)
  PROVE  /\ Cleared(x) \in SUBSET U /\ c \notin Cleared(x) /\ Clearable(x)
         /\ ~IsPointer(x) => Cleared(x) = {}
         /\ OnlyAt(U, Cleared(x), c, i)
<1> DEFINE W == Vars \ spent
           K == Cleared(x)
           In(d, j, b) == /\ d \in U \cup {Nil} /\ j \in HoldsIn(heap, W, d)
                          /\ IsPointer(ValueIn(env, heap, d, j)) /\ ValueIn(env, heap, d, j).p = b
<1>1. /\ K \in SUBSET U
      /\ K # {} => IsPointer(x)
      /\ \A b \in K : b = x.p \/ \E d, j : Holder(K, d, j, b)
      /\ \A b \in K : \E m \in Nat : \E q \in PathsTo(v, m) :
           IsPointer(At(v, q)) /\ At(v, q).p = b /\ Len(q) >= Len(path)
  BY ClearedHeld
<1>2. U \in SUBSET Blocks /\ Nil \notin U /\ \A b \in U : heap[b] # Free
  BY JsonHeapAssumption DEF Kept, Sound
<1>3. ASSUME NEW d, NEW j, NEW e, NEW k, NEW b, In(d, j, b), In(e, k, b)
      PROVE  d = e /\ j = k
  BY <1>3, ZenonT(40) DEF Kept, Sound
<1>4. IsPointer(x) => In(c, i, x.p)
  BY DEF IsPlace
<1>5. c \notin K
  <2>1. CASE c = Nil
    BY <1>1, <1>2, <2>1
  <2>2. CASE c # Nil
    <3>1. SUFFICES ASSUME c \in K PROVE FALSE
      OBVIOUS
    <3>2. n > 0 /\ Above(v, path, n, c, i)
      BY <2>2 DEF IsPlace
    <3>3. PICK q0 \in PathsTo(v, n - 1) :
            Len(path) = Len(q0) + 1 /\ IsPointer(At(v, q0)) /\ At(v, q0).p = c
      BY <3>2, Zenon DEF Above
    <3>4. PICK m \in Nat : \E q \in PathsTo(v, m) :
            IsPointer(At(v, q)) /\ At(v, q).p = c /\ Len(q) >= Len(path)
      BY <1>1, <3>1
    <3>5. PICK q \in PathsTo(v, m) :
            IsPointer(At(v, q)) /\ At(v, q).p = c /\ Len(q) >= Len(path)
      BY <3>4
    <3>6. n - 1 \in Nat
      BY <3>2
    <3>7. Len(q0) \in Nat /\ Len(q) \in Nat
      BY <3>6, PathKept
    <3>8. PICK k \in Nat : k = Len(q0) + Len(q)
      BY <3>7
    <3>9. q0 \in PathsTo(v, k) /\ q \in PathsTo(v, k)
      <4>1. Len(q0) <= k /\ Len(q) <= k
        BY <3>7, <3>8
      <4> QED
        BY <3>6, <4>1, PathsByLength
    <3>10. q = q0
      BY <3>3, <3>5, <3>9, PathOnce
    <3> QED
      BY <3>3, <3>5, <3>7, <3>10
  <2> QED
    BY <2>1, <2>2
<1>6. ASSUME NEW d, NEW j, NEW b, Holder(K, d, j, b)
      PROVE  In(d, j, b)
  BY <1>1, <1>2, <1>6 DEF Holder, HoldsIn, ValueIn
<1>7. ASSUME NEW d \in (U \ K) \cup {Nil}, NEW j \in HoldsIn(heap, W, d),
             IsPointer(ValueIn(env, heap, d, j)), ValueIn(env, heap, d, j).p \in K
      PROVE  d = c /\ j = i
  <2>1. PICK b \in K : In(d, j, b)
    BY <1>7
  <2> HIDE DEF In
  <2>2. ASSUME NEW e, NEW k, Holder(K, e, k, b) PROVE FALSE
    <3>1. d = e
      BY <1>3, <1>6, <2>1, <2>2
    <3>2. e \in K
      BY <2>2 DEF Holder
    <3> QED
      BY <1>1, <1>2, <3>1, <3>2
  <2>3. b = x.p /\ IsPointer(x)
    BY <1>1, <2>1, <2>2
  <2> QED
    BY <1>3, <1>4, <2>1, <2>3
<1>8. Clearable(x)
  <2>1. \A b \in K : heap[b] # Free
    BY <1>1, <1>2
  <2>2. ASSUME NEW y \in Elements(K), NEW z \in Elements(K)
        PROVE  Target(y) # x.p /\ (Target(y) = Target(z) => y = z)
    <3>1. y = <<y[1], y[2]>> /\ Holder(K, y[1], y[2], Target(y))
      BY ElementIsItem DEF Holder
    <3>2. z = <<z[1], z[2]>> /\ Holder(K, z[1], z[2], Target(z))
      BY ElementIsItem DEF Holder
    <3>3. PICK d, j : d = y[1] /\ j = y[2]
      OBVIOUS
    <3>4. PICK e, k : e = z[1] /\ k = z[2]
      OBVIOUS
    <3>5. Holder(K, d, j, Target(y)) /\ Holder(K, e, k, Target(z))
      BY <3>1, <3>2, <3>3, <3>4
    <3> HIDE DEF In
    <3>6. Target(y) = x.p => d = c
      <4>1. d \in K
        BY <3>5 DEF Holder
      <4> QED
        BY <1>1, <1>3, <1>4, <1>6, <3>5, <4>1
    <3>7. d # c
      BY <1>5, <3>5 DEF Holder
    <3>8. Target(y) = Target(z) => d = e /\ j = k
      BY <1>3, <1>6, <3>5
    <3> QED
      BY <3>1, <3>2, <3>3, <3>4, <3>6, <3>7, <3>8
  <2> QED
    BY <2>1, <2>2 DEF Clearable
<1> QED
  BY <1>1, <1>5, <1>7, <1>8 DEF OnlyAt

-------------------------------------------------------------------------------
(***************************************************************************)
(* Steps on a sound heap                                                     *)
(***************************************************************************)
\* Item j of block d, or variable j, is a pointer.
Sits(e, h, W, U, d, j) ==
  d \in U \cup {Nil} /\ j \in HoldsIn(h, W, d) /\ IsPointer(ValueIn(e, h, d, j))

LEMMA SoundSits ==
  ASSUME NEW e, NEW h, NEW W, NEW U
  PROVE  Sound(e, h, W, U) <=>
           /\ \A b \in U : b \in Blocks /\ h[b] # Free
           /\ \A d, j : Sits(e, h, W, U, d, j) =>
                ValueIn(e, h, d, j).p \in U /\ h[ValueIn(e, h, d, j).p].k = ValueIn(e, h, d, j).t
           /\ \A d, j, f, k :
                Sits(e, h, W, U, d, j) /\ Sits(e, h, W, U, f, k)
                /\ ValueIn(e, h, d, j).p = ValueIn(e, h, f, k).p => d = f /\ j = k
BY Zenon DEF Sound, Sits

Lands(e2, h2, U2, d, j) ==
  ValueIn(e2, h2, d, j).p \in U2 /\ h2[ValueIn(e2, h2, d, j).p].k = ValueIn(e2, h2, d, j).t

\* From e, h, W, U to e2, h2, W2, U2, values stay where they are, but one moves from
\* place g to place q, and one at place p points to a new block.
Moves(e, h, W, U, e2, h2, W2, U2, gc, gi, qc, qi, pc, pi, F) ==
  /\ \A b \in U2 : b \in Blocks /\ h2[b] # Free
  /\ \A d, j : Sits(e2, h2, W2, U2, d, j) =>
       LET y == ValueIn(e2, h2, d, j) IN
       /\ Lands(e2, h2, U2, d, j)
       /\ \/ /\ Sits(e, h, W, U, d, j) /\ y = ValueIn(e, h, d, j)
             /\ ~(d = gc /\ j = gi) /\ y.p \notin F
          \/ /\ d = qc /\ j = qi /\ y.p \notin F
             /\ Sits(e, h, W, U, gc, gi) /\ y = ValueIn(e, h, gc, gi)
          \/ d = pc /\ j = pi /\ y.p \in F

LEMMA Rewritten ==
  ASSUME NEW e, NEW h, NEW W, NEW U, Sound(e, h, W, U),
         NEW e2, NEW h2, NEW W2, NEW U2,
         NEW gc, NEW gi, NEW qc, NEW qi, NEW pc, NEW pi, NEW F,
         Moves(e, h, W, U, e2, h2, W2, U2, gc, gi, qc, qi, pc, pi, F)
  PROVE  Sound(e2, h2, W2, U2)
<1>1. \A d, j, f, k :
        Sits(e, h, W, U, d, j) /\ Sits(e, h, W, U, f, k)
        /\ ValueIn(e, h, d, j).p = ValueIn(e, h, f, k).p => d = f /\ j = k
  BY SoundSits
<1>2. ASSUME NEW d, NEW j, NEW f, NEW k,
             Sits(e2, h2, W2, U2, d, j), Sits(e2, h2, W2, U2, f, k),
             ValueIn(e2, h2, d, j).p = ValueIn(e2, h2, f, k).p
      PROVE  d = f /\ j = k
  BY <1>1, <1>2 DEF Moves
<1> QED
  BY <1>2, SoundSits DEF Moves, Lands

\* No value moves.
Remains(e, h, W, U, e2, h2, W2, U2, pc, pi, F) ==
  /\ \A b \in U2 : b \in Blocks /\ h2[b] # Free
  /\ \A d, j : Sits(e2, h2, W2, U2, d, j) =>
       LET y == ValueIn(e2, h2, d, j) IN
       /\ Lands(e2, h2, U2, d, j)
       /\ \/ Sits(e, h, W, U, d, j) /\ y = ValueIn(e, h, d, j) /\ y.p \notin F
          \/ d = pc /\ j = pi /\ y.p \in F

LEMMA Remained ==
  ASSUME NEW e, NEW h, NEW W, NEW U, Sound(e, h, W, U),
         NEW e2, NEW h2, NEW W2, NEW U2, NEW pc, NEW pi, NEW F,
         Remains(e, h, W, U, e2, h2, W2, U2, pc, pi, F)
  PROVE  Sound(e2, h2, W2, U2)
<1>1. \A d, j, f, k :
        Sits(e, h, W, U, d, j) /\ Sits(e, h, W, U, f, k)
        /\ ValueIn(e, h, d, j).p = ValueIn(e, h, f, k).p => d = f /\ j = k
  BY SoundSits
<1>2. ASSUME NEW d, NEW j, NEW f, NEW k,
             Sits(e2, h2, W2, U2, d, j), Sits(e2, h2, W2, U2, f, k),
             ValueIn(e2, h2, d, j).p = ValueIn(e2, h2, f, k).p
      PROVE  d = f /\ j = k
  BY <1>1, <1>2 DEF Remains
<1> QED
  BY <1>2, SoundSits DEF Remains, Lands

LEMMA ItemWritten ==
  ASSUME NEW B, BlockOK(B), B.k \in {"array", "object"}, NEW i \in DOMAIN B.items,
         NEW x \in Value, NEW B2, B2 = [B EXCEPT !.items[i] = x]
  PROVE  /\ BlockOK(B2) /\ B2.k = B.k /\ DOMAIN B2.items = DOMAIN B.items
         /\ \A j \in DOMAIN B.items : B2.items[j] = IF j = i THEN x ELSE B.items[j]
<1>1. PICK f : f = B.items
  OBVIOUS
<1>0. PICK t : t = B.k
  OBVIOUS
<1>2. B = [k |-> t, items |-> f]
  BY <1>0, <1>1 DEF BlockOK, ArrayOK, ObjectOK, StringOK, Free, Filled
<1>3. B2 = [k |-> t, items |-> [f EXCEPT ![i] = x]]
  BY <1>1, <1>2
<1>4. PICK g : g = [f EXCEPT ![i] = x]
  OBVIOUS
<1>5. B2 = Filled(B.k, g) /\ B2.items = g /\ B2.k = B.k
  <2>1. B2 = [k |-> t, items |-> g]
    BY <1>3, <1>4
  <2>2. B2.items = g /\ B2.k = t
    BY <2>1
  <2> QED
    BY <1>0, <2>1, <2>2 DEF Filled
<1>6. CASE B.k = "array"
  <2>1. f \in Seq(Value) /\ Len(f) <= MaxLen
    BY <1>1, <1>6, Kinds DEF ArrayOK
  <2>2. g \in Seq(Value) /\ Len(g) = Len(f) /\ DOMAIN g = DOMAIN f
        /\ \A j \in DOMAIN f : g[j] = IF j = i THEN x ELSE f[j]
    BY <1>1, <1>4, <2>1
  <2> QED
    BY <1>1, <1>5, <1>6, <2>1, <2>2 DEF BlockOK, ArrayOK
<1>7. CASE B.k = "object"
  <2>1. DOMAIN f \subseteq Keys /\ f \in [DOMAIN f -> Value]
    BY <1>1, <1>7, Kinds DEF ObjectOK
  <2>2. g \in [DOMAIN f -> Value] /\ DOMAIN g = DOMAIN f
        /\ \A j \in DOMAIN f : g[j] = IF j = i THEN x ELSE f[j]
    BY <1>1, <1>4, <2>1
  <2> QED
    BY <1>1, <1>5, <1>7, <2>1, <2>2 DEF BlockOK, ObjectOK
<1> QED
  BY <1>6, <1>7

\* e2, h2 are e, h with x at the place c, i.
Wrote(c, i, x, e, h, e2, h2) ==
  /\ \A d \in Blocks : h2[d].k = h[d].k /\ Holds(h2, d) = Holds(h, d)
  /\ \A d \in Blocks \cup {Nil} : \A j \in HoldsIn(h, Vars, d) :
       ValueIn(e2, h2, d, j) = IF d = c /\ j = i THEN x ELSE ValueIn(e, h, d, j)

HeapOK(h) == h = [b \in Blocks |-> h[b]] /\ \A b \in Blocks : BlockOK(h[b])

LEMMA WriteVariable ==
  ASSUME NEW e \in [Vars -> Value], NEW h, HeapOK(h), NEW i \in Vars, NEW x \in Value,
         NEW e2, e2 = [e EXCEPT ![i] = x]
  PROVE  e2 \in [Vars -> Value] /\ Wrote(Nil, i, x, e, h, e2, h)
<1>1. Nil \notin Blocks
  BY JsonHeapAssumption
<1>2. e2 \in [Vars -> Value] /\ \A j \in Vars : e2[j] = IF j = i THEN x ELSE e[j]
  OBVIOUS
<1> QED
  BY <1>1, <1>2 DEF Wrote, HoldsIn, ValueIn

LEMMA WriteItem ==
  ASSUME NEW e, NEW h, HeapOK(h), NEW c \in Blocks, NEW i \in Holds(h, c), NEW x \in Value,
         NEW h2, h2 = [h EXCEPT ![c].items[i] = x]
  PROVE  HeapOK(h2) /\ Wrote(c, i, x, e, h, e, h2)
<1>1. Nil \notin Blocks
  BY JsonHeapAssumption
<1>2. PICK B : B = h[c]
  OBVIOUS
<1>3. PICK B2 : B2 = [B EXCEPT !.items[i] = x]
  OBVIOUS
<1>4. h2 = [h EXCEPT ![c] = B2]
  BY <1>2, <1>3
<1>5. DOMAIN h = Blocks
  BY DEF HeapOK
<1>6. h2 = [b \in Blocks |-> h2[b]] /\ h2[c] = B2 /\ \A b \in Blocks : b # c => h2[b] = h[b]
  BY <1>4, <1>5
<1>7. BlockOK(B) /\ B.k \in {"array", "object"} /\ i \in DOMAIN B.items
  BY <1>2 DEF HeapOK, Holds
<1>8. /\ BlockOK(B2) /\ B2.k = B.k /\ DOMAIN B2.items = DOMAIN B.items
      /\ \A j \in DOMAIN B.items : B2.items[j] = IF j = i THEN x ELSE B.items[j]
  BY <1>3, <1>7, ItemWritten
<1>9. HeapOK(h2)
  BY <1>6, <1>8 DEF HeapOK
<1>10. \A d \in Blocks : h2[d].k = h[d].k /\ Holds(h2, d) = Holds(h, d)
  BY <1>2, <1>6, <1>8 DEF Holds
<1>11. ASSUME NEW d \in Blocks \cup {Nil}, NEW j \in HoldsIn(h, Vars, d)
       PROVE  ValueIn(e, h2, d, j) = IF d = c /\ j = i THEN x ELSE ValueIn(e, h, d, j)
  <2>1. CASE d = c
    <3>1. j \in DOMAIN B.items
      BY <1>1, <1>2, <1>7, <2>1 DEF HoldsIn, Holds
    <3> QED
      BY <1>1, <1>2, <1>6, <1>8, <2>1, <3>1 DEF ValueIn
  <2>2. CASE d # c
    BY <1>6, <2>2 DEF ValueIn
  <2> QED
    BY <2>1, <2>2
<1> QED
  BY <1>9, <1>10, <1>11 DEF Wrote

LEMMA StoreWrites ==
  ASSUME NEW U, Kept(U), NEW v \in Vars \ spent, NEW n \in Nat, NEW path \in PathsTo(v, n),
         NEW c \in U \cup {Nil}, NEW i, IsPlace(v, path, n, c, i),
         NEW h, HeapOK(h), c # Nil => h[c] = heap[c],
         NEW x \in Value, Store(h, v, path, x)
  PROVE  env' \in [Vars -> Value] /\ HeapOK(heap') /\ Wrote(c, i, x, env, h, env', heap')
<1>1. env \in [Vars -> Value]
  BY DEF Kept, TypeOK
<1>2. CASE c = Nil
  <2>1. path = <<>> /\ i = v
    BY <1>2 DEF IsPlace
  <2>2. env' = [env EXCEPT ![i] = x] /\ heap' = h
    BY <2>1 DEF Store
  <2>3. i \in Vars
    BY <2>1
  <2> QED
    BY <1>1, <1>2, <2>2, <2>3, WriteVariable
<1>3. CASE c # Nil
  <2>1. Above(v, path, n, c, i)
    BY <1>3 DEF IsPlace
  <2>2. path # <<>> /\ At(v, Front(path)).p = c /\ Last(path) = i
    BY <2>1, Zenon DEF Above
  <2>3. heap' = [h EXCEPT ![c].items[i] = x] /\ env' = env
    BY <2>2 DEF Store
  <2>4. c \in Blocks /\ i \in Holds(h, c)
    BY <1>3 DEF IsPlace, HoldsIn, Holds, Kept, Sound
  <2> QED
    BY <1>1, <2>3, <2>4, WriteItem
<1> QED
  BY <1>2, <1>3

-------------------------------------------------------------------------------
(***************************************************************************)
(* The inductive invariant: some set of live blocks keeps the values in use. *)
(***************************************************************************)
Typed(e, h, s, f) ==
  /\ e \in [Vars -> Value] /\ HeapOK(h) /\ s \in SUBSET Vars
  /\ f \in {"none", "wild_delete", "double_free"}

IInv == /\ Typed(env, heap, spent, fault) /\ fault # "double_free"
        /\ \E U \in SUBSET Blocks : Sound(env, heap, Vars \ spent, U)

LEMMA IInvKept ==
  ASSUME IInv
  PROVE  TypeOK /\ HeapOK(heap) /\ \E U \in SUBSET Blocks : Kept(U)
<1>1. TypeOK /\ HeapOK(heap)
  BY BlocksOK DEF IInv, Typed, HeapOK
<1> QED
  BY <1>1 DEF IInv, Kept, HeapOK

LEMMA KeptHeap ==
  ASSUME NEW U, Kept(U)
  PROVE  /\ env \in [Vars -> Value] /\ spent \in SUBSET Vars /\ HeapOK(heap)
         /\ U \in SUBSET Blocks /\ Nil \notin Blocks
BY BlocksOK, JsonHeapAssumption DEF Kept, HeapOK, Sound

LEMMA FreeOK == BlockOK(Free) /\ Free.k = "free"
BY DEF BlockOK, Free

LEMMA WithoutOK ==
  ASSUME HeapOK(heap), NEW K
  PROVE  HeapOK(Without(K)) /\ \A d \in Blocks : Without(K)[d] = IF d \in K THEN Free ELSE heap[d]
BY FreeOK DEF HeapOK, Without

Undisturbed(U, K, c, i, x, e2, h2, W2) ==
  /\ \A d \in U \ K : h2[d] # Free /\ h2[d].k = heap[d].k
  /\ \A d, j : Sits(e2, h2, W2, U \ K, d, j) =>
       LET y == ValueIn(e2, h2, d, j) IN
       \/ d = c /\ j = i /\ y = x
       \/ /\ ~(d = c /\ j = i)
          /\ Sits(env, heap, Vars \ spent, U, d, j) /\ y = ValueIn(env, heap, d, j)
          /\ y.p \in U \ K /\ h2[y.p].k = y.t

\* A write at the place of a value leaves what is elsewhere and not deleted.
LEMMA Elsewhere ==
  ASSUME NEW U, Kept(U), NEW K \in SUBSET U, NEW c \in (U \ K) \cup {Nil}, NEW i,
         OnlyAt(U, K, c, i),
         NEW h, HeapOK(h), \A d \in U \ K : h[d] = heap[d],
         NEW x, NEW e2, NEW h2, HeapOK(h2), Wrote(c, i, x, env, h, e2, h2),
         NEW W2 \in SUBSET (Vars \ spent)
  PROVE  Undisturbed(U, K, c, i, x, e2, h2, W2)
<1>1. U \in SUBSET Blocks /\ Nil \notin Blocks /\ HeapOK(heap) /\ spent \in SUBSET Vars
  BY KeptHeap
<1>2. \A d \in U \ K : h2[d] # Free /\ h2[d].k = heap[d].k
  <2>1. SUFFICES ASSUME NEW d \in U \ K PROVE h2[d] # Free /\ h2[d].k = heap[d].k
    OBVIOUS
  <2>2. h2[d].k = heap[d].k
    BY <1>1 DEF Wrote
  <2>3. heap[d] # Free
    BY DEF Kept, Sound
  <2>4. heap[d].k # "free"
    BY <1>1, <2>3, Kinds DEF HeapOK
  <2> QED
    BY <2>2, <2>4, FreeOK
<1>3. ASSUME NEW d \in (U \ K) \cup {Nil}, NEW j \in HoldsIn(h2, W2, d)
      PROVE  /\ j \in HoldsIn(heap, Vars \ spent, d)
             /\ ValueIn(e2, h2, d, j) = IF d = c /\ j = i THEN x ELSE ValueIn(env, heap, d, j)
  <2>1. CASE d = Nil
    <3>1. j \in Vars \ spent
      BY <2>1 DEF HoldsIn
    <3>2. j \in HoldsIn(h, Vars, d) /\ j \in HoldsIn(heap, Vars \ spent, d)
      BY <2>1, <3>1 DEF HoldsIn
    <3>3. ValueIn(env, h, d, j) = ValueIn(env, heap, d, j)
      BY <2>1 DEF ValueIn
    <3> QED
      BY <2>1, <3>2, <3>3 DEF Wrote
  <2>2. CASE d # Nil
    <3>1. d \in Blocks /\ d \in U \ K
      BY <1>1, <2>2
    <3>2. Holds(h2, d) = Holds(h, d) /\ Holds(h, d) = Holds(heap, d)
      BY <3>1 DEF Wrote, Holds
    <3>3. j \in HoldsIn(h, Vars, d) /\ j \in HoldsIn(heap, Vars \ spent, d)
      BY <2>2, <3>2 DEF HoldsIn
    <3>4. ValueIn(env, h, d, j) = ValueIn(env, heap, d, j)
      BY <2>2, <3>1 DEF ValueIn
    <3> QED
      BY <3>1, <3>3, <3>4 DEF Wrote
  <2> QED
    BY <2>1, <2>2
<1>4. ASSUME NEW d \in (U \ K) \cup {Nil}, NEW j \in HoldsIn(heap, Vars \ spent, d),
             ~(d = c /\ j = i), IsPointer(ValueIn(env, heap, d, j))
      PROVE  /\ ValueIn(env, heap, d, j).p \in U \ K
             /\ h2[ValueIn(env, heap, d, j).p].k = ValueIn(env, heap, d, j).t
  <2>1. ValueIn(env, heap, d, j).p \in U
        /\ heap[ValueIn(env, heap, d, j).p].k = ValueIn(env, heap, d, j).t
    BY <1>4 DEF Kept, Sound
  <2>2. ValueIn(env, heap, d, j).p \notin K
    BY <1>4 DEF OnlyAt
  <2> QED
    BY <1>2, <2>1, <2>2
<1>5. ASSUME NEW d, NEW j, Sits(e2, h2, W2, U \ K, d, j)
      PROVE  LET y == ValueIn(e2, h2, d, j) IN
             \/ d = c /\ j = i /\ y = x
             \/ /\ ~(d = c /\ j = i)
                /\ Sits(env, heap, Vars \ spent, U, d, j) /\ y = ValueIn(env, heap, d, j)
                /\ y.p \in U \ K /\ h2[y.p].k = y.t
  <2>1. d \in (U \ K) \cup {Nil} /\ j \in HoldsIn(h2, W2, d) /\ IsPointer(ValueIn(e2, h2, d, j))
    BY <1>5 DEF Sits
  <2>2. /\ j \in HoldsIn(heap, Vars \ spent, d)
        /\ ValueIn(e2, h2, d, j) = IF d = c /\ j = i THEN x ELSE ValueIn(env, heap, d, j)
    BY <1>3, <2>1
  <2> QED
    BY <1>4, <2>1, <2>2 DEF Sits
<1> QED
  BY <1>2, <1>5 DEF Undisturbed

\* The written value is no pointer,
LEMMA FilledPlain ==
  ASSUME NEW U, Kept(U), NEW K, NEW c, NEW i, NEW x, NEW e2, NEW h2, NEW W2,
         Undisturbed(U, K, c, i, x, e2, h2, W2), ~IsPointer(x)
  PROVE  Sound(e2, h2, W2, U \ K)
<1>1. \A b \in U \ K : b \in Blocks /\ h2[b] # Free
  BY DEF Undisturbed, Kept, Sound
<1>2. ASSUME NEW d, NEW j, Sits(e2, h2, W2, U \ K, d, j)
      PROVE  /\ Lands(e2, h2, U \ K, d, j) /\ Sits(env, heap, Vars \ spent, U, d, j)
             /\ ValueIn(e2, h2, d, j) = ValueIn(env, heap, d, j)
  <2>1. IsPointer(ValueIn(e2, h2, d, j))
    BY <1>2 DEF Sits
  <2> QED
    BY <1>2, <2>1 DEF Undisturbed, Lands
<1>3. Remains(env, heap, Vars \ spent, U, e2, h2, W2, U \ K, c, i, {})
  BY <1>1, <1>2 DEF Remains
<1> QED
  BY <1>3, Remained DEF Kept

\* ... or what a variable gives away,
LEMMA FilledGiven ==
  ASSUME NEW U, Kept(U), NEW K \in SUBSET U, NEW c, NEW i, NEW x, NEW e2, NEW h2,
         NEW w \in Vars \ spent, NEW W2 \in SUBSET ((Vars \ spent) \ {w}),
         Undisturbed(U, K, c, i, x, e2, h2, W2),
         x = env[w], IsPointer(x) => x.p \notin K
  PROVE  Sound(e2, h2, W2, U \ K)
<1>1. \A b \in U \ K : b \in Blocks /\ h2[b] # Free
  BY DEF Undisturbed, Kept, Sound
<1>2. IsPointer(x) => /\ Sits(env, heap, Vars \ spent, U, Nil, w) /\ x = ValueIn(env, heap, Nil, w)
                      /\ x.p \in U \ K /\ h2[x.p].k = x.t
  <2>1. SUFFICES ASSUME IsPointer(x)
                 PROVE  /\ Sits(env, heap, Vars \ spent, U, Nil, w) /\ x = ValueIn(env, heap, Nil, w)
                        /\ x.p \in U \ K /\ h2[x.p].k = x.t
    OBVIOUS
  <2>2. Sits(env, heap, Vars \ spent, U, Nil, w) /\ x = ValueIn(env, heap, Nil, w)
    BY <2>1 DEF Sits, HoldsIn, ValueIn
  <2>3. x.p \in U /\ heap[x.p].k = x.t
    BY <2>2, SoundSits DEF Kept
  <2> QED
    BY <2>1, <2>2, <2>3 DEF Undisturbed
<1>3. ASSUME NEW d, NEW j, Sits(e2, h2, W2, U \ K, d, j)
      PROVE  /\ Lands(e2, h2, U \ K, d, j)
             /\ \/ /\ Sits(env, heap, Vars \ spent, U, d, j)
                   /\ ValueIn(e2, h2, d, j) = ValueIn(env, heap, d, j) /\ ~(d = Nil /\ j = w)
                \/ /\ d = c /\ j = i /\ Sits(env, heap, Vars \ spent, U, Nil, w)
                   /\ ValueIn(e2, h2, d, j) = ValueIn(env, heap, Nil, w)
  <2>1. IsPointer(ValueIn(e2, h2, d, j)) /\ ~(d = Nil /\ j = w)
    BY <1>3 DEF Sits, HoldsIn
  <2>2. CASE d = c /\ j = i /\ ValueIn(e2, h2, d, j) = x
    BY <1>2, <2>1, <2>2 DEF Lands
  <2>3. CASE /\ Sits(env, heap, Vars \ spent, U, d, j)
             /\ ValueIn(e2, h2, d, j) = ValueIn(env, heap, d, j)
             /\ Lands(e2, h2, U \ K, d, j)
    BY <2>1, <2>3
  <2> QED
    BY <1>3, <2>2, <2>3 DEF Undisturbed, Lands
<1>4. Moves(env, heap, Vars \ spent, U, e2, h2, W2, U \ K, Nil, w, c, i, c, i, {})
  BY <1>1, <1>3 DEF Moves
<1> QED
  BY <1>4, Rewritten DEF Kept

\* ... or a pointer to a new block, where there may be a value given away.
NewAt(U, K, c, i, x, e2, h2, W2, b, k, w) ==
  /\ Undisturbed(U, K, c, i, x, e2, h2, W2) /\ W2 \in SUBSET (Vars \ spent)
  /\ b \in Blocks \ (U \ K) /\ x.p = b /\ h2[b] # Free /\ h2[b].k = x.t
  /\ \A j \in Holds(h2, b) : IsPointer(h2[b].items[j]) =>
       j = k /\ h2[b].items[j] = env[w] /\ w \in (Vars \ spent) \ W2 /\ env[w].p \notin K

LEMMA FilledNew ==
  ASSUME NEW U, Kept(U), NEW K \in SUBSET U, NEW c, NEW i, NEW x, NEW e2, NEW h2, NEW W2,
         NEW b, NEW k, NEW w, NewAt(U, K, c, i, x, e2, h2, W2, b, k, w)
  PROVE  Sound(e2, h2, W2, (U \ K) \cup {b})
<1>7. Undisturbed(U, K, c, i, x, e2, h2, W2)
  BY DEF NewAt
<1>6. /\ W2 \in SUBSET (Vars \ spent)
      /\ b \in Blocks \ (U \ K) /\ x.p = b /\ h2[b] # Free /\ h2[b].k = x.t
      /\ \A j \in Holds(h2, b) : IsPointer(h2[b].items[j]) =>
           j = k /\ h2[b].items[j] = env[w] /\ w \in (Vars \ spent) \ W2 /\ env[w].p \notin K
  BY DEF NewAt
<1> DEFINE U2 == (U \ K) \cup {b}
<1>0. U \in SUBSET Blocks /\ Nil \notin Blocks
  BY KeptHeap
<1>1. \A d \in U2 : d \in Blocks /\ h2[d] # Free
  BY <1>0, <1>6, <1>7 DEF Undisturbed
<1>2. ASSUME NEW d, NEW j, Sits(e2, h2, W2, U2, d, j), d # b
      PROVE  /\ Lands(e2, h2, U2, d, j)
             /\ \/ /\ Sits(env, heap, Vars \ spent, U, d, j) /\ (d = Nil => j \in W2)
                   /\ ValueIn(e2, h2, d, j) = ValueIn(env, heap, d, j)
                   /\ ValueIn(e2, h2, d, j).p # b
                \/ d = c /\ j = i /\ ValueIn(e2, h2, d, j).p = b
  <2>1. Sits(e2, h2, W2, U \ K, d, j) /\ (d = Nil => j \in W2)
    BY <1>6, <1>2 DEF Sits, HoldsIn
  <2>2. CASE d = c /\ j = i /\ ValueIn(e2, h2, d, j) = x
    BY <1>6, <2>2 DEF Lands
  <2>3. CASE /\ Sits(env, heap, Vars \ spent, U, d, j)
             /\ ValueIn(e2, h2, d, j) = ValueIn(env, heap, d, j)
             /\ ValueIn(e2, h2, d, j).p \in U \ K
             /\ h2[ValueIn(e2, h2, d, j).p].k = ValueIn(e2, h2, d, j).t
    BY <1>6, <2>1, <2>3 DEF Lands
  <2>4. \/ d = c /\ j = i /\ ValueIn(e2, h2, d, j) = x
        \/ /\ Sits(env, heap, Vars \ spent, U, d, j)
           /\ ValueIn(e2, h2, d, j) = ValueIn(env, heap, d, j)
           /\ ValueIn(e2, h2, d, j).p \in U \ K
           /\ h2[ValueIn(e2, h2, d, j).p].k = ValueIn(e2, h2, d, j).t
    BY <1>7, <2>1 DEF Undisturbed
  <2> QED
    BY <2>2, <2>3, <2>4
<1>3. ASSUME NEW j, Sits(e2, h2, W2, U2, b, j)
      PROVE  /\ Lands(e2, h2, U2, b, j) /\ ValueIn(e2, h2, b, j).p # b
             /\ j = k /\ w \notin W2 /\ Sits(env, heap, Vars \ spent, U, Nil, w)
             /\ ValueIn(e2, h2, b, j) = ValueIn(env, heap, Nil, w)
  <2>1. j \in Holds(h2, b) /\ IsPointer(h2[b].items[j]) /\ ValueIn(e2, h2, b, j) = h2[b].items[j]
    BY <1>0, <1>6, <1>3 DEF Sits, HoldsIn, ValueIn
  <2>2. PICK y : y = h2[b].items[j]
    OBVIOUS
  <2>3. j = k /\ y = env[w] /\ w \in (Vars \ spent) \ W2 /\ y.p \notin K /\ IsPointer(y)
    BY <1>6, <2>1, <2>2
  <2>4. Sits(env, heap, Vars \ spent, U, Nil, w) /\ y = ValueIn(env, heap, Nil, w)
    BY <2>3 DEF Sits, HoldsIn, ValueIn
  <2>5. y.p \in U \ K /\ heap[y.p].k = y.t
    BY <2>3, <2>4, SoundSits DEF Kept
  <2>7. y.p # b /\ y.p \in U2
    BY <1>6, <2>5
  <2>6. h2[y.p].k = y.t
    BY <1>7, <2>5 DEF Undisturbed
  <2> QED
    BY <2>1, <2>2, <2>3, <2>4, <2>6, <2>7 DEF Lands
<1>4. CASE \E j : Sits(e2, h2, W2, U2, b, j)
  <2>1. w \notin W2
    BY <1>3, <1>4
  <2>2. Moves(env, heap, Vars \ spent, U, e2, h2, W2, U2, Nil, w, b, k, c, i, {b})
    <3> HIDE DEF U2
    <3>1. ASSUME NEW d, NEW j, Sits(e2, h2, W2, U2, d, j)
          PROVE  LET y == ValueIn(e2, h2, d, j) IN
                 /\ Lands(e2, h2, U2, d, j)
                 /\ \/ /\ Sits(env, heap, Vars \ spent, U, d, j) /\ y = ValueIn(env, heap, d, j)
                       /\ ~(d = Nil /\ j = w) /\ y.p \notin {b}
                    \/ /\ d = b /\ j = k /\ y.p \notin {b}
                       /\ Sits(env, heap, Vars \ spent, U, Nil, w) /\ y = ValueIn(env, heap, Nil, w)
                    \/ d = c /\ j = i /\ y.p \in {b}
      <4>1. CASE d = b
        BY <1>3, <3>1, <4>1
      <4>2. CASE d # b
        BY <1>2, <2>1, <3>1, <4>2
      <4> QED
        BY <4>1, <4>2
    <3> QED
      BY <1>1, <3>1 DEF Moves
  <2> QED
    BY <2>2, Rewritten DEF Kept
<1>5. CASE ~ \E j : Sits(e2, h2, W2, U2, b, j)
  <2>1. Remains(env, heap, Vars \ spent, U, e2, h2, W2, U2, c, i, {b})
    <3> HIDE DEF U2
    <3> QED
      BY <1>1, <1>2, <1>5 DEF Remains
  <2> QED
    BY <2>1, Remained DEF Kept
<1> QED
  BY <1>4, <1>5

-------------------------------------------------------------------------------
(***************************************************************************)
(* The steps that clear a place and write there                              *)
(***************************************************************************)
LEMMA OntoBlocks ==
  ASSUME NEW h, h = [b \in Blocks |-> h[b]]
  PROVE  /\ Onto(NoBlock, h) = h
         /\ \A b \in Blocks : \A B : Onto(Single(b, B), h) = [d \in Blocks |-> IF d = b THEN B ELSE h[d]]
<1>1. DOMAIN NoBlock = {} /\ DOMAIN h = Blocks
  BY DEF NoBlock
<1>2. Onto(NoBlock, h) = [d \in Blocks |-> h[d]]
  BY <1>1 DEF Onto
<1>3. ASSUME NEW b \in Blocks, NEW B
      PROVE  Onto(Single(b, B), h) = [d \in Blocks |-> IF d = b THEN B ELSE h[d]]
  <2>1. PICK f : f = Single(b, B)
    OBVIOUS
  <2>2. DOMAIN f = {b} /\ f[b] = B
    BY <2>1 DEF Single
  <2>3. Onto(f, h) = [d \in Blocks |-> IF d = b THEN B ELSE h[d]]
    BY <1>1, <2>2 DEF Onto
  <2> QED
    BY <2>1, <2>3
<1> QED
  BY <1>2, <1>3

\* A step that clears the place c, i, with h the heap then, and writes x there.
Replacing(U, v, n, path, c, i, K, new, h, x, given) ==
  /\ Kept(U) /\ fault = "none"
  /\ v \in Vars \ spent /\ n \in Nat /\ path \in PathsTo(v, n)
  /\ c \in U \cup {Nil} /\ IsPlace(v, path, n, c, i)
  /\ K = Cleared(At(v, path)) /\ h = Onto(new, Without(K))
  /\ HeapOK(h) /\ \A d \in U \ K : h[d] = heap[d]
  /\ x \in Value /\ given \in SUBSET Vars /\ Replace(v, path, x, new, given)

LEMMA Replaced ==
  ASSUME NEW U, NEW v, NEW n, NEW path, NEW c, NEW i, NEW K, NEW new, NEW h, NEW x, NEW given,
         Replacing(U, v, n, path, c, i, K, new, h, x, given)
  PROVE  /\ K \in SUBSET U /\ c \in (U \ K) \cup {Nil}
         /\ OnlyAt(U, K, c, i)
         /\ spent' = spent \cup given /\ fault' = "none"
         /\ Typed(env', heap', spent', fault')
         /\ Wrote(c, i, x, env, h, env', heap')
         /\ Undisturbed(U, K, c, i, x, env', heap', Vars \ spent')
<1> USE DEF Replacing
<1>1. PICK old : old = At(v, path)
  OBVIOUS
<1>2. /\ K \in SUBSET U /\ c \notin K /\ Clearable(old)
      /\ OnlyAt(U, K, c, i)
  BY <1>1, ClearedInside
<1>3. Store(h, v, path, x) /\ spent' = spent \cup given /\ fault' = "none"
  BY <1>1, <1>2 DEF Replace
<1>4. c # Nil => h[c] = heap[c]
  BY <1>2
<1>5. env' \in [Vars -> Value] /\ HeapOK(heap') /\ Wrote(c, i, x, env, h, env', heap')
  BY <1>3, <1>4, StoreWrites
<1>6. spent' \in SUBSET Vars /\ Vars \ spent' \in SUBSET (Vars \ spent)
  BY <1>3, KeptHeap
<1>7. Typed(env', heap', spent', fault')
  BY <1>3, <1>5, <1>6 DEF Typed
<1>8. Undisturbed(U, K, c, i, x, env', heap', Vars \ spent')
  <2>1. c \in (U \ K) \cup {Nil}
    BY <1>2
  <2>2. PICK e2, h2, W2 : e2 = env' /\ h2 = heap' /\ W2 = Vars \ spent'
    OBVIOUS
  <2>3. HeapOK(h2) /\ Wrote(c, i, x, env, h, e2, h2) /\ W2 \in SUBSET (Vars \ spent)
    BY <1>5, <1>6, <2>2
  <2>4. Undisturbed(U, K, c, i, x, e2, h2, W2)
    BY <1>2, <2>1, <2>3, Elsewhere
  <2> QED
    BY <2>2, <2>4
<1> QED
  BY <1>2, <1>3, <1>5, <1>7, <1>8

LEMMA ClearStep ==
  ASSUME NEW U, Kept(U), fault = "none",
         NEW v \in Vars \ spent, NEW n \in Nat, NEW path \in PathsTo(v, n), clear(v, path)
  PROVE  IInv'
<1>1. PICK c \in U \cup {Nil} : \E i : IsPlace(v, path, n, c, i)
  BY PlaceExists
<1>2. PICK i : IsPlace(v, path, n, c, i)
  BY <1>1
<1>3. PICK K : K = Cleared(At(v, path))
  OBVIOUS
<1>4. PICK h : h = Without(K)
  OBVIOUS
<1>5. HeapOK(h) /\ (\A d \in U \ K : h[d] = heap[d]) /\ h = Onto(NoBlock, Without(K))
  <2>1. HeapOK(Without(K)) /\ \A d \in U \ K : Without(K)[d] = heap[d]
    BY KeptHeap, WithoutOK
  <2> QED
    BY <1>4, <2>1, OntoBlocks DEF HeapOK
<1>6. NullValue \in Value /\ ~IsPointer(NullValue)
  BY DEF NullValue, Value, IsPointer, Pointed
<1>7. Replace(v, path, NullValue, NoBlock, {}) /\ {} \in SUBSET Vars
  BY DEF clear
<1>10. Replacing(U, v, n, path, c, i, K, NoBlock, h, NullValue, {})
  BY <1>2, <1>3, <1>5, <1>6, <1>7 DEF Replacing
<1>8. /\ fault' = "none" /\ Typed(env', heap', spent', fault')
      /\ Undisturbed(U, K, c, i, NullValue, env', heap', Vars \ spent')
  BY <1>10, Replaced
<1>9. Sound(env', heap', Vars \ spent', U \ K)
  BY <1>6, <1>8, FilledPlain
<1> QED
  BY <1>8, <1>9, KeptHeap DEF IInv

LEMMA AssignStep ==
  ASSUME NEW U, Kept(U), fault = "none",
         NEW v \in Vars \ spent, NEW n \in Nat, NEW path \in PathsTo(v, n),
         NEW w \in Vars \ (spent \cup {v}), Assign(v, path, w)
  PROVE  IInv'
<1>1. PICK c \in U \cup {Nil} : \E i : IsPlace(v, path, n, c, i)
  BY PlaceExists
<1>2. PICK i : IsPlace(v, path, n, c, i)
  BY <1>1
<1>3. PICK K : K = Cleared(At(v, path))
  OBVIOUS
<1>4. PICK h : h = Without(K)
  OBVIOUS
<1>5. HeapOK(h) /\ (\A d \in U \ K : h[d] = heap[d]) /\ h = Onto(NoBlock, Without(K))
  <2>1. HeapOK(Without(K)) /\ \A d \in U \ K : Without(K)[d] = heap[d]
    BY KeptHeap, WithoutOK
  <2> QED
    BY <1>4, <2>1, OntoBlocks DEF HeapOK
<1>6. PICK x \in Value : x = env[w]
  BY KeptHeap
<1>7. Replace(v, path, x, NoBlock, {w})
  BY <1>6 DEF Assign
<1>8. {w} \in SUBSET Vars
  OBVIOUS
<1>13. Replacing(U, v, n, path, c, i, K, NoBlock, h, x, {w})
  BY <1>2, <1>3, <1>5, <1>7, <1>8 DEF Replacing
<1>9. /\ K \in SUBSET U /\ fault' = "none" /\ Typed(env', heap', spent', fault')
      /\ spent' = spent \cup {w}
      /\ OnlyAt(U, K, c, i)
      /\ Undisturbed(U, K, c, i, x, env', heap', Vars \ spent')
  BY <1>13, Replaced
<1>10. IsPointer(x) => x.p \notin K
  <2>1. ~(Nil = c /\ w = i)
    BY <1>2 DEF IsPlace
  <2>2. w \in HoldsIn(heap, Vars \ spent, Nil) /\ ValueIn(env, heap, Nil, w) = x
    BY <1>6 DEF HoldsIn, ValueIn
  <2> QED
    BY <1>9, <2>1, <2>2 DEF OnlyAt
<1>11. Vars \ spent' \in SUBSET ((Vars \ spent) \ {w})
  BY <1>9
<1>12. Sound(env', heap', Vars \ spent', U \ K)
  BY <1>6, <1>9, <1>10, <1>11, FilledGiven
<1> QED
  BY <1>9, <1>12, KeptHeap DEF IInv

\* A step that clears the place and gives it a pointer to a new block, where there may be
\* a value given away.
Allocating(U, v, n, path, b, B, x, given, k, w) ==
  /\ Kept(U) /\ fault = "none"
  /\ v \in Vars \ spent /\ n \in Nat /\ path \in PathsTo(v, n)
  /\ b \in Blocks /\ Without(Cleared(At(v, path)))[b] = Free
  /\ BlockOK(B) /\ B # Free /\ x \in Value /\ x.p = b /\ B.k = x.t
  /\ given \in SUBSET Vars /\ Replace(v, path, x, Single(b, B), given)
  /\ \A j \in Holds([d \in Blocks |-> B], b) : IsPointer(B.items[j]) =>
       j = k /\ B.items[j] = env[w] /\ w \in Vars \ (spent \cup {v}) /\ w \in given

LEMMA NewBlockStep ==
  ASSUME NEW U, NEW v, NEW n, NEW path, NEW b, NEW B, NEW x, NEW given, NEW k, NEW w,
         Allocating(U, v, n, path, b, B, x, given, k, w)
  PROVE  IInv'
<1> USE DEF Allocating
<1>1. PICK c \in U \cup {Nil} : \E i : IsPlace(v, path, n, c, i)
  BY PlaceExists
<1>2. PICK i : IsPlace(v, path, n, c, i)
  BY <1>1
<1>3. PICK K : K = Cleared(At(v, path))
  OBVIOUS
<1>4. PICK h : h = [d \in Blocks |-> IF d = b THEN B ELSE Without(K)[d]]
  OBVIOUS
<1>5. U \in SUBSET Blocks /\ Nil \notin Blocks /\ HeapOK(heap) /\ HeapOK(Without(K))
      /\ \A d \in Blocks : Without(K)[d] = IF d \in K THEN Free ELSE heap[d]
  BY KeptHeap, WithoutOK
<1>6. b \notin U \ K
  <2>1. SUFFICES ASSUME b \in U \ K PROVE FALSE
    OBVIOUS
  <2>2. heap[b] = Free
    BY <1>3, <1>5, <2>1
  <2> QED
    BY <2>1, <2>2 DEF Kept, Sound
<1>7. HeapOK(h) /\ (\A d \in U \ K : h[d] = heap[d]) /\ h = Onto(Single(b, B), Without(K))
  <2>1. h = Onto(Single(b, B), Without(K))
    BY <1>4, <1>5, OntoBlocks DEF HeapOK
  <2>2. \A d \in U \ K : h[d] = heap[d]
    BY <1>4, <1>5, <1>6
  <2>3. HeapOK(h)
    BY <1>4, <1>5 DEF HeapOK
  <2> QED
    BY <2>1, <2>2, <2>3
<1>8. Replacing(U, v, n, path, c, i, K, Single(b, B), h, x, given)
  BY <1>2, <1>3, <1>7 DEF Replacing
<1>9. /\ K \in SUBSET U /\ c \in (U \ K) \cup {Nil} /\ OnlyAt(U, K, c, i)
      /\ spent' = spent \cup given /\ fault' = "none" /\ Typed(env', heap', spent', fault')
      /\ Wrote(c, i, x, env, h, env', heap')
      /\ Undisturbed(U, K, c, i, x, env', heap', Vars \ spent')
  <2>1. K \in SUBSET U /\ c \in (U \ K) \cup {Nil} /\ OnlyAt(U, K, c, i)
    BY <1>8, Replaced
  <2>2. spent' = spent \cup given /\ fault' = "none" /\ Typed(env', heap', spent', fault')
    BY <1>8, Replaced
  <2>3. Wrote(c, i, x, env, h, env', heap')
    BY <1>8, Replaced
  <2>4. Undisturbed(U, K, c, i, x, env', heap', Vars \ spent')
    <3> HIDE DEF Allocating
    <3> QED
      BY <1>8, Replaced, SMTT(30)
  <2> QED
    BY <2>1, <2>2, <2>3, <2>4
<1>10. heap'[b] # Free /\ heap'[b].k = x.t
  <2>1. heap'[b].k = B.k
    BY <1>4, <1>9 DEF Wrote
  <2>2. B.k # "free"
    BY Kinds
  <2> QED
    BY <2>1, <2>2, FreeOK
<1>11. ASSUME NEW j \in Holds(heap', b), IsPointer(heap'[b].items[j])
       PROVE  j = k /\ heap'[b].items[j] = env[w] /\ w \in (Vars \ spent) \ (Vars \ spent')
              /\ env[w].p \notin K
  <2>1. j \in Holds(h, b) /\ h[b] = B
    BY <1>4, <1>9 DEF Wrote
  <2>2. j \in Holds([d \in Blocks |-> B], b)
    BY <2>1 DEF Holds
  <2>3. heap'[b].items[j] = B.items[j]
    <3>1. b # c /\ b # Nil /\ j \in HoldsIn(h, Vars, b)
      BY <1>5, <1>6, <1>9, <2>1 DEF HoldsIn
    <3>2. ValueIn(env', heap', b, j) = ValueIn(env, h, b, j)
      BY <1>9, <3>1 DEF Wrote
    <3> QED
      BY <2>1, <3>1, <3>2 DEF ValueIn
  <2>4. j = k /\ B.items[j] = env[w] /\ w \in Vars \ (spent \cup {v}) /\ w \in given
    BY <1>11, <2>2, <2>3
  <2>5. env[w].p \notin K
    <3>1. ~(Nil = c /\ w = i)
      BY <1>2, <2>4 DEF IsPlace
    <3>2. w \in HoldsIn(heap, Vars \ spent, Nil) /\ ValueIn(env, heap, Nil, w) = env[w]
          /\ IsPointer(env[w])
      BY <1>11, <2>3, <2>4 DEF HoldsIn, ValueIn
    <3> QED
      BY <1>9, <3>1, <3>2 DEF OnlyAt
  <2> QED
    BY <1>9, <2>3, <2>4, <2>5
<1>12. NewAt(U, K, c, i, x, env', heap', Vars \ spent', b, k, w)
  <2>1. Vars \ spent' \in SUBSET (Vars \ spent)
    BY <1>9
  <2> QED
    BY <1>6, <1>9, <1>10, <1>11, <2>1 DEF NewAt
<1>13. Sound(env', heap', Vars \ spent', (U \ K) \cup {b})
  BY <1>9, <1>12, FilledNew
<1> QED
  BY <1>5, <1>9, <1>13 DEF IInv

-------------------------------------------------------------------------------
(***************************************************************************)
(* The steps that write without a clear                                      *)
(***************************************************************************)
\* h is the heap with blocks added; x is stored at the place c, i.
Storing(U, v, n, path, c, i, h, x) ==
  /\ Kept(U) /\ fault = "none"
  /\ v \in Vars \ spent /\ n \in Nat /\ path \in PathsTo(v, n)
  /\ c \in U \cup {Nil} /\ IsPlace(v, path, n, c, i)
  /\ HeapOK(h) /\ \A d \in U : h[d] = heap[d]
  /\ x \in Value /\ Store(h, v, path, x)
  /\ spent' \in SUBSET Vars /\ spent \subseteq spent' /\ fault' = fault

LEMMA Stored ==
  ASSUME NEW U, NEW v, NEW n, NEW path, NEW c, NEW i, NEW h, NEW x,
         Storing(U, v, n, path, c, i, h, x)
  PROVE  /\ Typed(env', heap', spent', fault') /\ fault' = "none"
         /\ Wrote(c, i, x, env, h, env', heap')
         /\ Undisturbed(U, {}, c, i, x, env', heap', Vars \ spent')
<1>1. /\ Kept(U) /\ fault = "none"
      /\ v \in Vars \ spent /\ n \in Nat /\ path \in PathsTo(v, n)
      /\ c \in U \cup {Nil} /\ IsPlace(v, path, n, c, i)
      /\ HeapOK(h) /\ \A d \in U : h[d] = heap[d]
      /\ x \in Value /\ Store(h, v, path, x)
      /\ spent' \in SUBSET Vars /\ spent \subseteq spent' /\ fault' = fault
  BY DEF Storing
<1>2. env' \in [Vars -> Value] /\ HeapOK(heap') /\ Wrote(c, i, x, env, h, env', heap')
  BY <1>1, StoreWrites
<1>3. Typed(env', heap', spent', fault') /\ fault' = "none"
  BY <1>1, <1>2 DEF Typed
<1>4. PICK e2, h2, W2 : e2 = env' /\ h2 = heap' /\ W2 = Vars \ spent'
  OBVIOUS
<1>5. HeapOK(h2) /\ Wrote(c, i, x, env, h, e2, h2) /\ W2 \in SUBSET (Vars \ spent)
  BY <1>1, <1>2, <1>4
<1>6. OnlyAt(U, {}, c, i) /\ {} \in SUBSET U /\ c \in (U \ {}) \cup {Nil}
      /\ \A d \in U \ {} : h[d] = heap[d]
  BY <1>1 DEF OnlyAt
<1>7. Undisturbed(U, {}, c, i, x, e2, h2, W2)
  BY <1>1, <1>5, <1>6, Elsewhere
<1> QED
  BY <1>2, <1>3, <1>4, <1>7

\* The place gets a pointer to a new block, which points nowhere.
LEMMA FreshStep ==
  ASSUME NEW U, Kept(U), fault = "none",
         NEW v \in Vars \ spent, NEW n \in Nat, NEW path \in PathsTo(v, n),
         NEW b \in Blocks, heap[b] = Free,
         NEW B, BlockOK(B), B # Free, NEW x \in Value, x.p = b, B.k = x.t,
         Holds([d \in Blocks |-> B], b) = {},
         Store([heap EXCEPT ![b] = B], v, path, x), UNCHANGED <<spent, fault>>
  PROVE  IInv'
<1>1. PICK c \in U \cup {Nil} : \E i : IsPlace(v, path, n, c, i)
  BY PlaceExists
<1>2. PICK i : IsPlace(v, path, n, c, i)
  BY <1>1
<1>3. PICK h : h = [heap EXCEPT ![b] = B]
  OBVIOUS
<1>4. U \in SUBSET Blocks /\ Nil \notin Blocks /\ HeapOK(heap) /\ spent \in SUBSET Vars
  BY KeptHeap
<1>5. b \notin U
  BY DEF Kept, Sound
<1>6. HeapOK(h) /\ h[b] = B /\ \A d \in U : h[d] = heap[d]
  <2>1. DOMAIN heap = Blocks
    BY <1>4 DEF HeapOK
  <2>2. h = [d \in Blocks |-> h[d]] /\ h[b] = B /\ \A d \in Blocks : d # b => h[d] = heap[d]
    BY <1>3, <2>1
  <2>3. HeapOK(h)
    BY <1>4, <2>2 DEF HeapOK
  <2> QED
    BY <1>4, <1>5, <2>2, <2>3
<1>7. Storing(U, v, n, path, c, i, h, x)
  BY <1>2, <1>3, <1>4, <1>6 DEF Storing
<1>8. Typed(env', heap', spent', fault') /\ fault' = "none"
  BY <1>7, Stored
<1>9. Wrote(c, i, x, env, h, env', heap')
  BY <1>7, Stored
<1>10. Undisturbed(U, {}, c, i, x, env', heap', Vars \ spent')
  BY <1>7, Stored
<1>11. heap'[b] # Free /\ heap'[b].k = x.t /\ Holds(heap', b) = {}
  <2>1. heap'[b].k = B.k /\ Holds(heap', b) = Holds(h, b)
    BY <1>6, <1>9 DEF Wrote
  <2>2. B.k # "free"
    BY Kinds
  <2>3. Holds(h, b) = {}
    BY <1>6 DEF Holds
  <2> QED
    BY <2>1, <2>2, <2>3, FreeOK
<1>12. NewAt(U, {}, c, i, x, env', heap', Vars \ spent', b, Nil, Nil)
  <2>1. Vars \ spent' \in SUBSET (Vars \ spent) /\ b \in Blocks \ (U \ {})
    BY <1>5
  <2> QED
    BY <1>10, <1>11, <2>1 DEF NewAt
<1>13. Sound(env', heap', Vars \ spent', (U \ {}) \cup {b})
  <2>1. {} \in SUBSET U
    OBVIOUS
  <2> QED
    BY <1>12, <2>1, FilledNew
<1>14. (U \ {}) \cup {b} \in SUBSET Blocks
  BY <1>4
<1> QED
  BY <1>8, <1>13, <1>14 DEF IInv

LEMMA EmptyOK ==
  ASSUME NEW t \in {"array", "object"}, NEW b \in Blocks
  PROVE  /\ BlockOK(Filled(t, <<>>)) /\ Filled(t, <<>>) # Free /\ Filled(t, <<>>).k = t
         /\ Holds([d \in Blocks |-> Filled(t, <<>>)], b) = {}
         /\ Pointer(t, b) \in Value /\ Pointer(t, b).p = b /\ Pointer(t, b).t = t
<1>1. PICK s : s = <<>>
  OBVIOUS
<1>2. PICK B : B = [k |-> t, items |-> s]
  OBVIOUS
<1>3. B = Filled(t, <<>>) /\ B.k = t /\ B.items = s
  BY <1>1, <1>2 DEF Filled
<1>4. s \in Seq(Value) /\ Len(s) = 0 /\ DOMAIN s = {} /\ s \in [DOMAIN s -> Value]
  BY <1>1
<1>5. 0 <= MaxLen
  BY JsonHeapAssumption
<1>6. B = Filled(B.k, B.items)
  BY <1>1, <1>3
<1>7. BlockOK(B)
  BY <1>3, <1>4, <1>5, <1>6 DEF BlockOK, ArrayOK, ObjectOK
<1>8. B # Free
  BY <1>3 DEF Free
<1>9. Holds([d \in Blocks |-> B], b) = {}
  BY <1>3, <1>4 DEF Holds
<1>10. Pointer(t, b) \in Value /\ Pointer(t, b).p = b /\ Pointer(t, b).t = t
  BY DEF Pointer, Value, Pointed
<1> QED
  BY <1>3, <1>7, <1>8, <1>9, <1>10

LEMMA ElementStep ==
  ASSUME NEW U, Kept(U), fault = "none",
         NEW v \in Vars \ spent, NEW n \in Nat, NEW path \in PathsTo(v, n), Element(v, path)
  PROVE  IInv'
<1>1. PICK b \in Blocks :
        /\ heap[b] = Free
        /\ Store([heap EXCEPT ![b] = Filled("array", <<>>)], v, path, Pointer("array", b))
  BY DEF Element
<1>2. UNCHANGED <<spent, fault>>
  BY DEF Element
<1>3. PICK B : B = Filled("array", <<>>)
  OBVIOUS
<1>4. PICK x : x = Pointer("array", b)
  OBVIOUS
<1>5. BlockOK(B) /\ B # Free /\ x \in Value /\ x.p = b /\ B.k = x.t
      /\ Holds([d \in Blocks |-> B], b) = {}
  BY <1>3, <1>4, EmptyOK
<1>6. Store([heap EXCEPT ![b] = B], v, path, x)
  BY <1>1, <1>3, <1>4
<1> QED
  BY <1>1, <1>2, <1>5, <1>6, FreshStep

LEMMA DeclareStep ==
  ASSUME NEW U, Kept(U), fault = "none", NEW v \in Vars \ spent, Declare(v)
  PROVE  IInv'
<1>1. <<>> \in PathsTo(v, 0)
  BY PathsGrow
<1>2. UNCHANGED <<spent, fault>>
  BY DEF Declare
<1>3. CASE \E a \in Atoms : env' = [env EXCEPT ![v] = [t |-> "scalar", atom |-> a]]
                            /\ UNCHANGED heap
  <2>1. PICK a \in Atoms : env' = [env EXCEPT ![v] = [t |-> "scalar", atom |-> a]]
                           /\ UNCHANGED heap
    BY <1>3
  <2>2. PICK x : x = [t |-> "scalar", atom |-> a]
    OBVIOUS
  <2>3. x \in Value /\ ~IsPointer(x)
    BY <2>2 DEF Value, IsPointer, Pointed
  <2>4. Store(heap, v, <<>>, x)
    BY <2>1, <2>2 DEF Store
  <2>5. IsPlace(v, <<>>, 0, Nil, v)
    BY AtRoot DEF IsPlace, HoldsIn, ValueIn
  <2>6. HeapOK(heap) /\ spent \in SUBSET Vars /\ U \in SUBSET Blocks
    BY KeptHeap
  <2>7. Storing(U, v, 0, <<>>, Nil, v, heap, x)
    BY <1>1, <1>2, <2>3, <2>4, <2>5, <2>6 DEF Storing
  <2>8. Typed(env', heap', spent', fault') /\ fault' = "none"
    BY <2>7, Stored
  <2>9. Undisturbed(U, {}, Nil, v, x, env', heap', Vars \ spent')
    BY <2>7, Stored
  <2>10. Sound(env', heap', Vars \ spent', U \ {})
    BY <2>3, <2>9, FilledPlain
  <2>11. U \ {} \in SUBSET Blocks
    BY <2>6
  <2> QED
    BY <2>8, <2>10, <2>11 DEF IInv
<1>4. CASE \E b \in Blocks, a \in Atoms :
             /\ heap[b] = Free /\ heap' = [heap EXCEPT ![b] = [k |-> "string", atom |-> a]]
             /\ env' = [env EXCEPT ![v] = Pointer("string", b)]
  <2>1. PICK b \in Blocks, a \in Atoms :
          /\ heap[b] = Free /\ heap' = [heap EXCEPT ![b] = [k |-> "string", atom |-> a]]
          /\ env' = [env EXCEPT ![v] = Pointer("string", b)]
    BY <1>4
  <2>2. PICK B : B = [k |-> "string", atom |-> a]
    OBVIOUS
  <2>3. PICK x : x = Pointer("string", b)
    OBVIOUS
  <2>4. BlockOK(B) /\ B # Free /\ B.k = "string"
    BY <2>2 DEF BlockOK, StringOK, Free
  <2>5. x \in Value /\ x.p = b /\ x.t = "string"
    BY <2>3 DEF Pointer, Value, Pointed
  <2>6. Holds([d \in Blocks |-> B], b) = {}
    BY <2>4 DEF Holds
  <2>7. Store([heap EXCEPT ![b] = B], v, <<>>, x)
    BY <2>1, <2>2, <2>3 DEF Store
  <2> QED
    BY <1>1, <1>2, <2>1, <2>4, <2>5, <2>6, <2>7, FreshStep
<1>5. CASE \E b \in Blocks, t \in {"array", "object"} :
             /\ heap[b] = Free /\ heap' = [heap EXCEPT ![b] = Filled(t, <<>>)]
             /\ env' = [env EXCEPT ![v] = Pointer(t, b)]
  <2>1. PICK b \in Blocks, t \in {"array", "object"} :
          /\ heap[b] = Free /\ heap' = [heap EXCEPT ![b] = Filled(t, <<>>)]
          /\ env' = [env EXCEPT ![v] = Pointer(t, b)]
    BY <1>5
  <2>2. PICK B : B = Filled(t, <<>>)
    OBVIOUS
  <2>3. PICK x : x = Pointer(t, b)
    OBVIOUS
  <2>4. BlockOK(B) /\ B # Free /\ x \in Value /\ x.p = b /\ B.k = x.t
        /\ Holds([d \in Blocks |-> B], b) = {}
    BY <2>2, <2>3, EmptyOK
  <2>5. Store([heap EXCEPT ![b] = B], v, <<>>, x)
    BY <2>1, <2>2, <2>3 DEF Store
  <2> QED
    BY <1>1, <1>2, <2>1, <2>4, <2>5, FreshStep
<1> QED
  BY <1>3, <1>4, <1>5 DEF Declare

LEMMA CrashStep ==
  ASSUME Crash("wild_delete")
  PROVE  IInv'
<1>1. env' = [v \in Vars |-> NullValue] /\ heap' = [b \in Blocks |-> Free]
      /\ spent' = {} /\ fault' = "wild_delete"
  BY DEF Crash
<1>2. NullValue \in Value /\ ~IsPointer(NullValue)
  BY DEF NullValue, Value, IsPointer, Pointed
<1>3. Typed(env', heap', spent', fault')
  BY <1>1, <1>2, FreeOK DEF Typed, HeapOK
<1>4. Sound(env', heap', Vars \ spent', {})
  BY <1>1, <1>2 DEF Sound, HoldsIn, ValueIn
<1> QED
  BY <1>1, <1>3, <1>4 DEF IInv

LEMMA CopyStep ==
  ASSUME NEW U, Kept(U), fault = "none",
         NEW v \in Vars \ spent, NEW w \in Vars \ (spent \cup {v}), CopyConstruct(v, w)
  PROVE  IInv'
<1>1. CASE WildDelete({env[w]})
  BY <1>1, CrashStep DEF WildDelete
<1>2. CASE /\ env' = [env EXCEPT ![v] = env[w]] /\ spent' = spent \cup {w}
           /\ UNCHANGED <<heap, fault>>
  <2>1. <<>> \in PathsTo(v, 0)
    BY PathsGrow
  <2>2. HeapOK(heap) /\ spent \in SUBSET Vars /\ U \in SUBSET Blocks /\ Nil \notin Blocks
        /\ env \in [Vars -> Value]
    BY KeptHeap
  <2>3. PICK x \in Value : x = env[w]
    BY <2>2
  <2>4. Store(heap, v, <<>>, x)
    BY <1>2, <2>3 DEF Store
  <2>5. IsPlace(v, <<>>, 0, Nil, v)
    BY AtRoot DEF IsPlace, HoldsIn, ValueIn
  <2>6. Storing(U, v, 0, <<>>, Nil, v, heap, x)
    BY <1>2, <2>1, <2>2, <2>4, <2>5 DEF Storing
  <2>7. Typed(env', heap', spent', fault') /\ fault' = "none"
    BY <2>6, Stored
  <2>8. Undisturbed(U, {}, Nil, v, x, env', heap', Vars \ spent')
    BY <2>6, Stored
  <2>9. Vars \ spent' \in SUBSET ((Vars \ spent) \ {w}) /\ {} \in SUBSET U /\ x.p \notin {}
    BY <1>2
  <2>10. Sound(env', heap', Vars \ spent', U \ {})
    BY <2>3, <2>8, <2>9, FilledGiven
  <2>11. U \ {} \in SUBSET Blocks
    BY <2>2
  <2> QED
    BY <2>7, <2>10, <2>11 DEF IInv
<1> QED
  BY <1>1, <1>2 DEF CopyConstruct

-------------------------------------------------------------------------------
(***************************************************************************)
(* The steps of values that have been given away                             *)
(***************************************************************************)
LEMMA EndScopeStep ==
  ASSUME NEW U, Kept(U), fault = "none", NEW v \in spent, EndScope(v)
  PROVE  IInv'
<1>1. HeapOK(heap) /\ env \in [Vars -> Value] /\ spent \in SUBSET Vars
      /\ U \in SUBSET Blocks /\ Nil \notin Blocks
  BY KeptHeap
<1>2. /\ env' = [env EXCEPT ![v] = NullValue] /\ spent' = spent \ {v}
      /\ heap' = heap /\ fault' = fault
  BY DEF EndScope
<1>3. NullValue \in Value /\ ~IsPointer(NullValue)
  BY DEF NullValue, Value, IsPointer, Pointed
<1>4. Typed(env', heap', spent', fault')
  BY <1>1, <1>2, <1>3 DEF Typed
<1>5. ASSUME NEW d, NEW j, Sits(env', heap', Vars \ spent', U, d, j)
      PROVE  /\ Sits(env, heap, Vars \ spent, U, d, j)
             /\ ValueIn(env', heap', d, j) = ValueIn(env, heap, d, j)
  <2>1. CASE d = Nil
    <3>1. j \in Vars \ spent' /\ IsPointer(env'[j])
      BY <1>5, <2>1 DEF Sits, HoldsIn, ValueIn
    <3>2. j # v /\ env'[j] = env[j]
      BY <1>1, <1>2, <1>3, <3>1
    <3> QED
      BY <1>2, <2>1, <3>1, <3>2 DEF Sits, HoldsIn, ValueIn
  <2>2. CASE d # Nil
    BY <1>2, <1>5, <2>2 DEF Sits, HoldsIn, ValueIn
  <2> QED
    BY <2>1, <2>2
<1>6. Remains(env, heap, Vars \ spent, U, env', heap', Vars \ spent', U, Nil, Nil, {})
  <2>1. \A b \in U : b \in Blocks /\ heap'[b] # Free
    BY <1>2 DEF Kept, Sound
  <2>2. ASSUME NEW d, NEW j, Sits(env', heap', Vars \ spent', U, d, j)
        PROVE  Lands(env', heap', U, d, j)
    <3>1. ValueIn(env, heap, d, j).p \in U
          /\ heap[ValueIn(env, heap, d, j).p].k = ValueIn(env, heap, d, j).t
      BY <1>5, <2>2, SoundSits DEF Kept
    <3>2. ValueIn(env', heap', d, j) = ValueIn(env, heap, d, j)
      BY <1>5, <2>2
    <3> QED
      BY <1>2, <3>1, <3>2 DEF Lands
  <2> QED
    BY <1>5, <2>1, <2>2 DEF Remains
<1>7. Sound(env', heap', Vars \ spent', U)
  <2>1. Sound(env, heap, Vars \ spent, U)
    BY DEF Kept
  <2> QED
    BY <1>6, <2>1, Remained
<1> QED
  BY <1>1, <1>2, <1>4, <1>7 DEF IInv

LEMMA PlaceOfPath ==
  ASSUME NEW v \in Vars \ spent, NEW p \in PathsTo(v, Cardinality(Blocks)), NEW b,
         IsPointer(At(v, p)), At(v, p).p = b
  PROVE  \E x \in Places : Leads(x, b)
<1>1. PICK x : x = <<v, p>>
  OBVIOUS
<1>2. x \in Places
  BY <1>1 DEF Places
<1>3. Leads(x, b)
  BY <1>1 DEF Leads
<1> QED
  BY <1>2, <1>3

\* From a block that a value in use leads to, its items lead on.
LEMMA PlaceOfItem ==
  ASSUME NEW U, Kept(U), NEW x \in Places, NEW c, Leads(x, c), NEW i \in Holds(heap, c), NEW b,
         IsPointer(heap[c].items[i]), heap[c].items[i].p = b
  PROVE  \E y \in Places : Leads(y, b)
<1>1. PICK v \in Vars \ spent : \E p \in PathsTo(v, Cardinality(Blocks)) : x[1] = v /\ x[2] = p
  BY DEF Places
<1>2. PICK p \in PathsTo(v, Cardinality(Blocks)) : x[1] = v /\ x[2] = p
  BY <1>1
<1>3. IsPointer(At(v, p)) /\ At(v, p).p = c
  BY <1>2 DEF Leads
<1>4. Cardinality(Blocks) \in Nat
  BY FS_CardinalityType, JsonHeapAssumption
<1>5. p \in Seq(Steps) /\ Len(p) \in Nat /\ c \in Blocks
  BY <1>3, <1>4, PathKept
<1>6. Len(p) + 1 <= Cardinality(Blocks)
  BY <1>3, <1>4, PathShort
<1>7. PICK m \in Nat : m + 1 = Cardinality(Blocks)
  <2>1. Cardinality(Blocks) - 1 \in Nat /\ (Cardinality(Blocks) - 1) + 1 = Cardinality(Blocks)
    BY <1>4, <1>5, <1>6
  <2> QED
    BY <2>1
<1>8. p \in PathsTo(v, m)
  <2>1. Len(p) <= m
    BY <1>5, <1>6, <1>7
  <2> QED
    BY <1>4, <2>1, PathsByLength
<1>9. i \in Onward(v, p) /\ i \in Steps
  BY <1>3, <1>5, ItemsTyped DEF Onward, Kept
<1>10. PICK q : q = Append(p, i)
  OBVIOUS
<1>11. q \in PathsTo(v, m + 1)
  <2>1. Extends(v, PathsTo(v, m), q)
    BY <1>8, <1>9, <1>10, Zenon DEF Extends
  <2> QED
    BY <2>1, PathsNext
<1>12. At(v, q) = heap[c].items[i]
  BY <1>3, <1>5, <1>9, <1>10, AtAppend
<1> QED
  BY <1>7, <1>11, <1>12, PlaceOfPath

LEMMA ForsakenStep ==
  ASSUME NEW U, Kept(U), fault = "none", NEW v \in spent, Forsaken(v), clear(v, <<>>)
  PROVE  IInv'
<1> DEFINE K == Cleared(env[v])
           U2 == {b \in Blocks : \E x \in Places : Leads(x, b)}
<1>1. HeapOK(heap) /\ env \in [Vars -> Value] /\ spent \in SUBSET Vars
      /\ U \in SUBSET Blocks /\ Nil \notin Blocks /\ Cardinality(Blocks) \in Nat
  BY KeptHeap, FS_CardinalityType, JsonHeapAssumption
<1>2. HeapOK(Without(K)) /\ \A d \in Blocks : Without(K)[d] = IF d \in K THEN Free ELSE heap[d]
  BY <1>1, WithoutOK
<1>3. /\ env' = [env EXCEPT ![v] = NullValue] /\ heap' = Without(K)
      /\ spent' = spent /\ fault' = fault
  <2>1. At(v, <<>>) = env[v]
    BY AtRoot
  <2>2. Replace(v, <<>>, NullValue, NoBlock, {}) /\ Clearable(env[v])
    BY DEF clear, Forsaken
  <2>3. Store(Onto(NoBlock, Without(K)), v, <<>>, NullValue) /\ spent' = spent /\ fault' = fault
    BY <2>1, <2>2 DEF Replace
  <2>4. Onto(NoBlock, Without(K)) = Without(K)
    BY <1>2, OntoBlocks DEF HeapOK
  <2> QED
    BY <2>3, <2>4 DEF Store
<1>4. NullValue \in Value /\ ~IsPointer(NullValue)
  BY DEF NullValue, Value, IsPointer, Pointed
<1>5. Typed(env', heap', spent', fault')
  BY <1>1, <1>2, <1>3, <1>4 DEF Typed
<1>6. \A b \in U2 : b \notin K
  BY DEF Forsaken
<1>7. \A b \in U2 : b \in U
  <2>1. SUFFICES ASSUME NEW b, NEW x \in Places, Leads(x, b) PROVE b \in U
    OBVIOUS
  <2>2. PICK w \in Vars \ spent : \E p \in PathsTo(w, Cardinality(Blocks)) : x[1] = w /\ x[2] = p
    BY DEF Places
  <2>3. PICK p \in PathsTo(w, Cardinality(Blocks)) : x[1] = w /\ x[2] = p
    BY <2>2
  <2> QED
    BY <1>1, <2>1, <2>3, PathKept DEF Leads
<1>8. ASSUME NEW d, NEW j, Sits(env', heap', Vars \ spent', U2, d, j)
      PROVE  /\ Sits(env, heap, Vars \ spent, U, d, j)
             /\ ValueIn(env', heap', d, j) = ValueIn(env, heap, d, j)
             /\ ValueIn(env, heap, d, j).p \in U2
  <2>1. CASE d = Nil
    <3>1. j \in Vars \ spent /\ IsPointer(env'[j]) /\ env'[j] = env[j]
      BY <1>1, <1>3, <1>8, <2>1 DEF Sits, HoldsIn, ValueIn
    <3>2. Sits(env, heap, Vars \ spent, U, d, j)
          /\ ValueIn(env', heap', d, j) = env[j] /\ ValueIn(env, heap, d, j) = env[j]
      BY <2>1, <3>1 DEF Sits, HoldsIn, ValueIn
    <3>3. PICK b : b = env[j].p
      OBVIOUS
    <3>4. b \in Blocks
      BY <1>1, <3>2, <3>3, SoundSits DEF Kept
    <3>5. \E x \in Places : Leads(x, b)
      BY <1>1, <3>1, <3>3, AtRoot, PathsGrow, PlaceOfPath
    <3> QED
      BY <3>2, <3>3, <3>4, <3>5
  <2>2. CASE d # Nil
    <3>1. d \in U2 /\ j \in Holds(heap', d) /\ IsPointer(heap'[d].items[j])
      BY <1>8, <2>2 DEF Sits, HoldsIn, ValueIn
    <3>2. heap'[d] = heap[d] /\ d \in U
      BY <1>2, <1>3, <1>6, <1>7, <3>1
    <3>3. j \in Holds(heap, d) /\ IsPointer(heap[d].items[j])
      BY <3>1, <3>2 DEF Holds
    <3>4. Sits(env, heap, Vars \ spent, U, d, j)
          /\ ValueIn(env', heap', d, j) = heap[d].items[j]
          /\ ValueIn(env, heap, d, j) = heap[d].items[j]
      BY <2>2, <3>2, <3>3 DEF Sits, HoldsIn, ValueIn
    <3>5. PICK b : b = heap[d].items[j].p
      OBVIOUS
    <3>6. b \in Blocks
      BY <1>1, <3>4, <3>5, SoundSits DEF Kept
    <3>7. PICK x \in Places : Leads(x, d)
      BY <3>1
    <3>8. \E y \in Places : Leads(y, b)
      BY <3>3, <3>5, <3>7, PlaceOfItem
    <3> QED
      BY <3>4, <3>5, <3>6, <3>8
  <2> QED
    BY <2>1, <2>2
<1> HIDE DEF U2
<1>9. \A b \in U2 : b \in Blocks /\ heap'[b] # Free /\ heap'[b] = heap[b]
  BY <1>1, <1>2, <1>3, <1>6, <1>7 DEF Kept, Sound
<1>10. ASSUME NEW d, NEW j, Sits(env', heap', Vars \ spent', U2, d, j)
       PROVE  Lands(env', heap', U2, d, j)
  <2>1. heap[ValueIn(env, heap, d, j).p].k = ValueIn(env, heap, d, j).t
    BY <1>8, <1>10, SoundSits DEF Kept
  <2> QED
    BY <1>8, <1>9, <1>10, <2>1 DEF Lands
<1>11. Remains(env, heap, Vars \ spent, U, env', heap', Vars \ spent', U2, Nil, Nil, {})
  BY <1>8, <1>9, <1>10 DEF Remains
<1>12. Sound(env', heap', Vars \ spent', U2)
  <2>1. Sound(env, heap, Vars \ spent, U)
    BY DEF Kept
  <2> QED
    BY <1>11, <2>1, Remained
<1>13. U2 \in SUBSET Blocks
  BY <1>9
<1> QED
  BY <1>3, <1>5, <1>12, <1>13 DEF IInv

-------------------------------------------------------------------------------
(***************************************************************************)
(* The steps that change the items of a block                                *)
(***************************************************************************)
\* Block b becomes B, and the blocks of K are deleted; at most one value of b is new,
\* at b, qi: it comes from the place gc, gi, which is gone.
Editing(U, K, b, i, B, gc, gi, qi) ==
  /\ Kept(U) /\ fault = "none" /\ K \in SUBSET U /\ b \in U \ K /\ OnlyAt(U, K, b, i)
  /\ env' = env /\ fault' = fault /\ spent \subseteq spent' /\ spent' \in SUBSET Vars
  /\ HeapOK(heap') /\ heap'[b] = B /\ \A d \in U \ K : d # b => heap'[d] = heap[d]
  /\ B.k = heap[b].k
  /\ gc = b \/ (gc = Nil /\ gi \notin Vars \ spent')
  /\ \A j \in Holds(heap', b) : IsPointer(B.items[j]) => B.items[j].p \notin K
  /\ \A j \in Holds(heap', b) : IsPointer(B.items[j]) =>
       \/ j \in Holds(heap, b) /\ B.items[j] = heap[b].items[j] /\ ~(b = gc /\ j = gi)
       \/ j = qi /\ Sits(env, heap, Vars \ spent, U, gc, gi) /\ B.items[j] = ValueIn(env, heap, gc, gi)

LEMMA Edited ==
  ASSUME NEW U, NEW K, NEW b, NEW i, NEW B, NEW gc, NEW gi, NEW qi,
         Editing(U, K, b, i, B, gc, gi, qi)
  PROVE  IInv'
<1>1. /\ Kept(U) /\ fault = "none" /\ K \in SUBSET U /\ b \in U \ K /\ OnlyAt(U, K, b, i)
      /\ env' = env /\ fault' = fault /\ spent \subseteq spent' /\ spent' \in SUBSET Vars
      /\ HeapOK(heap') /\ heap'[b] = B /\ B.k = heap[b].k
      /\ \A d \in U \ K : d # b => heap'[d] = heap[d]
  BY DEF Editing
<1>2. gc = b \/ (gc = Nil /\ gi \notin Vars \ spent')
  BY DEF Editing
<1>3. /\ env \in [Vars -> Value] /\ HeapOK(heap) /\ U \in SUBSET Blocks /\ Nil \notin Blocks
      /\ spent \in SUBSET Vars
  BY <1>1, KeptHeap
<1>4. Typed(env', heap', spent', fault')
  BY <1>1, <1>3 DEF Typed
<1>5. \A d \in U \ K : d \in Blocks /\ heap'[d] # Free /\ heap'[d].k = heap[d].k
  <2>1. ASSUME NEW d \in U \ K PROVE heap[d] # Free /\ heap[d].k # "free"
    <3>1. heap[d] # Free
      BY <1>1 DEF Kept, Sound
    <3> QED
      BY <1>3, <3>1, Kinds DEF HeapOK
  <2> QED
    BY <1>1, <1>3, <2>1, FreeOK
<1>6. ASSUME NEW d, NEW j, Sits(env', heap', Vars \ spent', U \ K, d, j), d # b
      PROVE  /\ Sits(env, heap, Vars \ spent, U, d, j) /\ ~(d = gc /\ j = gi)
             /\ ValueIn(env', heap', d, j) = ValueIn(env, heap, d, j)
             /\ ValueIn(env', heap', d, j).p \notin K
  <2>1. CASE d = Nil
    <3>1. j \in Vars \ spent' /\ j \in Vars \ spent /\ IsPointer(env[j])
      BY <1>1, <1>6, <2>1 DEF Sits, HoldsIn, ValueIn
    <3>2. Sits(env, heap, Vars \ spent, U, d, j)
          /\ ValueIn(env', heap', d, j) = ValueIn(env, heap, d, j)
      BY <1>1, <2>1, <3>1 DEF Sits, HoldsIn, ValueIn
    <3>3. ValueIn(env, heap, d, j).p \notin K
      BY <1>1, <1>6, <2>1, <3>2 DEF OnlyAt, Sits
    <3> QED
      BY <1>2, <1>3, <1>1, <2>1, <3>1, <3>2, <3>3
  <2>2. CASE d # Nil
    <3>1. d \in U \ K /\ heap'[d] = heap[d]
      BY <1>1, <1>6, <2>2 DEF Sits
    <3>2. Sits(env, heap, Vars \ spent, U, d, j)
          /\ ValueIn(env', heap', d, j) = ValueIn(env, heap, d, j)
      BY <1>6, <2>2, <3>1 DEF Sits, HoldsIn, ValueIn, Holds
    <3>3. ValueIn(env, heap, d, j).p \notin K
      BY <1>1, <1>6, <3>1, <3>2 DEF OnlyAt, Sits
    <3> QED
      BY <1>2, <1>6, <2>2, <3>2, <3>3
  <2> QED
    BY <2>1, <2>2
<1>7. ASSUME NEW j, Sits(env', heap', Vars \ spent', U \ K, b, j)
      PROVE  /\ ValueIn(env', heap', b, j).p \notin K
             /\ \/ /\ Sits(env, heap, Vars \ spent, U, b, j) /\ ~(b = gc /\ j = gi)
                   /\ ValueIn(env', heap', b, j) = ValueIn(env, heap, b, j)
                \/ /\ j = qi /\ Sits(env, heap, Vars \ spent, U, gc, gi)
                   /\ ValueIn(env', heap', b, j) = ValueIn(env, heap, gc, gi)
  <2>1. b # Nil
    BY <1>1, <1>3
  <2>2. j \in Holds(heap', b) /\ IsPointer(B.items[j]) /\ ValueIn(env', heap', b, j) = B.items[j]
    BY <1>1, <1>7, <2>1 DEF Sits, HoldsIn, ValueIn
  <2>3. B.items[j].p \notin K
    BY <2>2 DEF Editing
  <2>4. CASE j \in Holds(heap, b) /\ B.items[j] = heap[b].items[j] /\ ~(b = gc /\ j = gi)
    BY <1>1, <2>1, <2>2, <2>3, <2>4 DEF Sits, HoldsIn, ValueIn
  <2>5. CASE j = qi /\ Sits(env, heap, Vars \ spent, U, gc, gi) /\ B.items[j] = ValueIn(env, heap, gc, gi)
    BY <2>2, <2>3, <2>5
  <2> QED
    BY <2>2, <2>4, <2>5 DEF Editing
<1>8. ASSUME NEW d, NEW j, Sits(env', heap', Vars \ spent', U \ K, d, j)
      PROVE  LET y == ValueIn(env', heap', d, j) IN
             /\ Lands(env', heap', U \ K, d, j)
             /\ \/ /\ Sits(env, heap, Vars \ spent, U, d, j) /\ y = ValueIn(env, heap, d, j)
                   /\ ~(d = gc /\ j = gi) /\ y.p \notin {}
                \/ /\ d = b /\ j = qi /\ y.p \notin {}
                   /\ Sits(env, heap, Vars \ spent, U, gc, gi) /\ y = ValueIn(env, heap, gc, gi)
                \/ d = Nil /\ j = Nil /\ y.p \in {}
  <2>1. PICK y : y = ValueIn(env', heap', d, j)
    OBVIOUS
  <2>2. /\ y.p \notin K
        /\ \/ /\ Sits(env, heap, Vars \ spent, U, d, j) /\ ~(d = gc /\ j = gi)
              /\ y = ValueIn(env, heap, d, j)
           \/ /\ d = b /\ j = qi /\ Sits(env, heap, Vars \ spent, U, gc, gi)
              /\ y = ValueIn(env, heap, gc, gi)
    BY <1>6, <1>7, <1>8, <2>1
  <2>3. y.p \in U /\ heap[y.p].k = y.t
    BY <1>1, <2>2, SoundSits DEF Kept
  <2>4. Lands(env', heap', U \ K, d, j)
    BY <1>5, <2>1, <2>2, <2>3 DEF Lands
  <2> QED
    BY <2>1, <2>2, <2>4
<1>9. Moves(env, heap, Vars \ spent, U, env', heap', Vars \ spent', U \ K, gc, gi, b, qi, Nil, Nil, {})
  BY <1>5, <1>8 DEF Moves
<1>10. Sound(env', heap', Vars \ spent', U \ K)
  <2>1. Sound(env, heap, Vars \ spent, U)
    BY <1>1 DEF Kept
  <2> QED
    BY <1>9, <2>1, Rewritten
<1>11. U \ K \in SUBSET Blocks
  BY <1>3
<1> QED
  BY <1>1, <1>4, <1>10, <1>11 DEF IInv

\* The items of a block are replaced.
Refilling(h, b, f, h2) ==
  /\ HeapOK(h) /\ b \in Blocks /\ h[b].k \in {"array", "object"}
  /\ BlockOK(Filled(h[b].k, f)) /\ h2 = [h EXCEPT ![b].items = f]

LEMMA ItemsReplaced ==
  ASSUME NEW h, NEW b, NEW f, NEW h2, Refilling(h, b, f, h2)
  PROVE  /\ HeapOK(h2) /\ h2[b] = Filled(h[b].k, f) /\ h2[b].k = h[b].k /\ h2[b].items = f
         /\ Holds(h2, b) = DOMAIN f
         /\ \A d \in Blocks : d # b => h2[d] = h[d]
<1> USE DEF Refilling
<1>1. PICK t, g : t = h[b].k /\ g = h[b].items
  OBVIOUS
<1>2. h[b] = [k |-> t, items |-> g]
  <2>1. BlockOK(h[b])
    BY DEF HeapOK
  <2> QED
    BY <1>1, <2>1, Kinds DEF ArrayOK, ObjectOK, Filled
<1>3. PICK B2 : B2 = [h[b] EXCEPT !.items = f]
  OBVIOUS
<1>4. B2 = [k |-> t, items |-> f]
  BY <1>2, <1>3
<1>5. B2 = Filled(t, f) /\ B2.k = t /\ B2.items = f
  BY <1>4 DEF Filled
<1>6. h2 = [d \in Blocks |-> IF d = b THEN B2 ELSE h[d]]
  BY <1>3 DEF HeapOK
<1>7. HeapOK(h2)
  BY <1>1, <1>5, <1>6 DEF HeapOK
<1>8. h2[b] = B2
  BY <1>6
<1>9. Holds(h2, b) = DOMAIN f
  BY <1>1, <1>5, <1>8 DEF Holds
<1> QED
  BY <1>1, <1>5, <1>6, <1>7, <1>8, <1>9

\* The path leads to a block.
LEMMA BlockAtEnd ==
  ASSUME NEW U, Kept(U), NEW v \in Vars \ spent, NEW n \in Nat, NEW path \in PathsTo(v, n),
         At(v, path).t \in {"array", "object"}, NEW b, b = At(v, path).p
  PROVE  /\ b \in U /\ b \in Blocks /\ b # Nil /\ heap[b].k = At(v, path).t
         /\ BlockOK(heap[b]) /\ Holds(heap, b) = DOMAIN heap[b].items
<1>1. IsPointer(At(v, path))
  BY DEF IsPointer, Pointed
<1>2. b \in U /\ b \in Blocks /\ heap[b].k = At(v, path).t
  BY <1>1, PathKept
<1>3. b # Nil
  BY <1>2, JsonHeapAssumption
<1>4. BlockOK(heap[b])
  BY <1>2, KeptHeap DEF HeapOK
<1>5. Holds(heap, b) = DOMAIN heap[b].items
  BY <1>2 DEF Holds
<1> QED
  BY <1>2, <1>3, <1>4, <1>5

LEMMA AppendInPlace ==
  ASSUME NEW U, Kept(U), fault = "none",
         NEW v \in Vars \ spent, NEW n \in Nat, NEW path \in PathsTo(v, n),
         NEW w \in Vars \ (spent \cup {v}),
         At(v, path).t = "array", Len(heap[At(v, path).p].items) < MaxLen,
         heap' = [heap EXCEPT ![At(v, path).p].items = Append(@, env[w])],
         spent' = spent \cup {w}, UNCHANGED <<env, fault>>
  PROVE  IInv'
<1>1. PICK b : b = At(v, path).p
  OBVIOUS
<1>2. /\ b \in U /\ b \in Blocks /\ b # Nil /\ heap[b].k = "array" /\ BlockOK(heap[b])
      /\ Holds(heap, b) = DOMAIN heap[b].items
  BY <1>1, BlockAtEnd
<1>3. HeapOK(heap) /\ env \in [Vars -> Value] /\ spent \in SUBSET Vars
  BY KeptHeap
<1>4. PICK s, x : s = heap[b].items /\ x = env[w]
  OBVIOUS
<1>5. s \in Seq(Value) /\ Len(s) \in Nat /\ Len(s) < MaxLen /\ x \in Value /\ DOMAIN s = 1..Len(s)
  <2>1. ArrayOK(heap[b])
    BY <1>2, Kinds
  <2> QED
    BY <1>1, <1>3, <1>4, <2>1 DEF ArrayOK
<1>6. PICK f : f = Append(s, x)
  OBVIOUS
<1>7. /\ f \in Seq(Value) /\ Len(f) = Len(s) + 1 /\ DOMAIN f = 1..Len(s) + 1
      /\ f[Len(s) + 1] = x /\ \A j \in 1..Len(s) : f[j] = s[j]
  BY <1>5, <1>6
<1>8. BlockOK(Filled("array", f))
  <2>1. Len(f) <= MaxLen
    BY <1>5, <1>7, JsonHeapAssumption
  <2>2. Filled("array", f).items = f
    BY DEF Filled
  <2> QED
    BY <1>7, <2>1, <2>2 DEF BlockOK, ArrayOK
<1>9. heap' = [heap EXCEPT ![b].items = f]
  BY <1>1, <1>4, <1>6
<1>10. /\ HeapOK(heap') /\ heap'[b].k = heap[b].k /\ heap'[b].items = f /\ Holds(heap', b) = DOMAIN f
       /\ \A d \in Blocks : d # b => heap'[d] = heap[d]
  <2>1. BlockOK(Filled(heap[b].k, f)) /\ heap[b].k \in {"array", "object"}
    BY <1>2, <1>8
  <2>2. PICK h2 : h2 = heap'
    OBVIOUS
  <2>3. /\ HeapOK(h2) /\ h2[b].k = heap[b].k /\ h2[b].items = f /\ Holds(h2, b) = DOMAIN f
        /\ \A d \in Blocks : d # b => h2[d] = heap[d]
    <3>1. Refilling(heap, b, f, h2)
      BY <1>2, <1>3, <1>9, <2>1, <2>2 DEF Refilling
    <3> QED
      BY <3>1, ItemsReplaced
  <2> QED
    BY <2>2, <2>3
<1>11. ASSUME IsPointer(x) PROVE Sits(env, heap, Vars \ spent, U, Nil, w)
  BY <1>4, <1>11 DEF Sits, HoldsIn, ValueIn
<1>12. ASSUME NEW j \in Holds(heap', b), IsPointer(heap'[b].items[j])
       PROVE  \/ j \in Holds(heap, b) /\ heap'[b].items[j] = heap[b].items[j] /\ ~(b = Nil /\ j = w)
              \/ /\ j = Len(s) + 1 /\ Sits(env, heap, Vars \ spent, U, Nil, w)
                 /\ heap'[b].items[j] = ValueIn(env, heap, Nil, w)
  <2>1. j \in 1..Len(s) + 1 /\ heap'[b].items[j] = f[j]
    BY <1>7, <1>10, <1>12
  <2>2. CASE j = Len(s) + 1
    <3>1. f[j] = x /\ IsPointer(x)
      BY <1>7, <1>10, <1>12, <2>2
    <3> QED
      BY <1>4, <1>11, <2>1, <2>2, <3>1 DEF ValueIn
  <2>3. CASE j \in 1..Len(s)
    BY <1>2, <1>4, <1>5, <1>7, <2>1, <2>3
  <2>4. j = Len(s) + 1 \/ j \in 1..Len(s)
    BY <1>5, <2>1
  <2> QED
    BY <2>2, <2>3, <2>4
<1>13. OnlyAt(U, {}, b, 0)
  BY DEF OnlyAt
<1>14. Editing(U, {}, b, 0, heap'[b], Nil, w, Len(s) + 1)
  <2>1. /\ {} \in SUBSET U /\ b \in U \ {} /\ env' = env /\ fault' = fault
        /\ spent \subseteq spent' /\ spent' \in SUBSET Vars /\ w \notin Vars \ spent'
    BY <1>2, <1>3
  <2>2. \A d \in U : d # b => heap'[d] = heap[d]
    BY <1>10, KeptHeap
  <2> QED
    BY <1>10, <1>12, <1>13, <2>1, <2>2 DEF Editing
<1> QED
  BY <1>14, Edited

LEMMA OneElement ==
  ASSUME NEW x \in Value, NEW b \in Blocks, 1 <= MaxLen, NEW B, B = Filled("array", <<x>>)
  PROVE  /\ BlockOK(B) /\ B.k = "array" /\ B # Free
         /\ \A j \in Holds([d \in Blocks |-> B], b) : j = 1 /\ B.items[j] = x
<1>1. PICK s : s = <<x>>
  OBVIOUS
<1>2. s \in Seq(Value) /\ Len(s) = 1 /\ DOMAIN s = {1} /\ s[1] = x
  BY <1>1
<1>3. B.k = "array" /\ B.items = s /\ B = Filled("array", s) /\ B # Free
  BY <1>1 DEF Filled, Free
<1>4. BlockOK(B)
  BY <1>2, <1>3 DEF BlockOK, ArrayOK
<1> QED
  BY <1>2, <1>3, <1>4 DEF Holds

LEMMA AppendStep ==
  ASSUME NEW U, Kept(U), fault = "none",
         NEW v \in Vars \ spent, NEW n \in Nat, NEW path \in PathsTo(v, n),
         NEW w \in Vars \ (spent \cup {v}), append(v, path, w)
  PROVE  IInv'
<1>1. CASE WildDelete({env[w]} \cup Range(IF At(v, path).t = "array"
                                          THEN heap[At(v, path).p].items ELSE <<>>))
  BY <1>1, CrashStep DEF WildDelete
<1>2. CASE /\ At(v, path).t = "array" /\ Len(heap[At(v, path).p].items) < MaxLen
           /\ heap' = [heap EXCEPT ![At(v, path).p].items = Append(@, env[w])]
           /\ spent' = spent \cup {w} /\ UNCHANGED <<env, fault>>
  BY <1>2, AppendInPlace
<1>3. CASE /\ Len(<<>>) < MaxLen
           /\ \E b \in Blocks :
                /\ Without(Cleared(At(v, path)))[b] = Free
                /\ Replace(v, path, Pointer("array", b),
                           Single(b, Filled("array", <<env[w]>>)), {w})
  <2>1. PICK b \in Blocks :
          /\ Without(Cleared(At(v, path)))[b] = Free
          /\ Replace(v, path, Pointer("array", b), Single(b, Filled("array", <<env[w]>>)), {w})
    BY <1>3
  <2>2. PICK y \in Value : y = env[w]
    BY KeptHeap
  <2>3. PICK B : B = Filled("array", <<y>>)
    OBVIOUS
  <2>4. 1 <= MaxLen
    BY <1>3, JsonHeapAssumption
  <2>5. /\ BlockOK(B) /\ B.k = "array" /\ B # Free
        /\ \A j \in Holds([d \in Blocks |-> B], b) : j = 1 /\ B.items[j] = y
    BY <2>3, <2>4, OneElement
  <2>6. PICK x : x = Pointer("array", b)
    OBVIOUS
  <2>7. x \in Value /\ x.p = b /\ x.t = "array"
    BY <2>6, EmptyOK
  <2>8. Replace(v, path, x, Single(b, B), {w})
    BY <2>1, <2>2, <2>3, <2>6
  <2>9. \A j \in Holds([d \in Blocks |-> B], b) : IsPointer(B.items[j]) =>
           j = 1 /\ B.items[j] = env[w] /\ w \in Vars \ (spent \cup {v}) /\ w \in {w}
    BY <2>2, <2>5
  <2>10. {w} \in SUBSET Vars /\ B.k = x.t
    BY <2>5, <2>7
  <2>11. Allocating(U, v, n, path, b, B, x, {w}, 1, w)
    BY <2>1, <2>5, <2>7, <2>8, <2>9, <2>10 DEF Allocating
  <2> QED
    BY <2>11, NewBlockStep
<1> QED
  BY <1>1, <1>2, <1>3, Zenon DEF append

\* An object gets other members, none of which points anywhere that it did not before.
MembersChanged(U, v, n, path, b, f, g) ==
  /\ Kept(U) /\ fault = "none"
  /\ v \in Vars \ spent /\ n \in Nat /\ path \in PathsTo(v, n)
  /\ At(v, path).t = "object" /\ b = At(v, path).p /\ f = heap[b].items
  /\ DOMAIN g \subseteq Keys /\ g \in [DOMAIN g -> Value]
  /\ \A j \in DOMAIN g : IsPointer(g[j]) => j \in DOMAIN f /\ g[j] = f[j]
  /\ heap' = [heap EXCEPT ![b].items = g] /\ UNCHANGED <<env, spent, fault>>

LEMMA MembersStep ==
  ASSUME NEW U, NEW v, NEW n, NEW path, NEW b, NEW f, NEW g, MembersChanged(U, v, n, path, b, f, g)
  PROVE  IInv'
<1>1. /\ Kept(U) /\ fault = "none" /\ v \in Vars \ spent /\ n \in Nat /\ path \in PathsTo(v, n)
      /\ At(v, path).t = "object" /\ b = At(v, path).p /\ f = heap[b].items
  BY DEF MembersChanged
<1>2. /\ DOMAIN g \subseteq Keys /\ g \in [DOMAIN g -> Value]
      /\ \A j \in DOMAIN g : IsPointer(g[j]) => j \in DOMAIN f /\ g[j] = f[j]
      /\ UNCHANGED <<env, spent, fault>>
  BY DEF MembersChanged
<1>3. /\ b \in U /\ b \in Blocks /\ b # Nil /\ heap[b].k = "object" /\ Holds(heap, b) = DOMAIN f
  BY <1>1, BlockAtEnd
<1>4. HeapOK(heap) /\ spent \in SUBSET Vars
  BY <1>1, KeptHeap
<1>5. BlockOK(Filled("object", g))
  BY <1>2 DEF BlockOK, ObjectOK, Filled
<1>6. PICK h2 : h2 = heap'
  OBVIOUS
<1>7. Refilling(heap, b, g, h2)
  <2>1. h2 = [heap EXCEPT ![b].items = g]
    BY <1>6 DEF MembersChanged
  <2> QED
    BY <1>3, <1>4, <1>5, <2>1 DEF Refilling
<1>8. /\ HeapOK(h2) /\ h2[b].k = heap[b].k /\ h2[b].items = g /\ Holds(h2, b) = DOMAIN g
      /\ \A d \in Blocks : d # b => h2[d] = heap[d]
  BY <1>7, ItemsReplaced
<1>9. \A j \in DOMAIN g : j # 0
  BY <1>2, JsonHeapAssumption
<1>10. \A j \in Holds(heap', b) : IsPointer(heap'[b].items[j]) =>
         j \in Holds(heap, b) /\ heap'[b].items[j] = heap[b].items[j] /\ ~(b = b /\ j = 0)
  BY <1>1, <1>2, <1>3, <1>6, <1>8, <1>9
<1>11. Editing(U, {}, b, 0, heap'[b], b, 0, 0)
  <2>1. /\ {} \in SUBSET U /\ b \in U \ {} /\ env' = env /\ fault' = fault
        /\ spent \subseteq spent' /\ spent' \in SUBSET Vars /\ OnlyAt(U, {}, b, 0)
    BY <1>2, <1>3, <1>4 DEF OnlyAt
  <2>2. \A d \in U : d # b => heap'[d] = heap[d]
    BY <1>1, <1>6, <1>8, KeptHeap
  <2>3. HeapOK(heap') /\ heap'[b].k = heap[b].k
    BY <1>6, <1>8
  <2> QED
    BY <1>1, <1>10, <2>1, <2>2, <2>3 DEF Editing
<1> QED
  BY <1>11, Edited

LEMMA MemberStep ==
  ASSUME NEW U, Kept(U), fault = "none",
         NEW v \in Vars \ spent, NEW n \in Nat, NEW path \in PathsTo(v, n), NEW k \in Keys,
         Member(v, path, k)
  PROVE  IInv'
<1>0. NullValue \in Value /\ ~IsPointer(NullValue)
  BY DEF NullValue, Value, IsPointer, Pointed
<1>1. CASE /\ At(v, path).t = "object"
           /\ heap' = [heap EXCEPT ![At(v, path).p].items = Onto(@, Single(k, NullValue))]
           /\ UNCHANGED <<env, spent, fault>>
  <2>1. PICK b : b = At(v, path).p
    OBVIOUS
  <2>2. PICK f, g : f = heap[b].items /\ g = Onto(f, Single(k, NullValue))
    OBVIOUS
  <2>3. heap[b].k = "object" /\ BlockOK(heap[b])
    BY <1>1, <2>1, BlockAtEnd
  <2>4. DOMAIN f \subseteq Keys /\ f \in [DOMAIN f -> Value]
    BY <2>2, <2>3, Kinds DEF ObjectOK
  <2>5. g = [i \in DOMAIN f \cup {k} |-> IF i \in DOMAIN f THEN f[i] ELSE NullValue]
    BY <2>2 DEF Onto, Single
  <2>6. /\ DOMAIN g \subseteq Keys /\ g \in [DOMAIN g -> Value]
        /\ \A j \in DOMAIN g : IsPointer(g[j]) => j \in DOMAIN f /\ g[j] = f[j]
    BY <1>0, <2>4, <2>5
  <2>7. heap' = [heap EXCEPT ![b].items = g]
    BY <1>1, <2>1, <2>2
  <2>8. MembersChanged(U, v, n, path, b, f, g)
    BY <1>1, <2>1, <2>2, <2>6, <2>7 DEF MembersChanged
  <2> QED
    BY <2>8, MembersStep
<1>2. CASE \E b \in Blocks :
             /\ Without(Cleared(At(v, path)))[b] = Free
             /\ Replace(v, path, Pointer("object", b),
                        Single(b, Filled("object", Single(k, NullValue))), {})
  <2>1. PICK b \in Blocks :
          /\ Without(Cleared(At(v, path)))[b] = Free
          /\ Replace(v, path, Pointer("object", b),
                     Single(b, Filled("object", Single(k, NullValue))), {})
    BY <1>2
  <2>2. PICK f : f = Single(k, NullValue)
    OBVIOUS
  <2>3. DOMAIN f = {k} /\ f[k] = NullValue /\ f \in [DOMAIN f -> Value]
    BY <1>0, <2>2 DEF Single
  <2>4. PICK B : B = Filled("object", f)
    OBVIOUS
  <2>5. BlockOK(B) /\ B.k = "object" /\ B.items = f /\ B # Free
    BY <2>3, <2>4 DEF BlockOK, ObjectOK, Filled, Free
  <2>6. PICK x : x = Pointer("object", b)
    OBVIOUS
  <2>7. x \in Value /\ x.p = b /\ x.t = "object"
    BY <2>6, EmptyOK
  <2>8. Replace(v, path, x, Single(b, B), {}) /\ {} \in SUBSET Vars
    BY <2>1, <2>2, <2>4, <2>6
  <2>9. ASSUME NEW j \in Holds([d \in Blocks |-> B], b) PROVE ~IsPointer(B.items[j])
    <3>1. j = k
      BY <2>3, <2>5 DEF Holds
    <3> QED
      BY <1>0, <2>3, <2>5, <3>1
  <2>10. Allocating(U, v, n, path, b, B, x, {}, k, v)
    BY <2>1, <2>5, <2>7, <2>8, <2>9 DEF Allocating
  <2> QED
    BY <2>10, NewBlockStep
<1> QED
  BY <1>1, <1>2 DEF Member

LEMMA RemoveKeyStep ==
  ASSUME NEW U, Kept(U), fault = "none",
         NEW v \in Vars \ spent, NEW n \in Nat, NEW path \in PathsTo(v, n), NEW k \in Keys,
         RemoveKey(v, path, k)
  PROVE  IInv'
<1>1. /\ At(v, path).t = "object"
      /\ heap' = [heap EXCEPT ![At(v, path).p].items = Restrict(@, DOMAIN @ \ {k})]
      /\ UNCHANGED <<env, spent, fault>>
  BY DEF RemoveKey
<1>2. PICK b : b = At(v, path).p
  OBVIOUS
<1>3. PICK f, g : f = heap[b].items /\ g = Restrict(f, DOMAIN f \ {k})
  OBVIOUS
<1>4. heap[b].k = "object" /\ BlockOK(heap[b])
  BY <1>1, <1>2, BlockAtEnd
<1>5. DOMAIN f \subseteq Keys /\ f \in [DOMAIN f -> Value]
  BY <1>3, <1>4, Kinds DEF ObjectOK
<1>6. /\ DOMAIN g \subseteq Keys /\ g \in [DOMAIN g -> Value]
      /\ \A j \in DOMAIN g : IsPointer(g[j]) => j \in DOMAIN f /\ g[j] = f[j]
  BY <1>3, <1>5 DEF Restrict
<1>7. heap' = [heap EXCEPT ![b].items = g]
  BY <1>1, <1>2, <1>3
<1>8. MembersChanged(U, v, n, path, b, f, g)
  BY <1>1, <1>2, <1>3, <1>6, <1>7 DEF MembersChanged
<1> QED
  BY <1>8, MembersStep

\* The conversions only crash.
LEMMA ExtractStep ==
  ASSUME NEW v, NEW path, Extract(v, path)
  PROVE  IInv'
BY CrashStep DEF Extract, WildDelete

LEMMA RemoveAtShifts ==
  ASSUME NEW S, NEW s \in Seq(S), NEW i \in 1..Len(s)
  PROVE  /\ RemoveAt(s, i) \in Seq(S) /\ Len(RemoveAt(s, i)) = Len(s) - 1
         /\ \A j \in 1..Len(s) - 1 : RemoveAt(s, i)[j] = IF j < i THEN s[j] ELSE s[j + 1]
<1>1. PICK a : a = SubSeq(s, 1, i - 1)
  OBVIOUS
<1>2. PICK c : c = SubSeq(s, i + 1, Len(s))
  OBVIOUS
<1>3. a \in Seq(S) /\ Len(a) = i - 1 /\ \A j \in 1..i - 1 : a[j] = s[j]
  BY <1>1
<1>4. c \in Seq(S) /\ Len(c) = Len(s) - i /\ \A j \in 1..Len(s) - i : c[j] = s[j + i]
  <2>1. Len(s) \in Nat /\ i + 1 <= Len(s) + 1
    OBVIOUS
  <2>2. c \in Seq(S) /\ Len(c) = Len(s) - i
    BY <1>2, <2>1
  <2>3. ASSUME NEW j \in 1..Len(s) - i PROVE c[j] = s[j + i]
    <3>1. c[j] = s[(i + 1) + j - 1]
      BY <1>2, <2>1, <2>3
    <3>2. (i + 1) + j - 1 = j + i
      BY <2>3
    <3> QED
      BY <3>1, <3>2
  <2> QED
    BY <2>2, <2>3
<1>5. PICK r : r = a \o c
  OBVIOUS
<1>6. r = RemoveAt(s, i)
  BY <1>1, <1>2, <1>5 DEF RemoveAt
<1>7. r \in Seq(S) /\ Len(r) = Len(s) - 1
  BY <1>3, <1>4, <1>5
<1>8. ASSUME NEW j \in 1..Len(s) - 1 PROVE r[j] = IF j < i THEN s[j] ELSE s[j + 1]
  <2>1. CASE j < i
    BY <1>3, <1>4, <1>5, <1>8, <2>1
  <2>2. CASE ~(j < i)
    <3>1. j \in Nat /\ i \in Nat /\ Len(s) \in Nat /\ j - (i - 1) \in 1..Len(s) - i
      BY <1>8, <2>2
    <3>2. r[j] = c[j - (i - 1)]
      BY <1>3, <1>4, <1>5, <1>8, <2>2
    <3>3. c[j - (i - 1)] = s[(j - (i - 1)) + i]
      BY <1>4, <3>1
    <3>4. (j - (i - 1)) + i = j + 1
      BY <3>1
    <3> QED
      BY <2>2, <3>2, <3>3, <3>4
  <2> QED
    BY <2>1, <2>2
<1> QED
  BY <1>6, <1>7, <1>8

\* An element of an array at the end of a path has a path, and is in its place.
LEMMA ElementPlace ==
  ASSUME NEW U, Kept(U), NEW v \in Vars \ spent, NEW n \in Nat, NEW path \in PathsTo(v, n),
         IsPointer(At(v, path)), NEW b, b = At(v, path).p, NEW j \in Holds(heap, b)
  PROVE  \E q \in PathsTo(v, n + 1) :
           IsPlace(v, q, n + 1, b, j) /\ At(v, q) = heap[b].items[j]
<1>1. b \in U /\ b \in Blocks /\ b # Nil /\ path \in Seq(Steps)
  BY PathKept, JsonHeapAssumption
<1>2. j \in Steps
  BY <1>1, ItemsTyped DEF Kept
<1>3. PICK q : q = Append(path, j)
  OBVIOUS
<1>4. q \in PathsTo(v, n + 1)
  <2>1. j \in Onward(v, path)
    BY DEF Onward
  <2>2. Extends(v, PathsTo(v, n), q)
    BY <1>3, <2>1, Zenon DEF Extends
  <2> QED
    BY <2>2, PathsNext
<1>5. At(v, q) = heap[b].items[j]
  BY <1>1, <1>2, <1>3, AtAppend
<1>6. Len(q) = Len(path) + 1 /\ Front(q) = path /\ Last(q) = j /\ q # <<>>
  BY <1>1, <1>2, <1>3 DEF Front, Last
<1>7. Above(v, q, n + 1, b, j)
  <2>1. path \in PathsTo(v, (n + 1) - 1)
    <3>1. (n + 1) - 1 = n
      OBVIOUS
    <3> QED
      BY <3>1
  <2> QED
    BY <1>3, <1>6, <2>1, Zenon DEF Above
<1>8. IsPlace(v, q, n + 1, b, j)
  BY <1>1, <1>5, <1>7 DEF IsPlace, HoldsIn, ValueIn
<1> QED
  BY <1>4, <1>5, <1>8

LEMMA RemoveIndexStep ==
  ASSUME NEW U, Kept(U), fault = "none",
         NEW v \in Vars \ spent, NEW n \in Nat, NEW path \in PathsTo(v, n), NEW i \in Nat,
         RemoveIndex(v, path, i), Removable(v, path, i)
  PROVE  IInv'
<1>1. PICK b : b = At(v, path).p
  OBVIOUS
<1>2. PICK s : s = heap[b].items
  OBVIOUS
<1>3. At(v, path).t = "array" /\ i \in 1..Len(s)
  <2>1. i \in 1..Len(IF At(v, path).t = "array" THEN s ELSE <<>>)
    BY <1>1, <1>2 DEF RemoveIndex
  <2>2. Len(<<>>) = 0
    OBVIOUS
  <2> QED
    BY <2>1, <2>2
<1>4. /\ b \in U /\ b \in Blocks /\ b # Nil /\ heap[b].k = "array" /\ BlockOK(heap[b])
      /\ Holds(heap, b) = DOMAIN s
  BY <1>1, <1>2, <1>3, BlockAtEnd
<1>5. HeapOK(heap) /\ spent \in SUBSET Vars /\ U \in SUBSET Blocks
  BY KeptHeap
<1>6. s \in Seq(Value) /\ Len(s) \in Nat /\ Len(s) <= MaxLen /\ DOMAIN s = 1..Len(s)
  <2>1. ArrayOK(heap[b])
    BY <1>4, Kinds
  <2> QED
    BY <1>2, <2>1 DEF ArrayOK
<1>7. IsPointer(At(v, path))
  BY <1>3 DEF IsPointer, Pointed
<1>8. ASSUME NEW j \in 1..Len(s)
      PROVE  /\ Cleared(s[j]) \in SUBSET U /\ b \notin Cleared(s[j]) /\ Clearable(s[j])
             /\ ~IsPointer(s[j]) => Cleared(s[j]) = {}
             /\ OnlyAt(U, Cleared(s[j]), b, j)
  <2>0. j \in Holds(heap, b)
    BY <1>4, <1>6
  <2>5. \E q \in PathsTo(v, n + 1) : IsPlace(v, q, n + 1, b, j) /\ At(v, q) = heap[b].items[j]
    BY <1>1, <1>7, <2>0, ElementPlace
  <2>1. PICK q \in PathsTo(v, n + 1) : IsPlace(v, q, n + 1, b, j) /\ At(v, q) = s[j]
    BY <1>2, <2>5
  <2>2. n + 1 \in Nat /\ b \in U \cup {Nil}
    BY <1>4
  <2>3. PICK x : x = s[j]
    OBVIOUS
  <2>4. /\ Cleared(x) \in SUBSET U /\ b \notin Cleared(x) /\ Clearable(x)
        /\ ~IsPointer(x) => Cleared(x) = {}
        /\ OnlyAt(U, Cleared(x), b, j)
    BY <2>1, <2>2, <2>3, ClearedInside
  <2> QED
    BY <2>3, <2>4
<1>9. \A j \in i + 1..Len(s) - 1 : ~IsPointer(s[j])
  BY <1>1, <1>2 DEF Removable
<1>10. PICK K : K = UNION {Cleared(s[j]) : j \in i..Len(s) - 1}
  OBVIOUS
<1>11. /\ heap' = [Without(K) EXCEPT ![b].items = RemoveAt(s, i)]
       /\ UNCHANGED <<env, spent, fault>>
  <2>1. \A j \in i..Len(s) - 1 : Clearable(s[j])
    BY <1>3, <1>6, <1>8
  <2> QED
    BY <1>1, <1>2, <1>3, <1>10, <2>1, SMTT(30) DEF RemoveIndex
<1>12. ASSUME NEW d \in K PROVE i \in 1..Len(s) - 1 /\ d \in Cleared(s[i])
  <2>1. PICK j \in i..Len(s) - 1 : d \in Cleared(s[j])
    BY <1>10, <1>12
  <2>2. j \in 1..Len(s) /\ (j = i \/ j \in i + 1..Len(s) - 1)
    BY <1>3, <1>6, <2>1
  <2>3. IsPointer(s[j])
    BY <1>8, <2>1, <2>2
  <2>4. j = i
    BY <1>9, <2>2, <2>3
  <2> QED
    BY <1>3, <1>6, <2>1, <2>4
<1>13. K \in SUBSET U /\ b \notin K
  BY <1>3, <1>8, <1>12
<1>14. OnlyAt(U, K, b, i)
  <2>1. SUFFICES ASSUME NEW d \in (U \ K) \cup {Nil}, NEW j \in HoldsIn(heap, Vars \ spent, d),
                        IsPointer(ValueIn(env, heap, d, j)), ValueIn(env, heap, d, j).p \in K
                 PROVE  d = b /\ j = i
    BY DEF OnlyAt
  <2>2. ValueIn(env, heap, d, j).p \in Cleared(s[i])
    BY <1>12, <2>1
  <2>3. OnlyAt(U, Cleared(s[i]), b, i)
    BY <1>3, <1>8
  <2>4. CASE d \notin Cleared(s[i])
    BY <2>1, <2>2, <2>3, <2>4 DEF OnlyAt
  <2>5. CASE d \in Cleared(s[i])
    <3>1. i \in i..Len(s) - 1
      BY <1>3, <1>6, <1>12, <2>1
    <3>2. d \in K
      BY <1>10, <2>5, <3>1
    <3>3. d \in U
      BY <1>13, <3>2
    <3>4. d # Nil
      BY <1>5, <3>3, JsonHeapAssumption
    <3> QED
      BY <2>1, <3>2, <3>4
  <2> QED
    BY <2>4, <2>5
<1>15. /\ HeapOK(Without(K)) /\ Without(K)[b] = heap[b]
       /\ \A d \in U \ K : Without(K)[d] = heap[d]
  BY <1>4, <1>5, <1>13, WithoutOK
<1>16. PICK r : r = RemoveAt(s, i)
  OBVIOUS
<1>17. /\ r \in Seq(Value) /\ Len(r) = Len(s) - 1 /\ DOMAIN r = 1..Len(s) - 1
       /\ \A j \in 1..Len(s) - 1 : r[j] = IF j < i THEN s[j] ELSE s[j + 1]
  <2>1. /\ r \in Seq(Value) /\ Len(r) = Len(s) - 1
        /\ \A j \in 1..Len(s) - 1 : r[j] = IF j < i THEN s[j] ELSE s[j + 1]
    BY <1>3, <1>6, <1>16, RemoveAtShifts
  <2> QED
    BY <2>1
<1>18. BlockOK(Filled("array", r))
  <2>1. Len(r) <= MaxLen
    BY <1>6, <1>17, JsonHeapAssumption
  <2>2. Filled("array", r).items = r
    BY DEF Filled
  <2> QED
    BY <1>17, <2>1, <2>2 DEF BlockOK, ArrayOK
<1>19. PICK h, h2 : h = Without(K) /\ h2 = heap'
  OBVIOUS
<1>20. Refilling(h, b, r, h2)
  BY <1>4, <1>11, <1>15, <1>16, <1>18, <1>19 DEF Refilling
<1>21. /\ HeapOK(h2) /\ h2[b].k = h[b].k /\ h2[b].items = r /\ Holds(h2, b) = DOMAIN r
       /\ \A d \in Blocks : d # b => h2[d] = h[d]
  BY <1>20, ItemsReplaced
<1>22. ASSUME NEW j \in Holds(heap', b), IsPointer(heap'[b].items[j])
       PROVE  /\ heap'[b].items[j].p \notin K
              /\ \/ j \in Holds(heap, b) /\ heap'[b].items[j] = heap[b].items[j]
                    /\ ~(b = b /\ j = Len(s))
                 \/ /\ j = Len(s) - 1 /\ Sits(env, heap, Vars \ spent, U, b, Len(s))
                    /\ heap'[b].items[j] = ValueIn(env, heap, b, Len(s))
  <2>1. j \in 1..Len(s) - 1 /\ heap'[b].items[j] = r[j]
    BY <1>17, <1>19, <1>21, <1>22
  <2>2. ASSUME NEW m \in 1..Len(s), IsPointer(s[m]), m # i PROVE s[m].p \notin K
    <3>1. m \in HoldsIn(heap, Vars \ spent, b) /\ ValueIn(env, heap, b, m) = s[m]
      BY <1>2, <1>4, <1>6, <2>2 DEF HoldsIn, ValueIn
    <3>2. b \in (U \ K) \cup {Nil}
      BY <1>4, <1>13
    <3> QED
      BY <1>14, <2>2, <3>1, <3>2 DEF OnlyAt
  <2>3. CASE j < i
    <3>0. r[j] = IF j < i THEN s[j] ELSE s[j + 1]
      BY <1>17, <2>1
    <3>1. r[j] = s[j] /\ j \in 1..Len(s) /\ j # i /\ j # Len(s)
      <4>0. PICK m \in Nat : m = Len(s)
        BY <1>6
      <4>1. j \in 1..Len(s) /\ j # i /\ j # Len(s)
        <5>1. j \in 1..m - 1 /\ i \in Nat /\ j < i
          BY <1>3, <2>1, <2>3, <4>0
        <5>2. j \in 1..m /\ j # i /\ j # m
          BY <5>1
        <5> QED
          BY <4>0, <5>2
      <4> QED
        BY <2>3, <3>0, <4>1
    <3>2. s[j].p \notin K
      BY <1>22, <2>1, <2>2, <3>1
    <3> QED
      BY <1>2, <1>4, <1>6, <2>1, <3>1, <3>2
  <2>4. CASE ~(j < i)
    <3>1. r[j] = s[j + 1] /\ j + 1 \in 1..Len(s) /\ j + 1 # i
          /\ (j + 1 = Len(s) \/ j + 1 \in i + 1..Len(s) - 1)
      <4>0. PICK m \in Nat : m = Len(s)
        BY <1>6
      <4>1. r[j] = s[j + 1]
        BY <1>17, <2>1, <2>4
      <4>2. j \in 1..m - 1 /\ i \in Nat /\ ~(j < i)
        BY <1>3, <2>1, <2>4, <4>0
      <4>3. j + 1 \in 1..m /\ j + 1 # i /\ (j + 1 = m \/ j + 1 \in i + 1..m - 1)
        BY <4>2
      <4> QED
        BY <4>0, <4>1, <4>3
    <3>2. IsPointer(s[j + 1])
      BY <1>22, <2>1, <3>1
    <3>3. s[j + 1].p \notin K
      BY <2>2, <3>1, <3>2
    <3>4. j + 1 = Len(s) /\ j = Len(s) - 1
      <4>1. PICK m : m = j + 1
        OBVIOUS
      <4>2. m \notin i + 1..Len(s) - 1
        BY <1>9, <3>2, <4>1
      <4>3. j + 1 = Len(s) /\ j \in Nat
        BY <2>1, <3>1, <4>1, <4>2
      <4> QED
        BY <4>3
    <3>5. Sits(env, heap, Vars \ spent, U, b, Len(s)) /\ ValueIn(env, heap, b, Len(s)) = s[j + 1]
      <4>1. Len(s) \in HoldsIn(heap, Vars \ spent, b) /\ ValueIn(env, heap, b, Len(s)) = s[Len(s)]
        BY <1>2, <1>4, <1>6, <3>1, <3>4 DEF HoldsIn, ValueIn
      <4> QED
        BY <1>4, <3>2, <3>4, <4>1 DEF Sits
    <3> QED
      BY <2>1, <3>1, <3>3, <3>4, <3>5
  <2> QED
    BY <2>3, <2>4
<1>23. Editing(U, K, b, i, heap'[b], b, Len(s), Len(s) - 1)
  <2>1. /\ b \in U \ K /\ env' = env /\ fault' = fault
        /\ spent \subseteq spent' /\ spent' \in SUBSET Vars
    BY <1>4, <1>5, <1>11, <1>13
  <2>2. HeapOK(heap') /\ heap'[b].k = heap[b].k /\ \A d \in U \ K : d # b => heap'[d] = heap[d]
    BY <1>5, <1>15, <1>19, <1>21
  <2> QED
    BY <1>13, <1>14, <1>22, <2>1, <2>2 DEF Editing
<1> QED
  BY <1>23, Edited

-------------------------------------------------------------------------------
(***************************************************************************)
(* The theorems                                                              *)
(***************************************************************************)
LEMMA InitKept == Init => IInv
<1> SUFFICES ASSUME Init PROVE IInv
  OBVIOUS
<1>1. env = [v \in Vars |-> NullValue] /\ heap = [b \in Blocks |-> Free]
      /\ spent = {} /\ fault = "none"
  BY DEF Init
<1>2. NullValue \in Value /\ ~IsPointer(NullValue)
  BY DEF NullValue, Value, IsPointer, Pointed
<1>3. Typed(env, heap, spent, fault)
  BY <1>1, <1>2, FreeOK DEF Typed, HeapOK
<1>4. Sound(env, heap, Vars \ spent, {})
  BY <1>1, <1>2 DEF Sound, HoldsIn, ValueIn
<1> QED
  BY <1>1, <1>3, <1>4 DEF IInv

\* The step of an operation at the end of a path of operator[] calls.
LEMMA PathStep ==
  ASSUME NEW U, Kept(U), fault = "none",
         NEW v \in Vars \ spent, NEW n \in Nat, NEW path \in PathsTo(v, n),
         \/ clear(v, path) \/ Element(v, path) \/ Extract(v, path)
         \/ \E w \in Vars \ (spent \cup {v}) : Assign(v, path, w) \/ append(v, path, w)
         \/ \E k \in Keys : Member(v, path, k) \/ RemoveKey(v, path, k)
         \/ \E i \in 1..MaxLen : RemoveIndex(v, path, i) /\ Removable(v, path, i)
  PROVE  IInv'
<1>1. CASE clear(v, path)
  BY <1>1, ClearStep
<1>2. CASE Element(v, path)
  BY <1>2, ElementStep
<1>3. CASE Extract(v, path)
  BY <1>3, ExtractStep
<1>4. ASSUME NEW w \in Vars \ (spent \cup {v}), Assign(v, path, w) PROVE IInv'
  BY <1>4, AssignStep
<1>5. ASSUME NEW w \in Vars \ (spent \cup {v}), append(v, path, w) PROVE IInv'
  BY <1>5, AppendStep
<1>6. ASSUME NEW k \in Keys, Member(v, path, k) PROVE IInv'
  BY <1>6, MemberStep
<1>7. ASSUME NEW k \in Keys, RemoveKey(v, path, k) PROVE IInv'
  BY <1>7, RemoveKeyStep
<1>8. ASSUME NEW i \in 1..MaxLen, RemoveIndex(v, path, i), Removable(v, path, i) PROVE IInv'
  BY <1>8, RemoveIndexStep
<1> QED
  BY <1>1, <1>2, <1>3, <1>4, <1>5, <1>6, <1>7, <1>8

LEMMA NextKept == IInv /\ [GivingNext]_vars => IInv'
<1>1. ASSUME IInv, UNCHANGED vars PROVE IInv'
  <2>1. env' = env /\ heap' = heap /\ spent' = spent /\ fault' = fault
    BY <1>1 DEF vars
  <2> QED
    BY <1>1, <2>1 DEF IInv
<1>2. ASSUME IInv, GivingNext PROVE IInv'
  <2>1. PICK U : Kept(U)
    BY <1>2, IInvKept
  <2>2. fault = "none" /\ MaxDepth \in Nat
    BY <1>2, JsonHeapAssumption DEF GivingNext, Running
  <2>3. ASSUME NEW v \in spent, EndScope(v) PROVE IInv'
    BY <2>1, <2>2, <2>3, EndScopeStep
  <2>4. ASSUME NEW v \in spent, Forsaken(v), clear(v, <<>>) PROVE IInv'
    BY <2>1, <2>2, <2>4, ForsakenStep
  <2>5. ASSUME NEW v \in Vars \ spent, Declare(v) PROVE IInv'
    BY <2>1, <2>2, <2>5, DeclareStep
  <2>6. ASSUME NEW v \in Vars \ spent, NEW w \in Vars \ (spent \cup {v}), CopyConstruct(v, w)
        PROVE  IInv'
    BY <2>1, <2>2, <2>6, CopyStep
  <2>7. ASSUME NEW v \in Vars \ spent, NEW path \in PathsTo(v, MaxDepth),
               \/ clear(v, path) \/ Element(v, path) \/ Extract(v, path)
               \/ \E w \in Vars \ (spent \cup {v}) : Assign(v, path, w) \/ append(v, path, w)
               \/ \E k \in Keys : Member(v, path, k) \/ RemoveKey(v, path, k)
               \/ \E i \in 1..MaxLen : RemoveIndex(v, path, i) /\ Removable(v, path, i)
        PROVE  IInv'
    BY <2>1, <2>2, <2>7, PathStep
  <2>8. CASE \E v \in spent : EndScope(v) \/ (Forsaken(v) /\ clear(v, <<>>))
    BY <2>3, <2>4, <2>8
  <2>9. CASE \E v \in Vars \ spent :
          \/ Declare(v)
          \/ \E w \in Vars \ (spent \cup {v}) : CopyConstruct(v, w)
          \/ \E path \in PathsTo(v, MaxDepth) :
               \/ clear(v, path) \/ Element(v, path) \/ Extract(v, path)
               \/ \E w \in Vars \ (spent \cup {v}) : Assign(v, path, w) \/ append(v, path, w)
               \/ \E k \in Keys : Member(v, path, k) \/ RemoveKey(v, path, k)
               \/ \E i \in 1..MaxLen : RemoveIndex(v, path, i) /\ Removable(v, path, i)
    <3>1. PICK v \in Vars \ spent :
            \/ Declare(v)
            \/ \E w \in Vars \ (spent \cup {v}) : CopyConstruct(v, w)
            \/ \E path \in PathsTo(v, MaxDepth) :
                 \/ clear(v, path) \/ Element(v, path) \/ Extract(v, path)
                 \/ \E w \in Vars \ (spent \cup {v}) : Assign(v, path, w) \/ append(v, path, w)
                 \/ \E k \in Keys : Member(v, path, k) \/ RemoveKey(v, path, k)
                 \/ \E i \in 1..MaxLen : RemoveIndex(v, path, i) /\ Removable(v, path, i)
      BY <2>9, Zenon
    <3> QED
      BY <2>5, <2>6, <2>7, <3>1, Zenon
  <2> QED
    BY <1>2, <2>8, <2>9, Zenon DEF GivingNext
<1> QED
  BY <1>1, <1>2

\* In every state of a program that gives its values away some set of live blocks
\* keeps the values in use: each points into it, to a block of its type that no
\* other value points to.  No clear has gone wrong to get there.
THEOREM HeapSound == GivingSpec => []IInv
<1>1. Init => IInv
  BY InitKept
<1>2. IInv /\ [GivingNext]_vars => IInv'
  BY NextKept
<1> QED
  BY <1>1, <1>2, PTL DEF GivingSpec

\* A value of Json is always null, a scalar or a pointer to a block, and a block
\* always free, a string, an array of values no longer than its bound or an object
\* of values at keys: no operation leaves a type without what belongs to it.
THEOREM HeapTypes == GivingSpec => []TypeOK
<1>1. IInv => TypeOK
  BY IInvKept
<1> QED
  BY <1>1, HeapSound, PTL

\* A program that gives its values away never deletes a block twice and never reaches
\* a deleted one, however many variables, blocks, keys and elements there are and
\* however deep its arrays and objects are nested: OwnedOnce, which the run checks.
THEOREM OneOwner == GivingSpec => []OwnedOnce
<1>1. IInv => OwnedOnce
  BY IInvKept, KeptOwned DEF IInv
<1> QED
  BY <1>1, HeapSound, PTL

-------------------------------------------------------------------------------
(***************************************************************************)
(* The trees that values stand for                                           *)
(***************************************************************************)
NodeIn(h, b, below) ==
  IF h[b].k = "string" THEN [t |-> "string", atom |-> h[b].atom]
  ELSE [t |-> h[b].k,
        items |-> [i \in Holds(h, b) |->
                     IF IsPointer(h[b].items[i]) THEN below[h[b].items[i].p]
                     ELSE h[b].items[i]]]
GrowStep(h, g, n) ==
  [b \in Blocks |-> IF n = 0 \/ h[b] = Free THEN NullValue ELSE NodeIn(h, b, g[n - 1])]
Grown(h) == CHOOSE g : g = [n \in 0..Cardinality(Blocks) |-> GrowStep(h, g, n)]
TreeIn(h, x) == IF IsPointer(x) THEN Grown(h)[Cardinality(Blocks)][x.p] ELSE x

LEMMA TreeIsGrown ==
  ASSUME NEW x
  PROVE  Tree(x) = TreeIn(heap, x)
BY DEF Tree, Node, TreeIn, Grown, GrowStep, NodeIn

LEMMA GrownUnfolds ==
  ASSUME NEW h
  PROVE  /\ Cardinality(Blocks) \in Nat
         /\ Grown(h) = [n \in 0..Cardinality(Blocks) |-> GrowStep(h, Grown(h), n)]
<1> DEFINE Good == {n \in Nat : \E g : \A m \in 0..n : g[m] = GrowStep(h, g, m)}
<1>0. Cardinality(Blocks) \in Nat
  BY FS_CardinalityType, JsonHeapAssumption
<1>1. 0 \in Good
  <2> DEFINE first == [b \in Blocks |-> NullValue]
  <2>1. [m \in {0} |-> first][0] = first
    OBVIOUS
  <2>2. PICK g : g[0] = first
    BY <2>1
  <2>3. \A m \in 0..0 : g[m] = GrowStep(h, g, m)
    BY <2>2 DEF GrowStep
  <2> QED
    BY <2>3
<1>2. ASSUME NEW n \in Nat, n \in Good PROVE n + 1 \in Good
  <2>1. PICK g : \A m \in 0..n : g[m] = GrowStep(h, g, m)
    BY <1>2
  <2> DEFINE f == [m \in 0..n + 1 |-> IF m = n + 1 THEN GrowStep(h, g, n + 1) ELSE g[m]]
  <2>2. ASSUME NEW m \in 0..n + 1 PROVE f[m] = GrowStep(h, f, m)
    <3>1. f[m] = GrowStep(h, g, m)
      BY <2>1
    <3>2. m > 0 => f[m - 1] = g[m - 1]
      OBVIOUS
    <3> HIDE DEF f
    <3>3. GrowStep(h, g, m) = GrowStep(h, f, m)
      BY <3>2 DEF GrowStep
    <3> QED
      BY <3>1, <3>3
  <2>3. \E d : \A m \in 0..n + 1 : d[m] = GrowStep(h, d, m)
    <3> HIDE DEF f
    <3> QED
      BY <2>2
  <2> QED
    BY <2>3
<1>3. Cardinality(Blocks) \in Good
  <2> HIDE DEF Good
  <2> QED
    BY <1>0, <1>1, <1>2, SetInduction
<1>4. PICK g : \A m \in 0..Cardinality(Blocks) : g[m] = GrowStep(h, g, m)
  BY <1>3
<1> DEFINE f == [m \in 0..Cardinality(Blocks) |-> g[m]]
<1>5. ASSUME NEW m \in 0..Cardinality(Blocks) PROVE f[m] = GrowStep(h, f, m)
  <2>1. f[m] = GrowStep(h, g, m)
    BY <1>4
  <2>2. m > 0 => f[m - 1] = g[m - 1]
    BY <1>0
  <2> HIDE DEF f
  <2>3. GrowStep(h, g, m) = GrowStep(h, f, m)
    BY <2>2 DEF GrowStep
  <2> QED
    BY <2>1, <2>3
<1>6. f = [n \in 0..Cardinality(Blocks) |-> GrowStep(h, f, n)]
  BY <1>5
<1> QED
  BY <1>0, <1>6 DEF Grown

\* The trees of a level, from those of the level below.
LEMMA LevelGrown ==
  ASSUME NEW h, NEW n \in 1..Cardinality(Blocks), NEW b \in Blocks, h[b] # Free
  PROVE  Grown(h)[n][b] = NodeIn(h, b, Grown(h)[n - 1])
<1>1. Grown(h)[n] = GrowStep(h, Grown(h), n)
  BY GrownUnfolds
<1> QED
  BY <1>1 DEF GrowStep

\* A tree has the type of the value.
LEMMA TreeTyped ==
  ASSUME NEW U, Kept(U), NEW v \in Vars \ spent, NEW n \in Nat, NEW path \in PathsTo(v, n),
         NEW x, x = At(v, path)
  PROVE  /\ Tree(x).t = x.t
         /\ ~IsPointer(x) => Tree(x) = x
         /\ x.t = "string" => /\ Tree(x) = [t |-> "string", atom |-> heap[x.p].atom]
                              /\ StringOK(heap[x.p])
<1>1. Tree(x) = TreeIn(heap, x)
  BY TreeIsGrown
<1>2. CASE ~IsPointer(x)
  BY <1>1, <1>2 DEF TreeIn, IsPointer, Pointed
<1>3. CASE IsPointer(x)
  <2>1. x.p \in Blocks /\ heap[x.p].k = x.t /\ heap[x.p] # Free
    BY <1>3, PathKept
  <2>2. Cardinality(Blocks) \in 1..Cardinality(Blocks)
    <3>1. Cardinality(Blocks) \in Nat /\ Cardinality(Blocks) # 0
      BY <2>1, FS_CardinalityType, FS_EmptySet, JsonHeapAssumption
    <3> QED
      BY <3>1
  <2>3. Tree(x) = NodeIn(heap, x.p, Grown(heap)[Cardinality(Blocks) - 1])
    BY <1>1, <1>3, <2>1, <2>2, LevelGrown DEF TreeIn
  <2>4. BlockOK(heap[x.p])
    BY <2>1, KeptHeap DEF HeapOK
  <2> QED
    BY <1>3, <2>1, <2>3, <2>4, Kinds, SMTT(30) DEF NodeIn
<1> QED
  BY <1>2, <1>3

LEMMA KeptCompares ==
  ASSUME NEW U, Kept(U), fault # "double_free"
  PROVE  ComparesLeaves
<1> SUFFICES ASSUME NEW x \in Places, NEW y \in Places, x # y,
                    NEW a, NEW b, a = At(x[1], x[2]), b = At(y[1], y[2])
             PROVE  Equal(a, b) <=> a.t \notin {"array", "object"} /\ Tree(a) = Tree(b)
  BY DEF ComparesLeaves
<1>0. Cardinality(Blocks) \in Nat
  BY FS_CardinalityType, JsonHeapAssumption
<1>1. ASSUME NEW z \in Places, NEW c, c = At(z[1], z[2])
      PROVE  /\ Tree(c).t = c.t /\ c \in Value
             /\ ~IsPointer(c) => Tree(c) = c
             /\ c.t = "string" => /\ Tree(c) = [t |-> "string", atom |-> heap[c.p].atom]
                                  /\ StringOK(heap[c.p])
             /\ IsPointer(c) => c.p \in Blocks
  <2>1. PICK v \in Vars \ spent : \E p \in PathsTo(v, Cardinality(Blocks)) : z[1] = v /\ z[2] = p
    BY DEF Places
  <2>2. PICK p \in PathsTo(v, Cardinality(Blocks)) : z[1] = v /\ z[2] = p
    BY <2>1
  <2>3. c = At(v, p)
    BY <1>1, <2>2
  <2>4. c \in Value /\ (IsPointer(c) => c.p \in Blocks)
    BY <1>0, <2>3, PathKept
  <2>5. /\ Tree(c).t = c.t
        /\ ~IsPointer(c) => Tree(c) = c
        /\ c.t = "string" => /\ Tree(c) = [t |-> "string", atom |-> heap[c.p].atom]
                             /\ StringOK(heap[c.p])
    BY <1>0, <2>3, TreeTyped
  <2> QED
    BY <2>4, <2>5
<1>2. /\ Tree(a).t = a.t /\ a \in Value
      /\ ~IsPointer(a) => Tree(a) = a
      /\ a.t = "string" => /\ Tree(a) = [t |-> "string", atom |-> heap[a.p].atom]
                           /\ StringOK(heap[a.p])
  BY <1>1
<1>3. /\ Tree(b).t = b.t /\ b \in Value
      /\ ~IsPointer(b) => Tree(b) = b
      /\ b.t = "string" => /\ Tree(b) = [t |-> "string", atom |-> heap[b.p].atom]
                           /\ StringOK(heap[b.p])
  BY <1>1
<1>4. CASE a.t = "string" /\ b.t = "string"
  <2>1. Equal(a, b) <=> heap[a.p] = heap[b.p]
    BY <1>4 DEF Equal
  <2>2. heap[a.p] = heap[b.p] <=> heap[a.p].atom = heap[b.p].atom
    BY <1>2, <1>3, <1>4 DEF StringOK
  <2>3. Tree(a) = Tree(b) <=> heap[a.p].atom = heap[b.p].atom
    BY <1>2, <1>3, <1>4
  <2> QED
    BY <1>4, <2>1, <2>2, <2>3
<1>5. CASE ~(a.t = "string" /\ b.t = "string")
  <2>1. Equal(a, b) <=> a = b
    BY <1>5 DEF Equal
  <2>2. CASE ~IsPointer(a)
    <3>1. a.t \notin {"array", "object"} /\ Tree(a) = a
      BY <1>2, <2>2 DEF IsPointer, Pointed
    <3>2. CASE ~IsPointer(b)
      BY <1>3, <2>1, <3>1, <3>2
    <3>3. CASE IsPointer(b)
      BY <1>3, <2>1, <2>2, <3>1, <3>3 DEF IsPointer
    <3> QED
      BY <3>2, <3>3
  <2>3. CASE a.t = "string"
    <3>1. a # b /\ Tree(a) # Tree(b)
      BY <1>2, <1>3, <1>5, <2>3
    <3> QED
      BY <2>1, <3>1
  <2>4. CASE a.t \in {"array", "object"}
    <3>1. SUFFICES ASSUME a = b PROVE FALSE
      BY <2>1, <2>4
    <3>2. IsPointer(a) /\ IsPointer(b) /\ a.p \in Blocks /\ b.p = a.p
      BY <1>1, <2>4, <3>1 DEF IsPointer, Pointed
    <3>3. Leads(x, a.p) /\ Leads(y, a.p)
      BY <3>2 DEF Leads
    <3>4. OwnedOnce
      BY KeptOwned
    <3> QED
      BY <3>2, <3>3, <3>4 DEF OwnedOnce
  <2> QED
    BY <2>2, <2>3, <2>4 DEF IsPointer, Pointed
<1> QED
  BY <1>4, <1>5

\* operator== says of two values in use what their trees say if they are scalars or
\* strings, and never that two arrays or two objects are equal: ComparesLeaves, for
\* every number of variables, blocks and atoms.
THEOREM LeavesCompared == GivingSpec => []ComparesLeaves
<1>1. IInv => ComparesLeaves
  BY IInvKept, KeptCompares DEF IInv
<1> QED
  BY <1>1, HeapSound, PTL
===============================================================================
