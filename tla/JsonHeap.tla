------------------------------ MODULE JsonHeap ------------------------------
(***************************************************************************)
(* Json as it is: a type and a union that holds a scalar or a pointer.     *)
(* copy takes over the pointer of the other value, clear deletes what it   *)
(* points at, there is no destructor.  So two values may share a block,    *)
(* and the first clear leaves the other one dangling.  A program is safe   *)
(* as long as it gives values away: one that has been assigned, appended   *)
(* or copied is not used again before its scope ends, except to clear what *)
(* no value in use points at any more (GivingNext).  That is how           *)
(* Cache::getOnlineUser, getOfflineUser and sendNewUserForInfo use it.     *)
(* Scalars and strings contain atoms; bool, int and double are one type:   *)
(* of the operations that are modelled, only == tells them apart, and a    *)
(* different type is a different atom to it.  getValue, which prints them, *)
(* is not modelled.                                                        *)
(***************************************************************************)
EXTENDS Naturals, Sequences, FiniteSets, SequencesExt

CONSTANTS
  Vars,     \* the program's variables of type Json
  Blocks,   \* addresses that new can return
  Nil,      \* nullptr
  Keys,     \* keys of objects
  Atoms,    \* what scalars and strings contain
  MaxDepth, \* bound of the model: steps of a path
  MaxLen    \* bound of the model: elements of an array

ASSUME JsonHeapAssumption ==
  /\ Nil \notin Blocks /\ IsFiniteSet(Blocks)
  /\ Keys \cap Nat = {} /\ MaxDepth \in Nat /\ MaxLen \in Nat

VARIABLES
  env,   \* the values of the variables
  heap,  \* the blocks
  spent, \* variables whose value has been given away
  fault  \* "none", or the undefined behaviour that came up

vars == <<env, heap, spent, fault>>

NullValue == [t |-> "null"]
Pointed   == {"string", "array", "object"}
Free      == [k |-> "free"]
Value     == [t : {"null"}] \cup [t : {"scalar"}, atom : Atoms]
                            \cup [t : Pointed, p : Blocks]
IsPointer(x)   == x.t \in Pointed
Pointer(t, b)  == [t |-> t, p |-> b]
Filled(k, f)   == [k |-> k, items |-> f]
Holds(h, b)    == IF h[b].k \in {"array", "object"} THEN DOMAIN h[b].items ELSE {}
Running        == fault = "none"

\* TLC's :> and @@, which the provers do not know.
Single(k, x) == [i \in {k} |-> x]
Onto(f, g)   == [i \in DOMAIN f \cup DOMAIN g |-> IF i \in DOMAIN f THEN f[i] ELSE g[i]]

\* The value at the end of a path of operator[] calls, and what is stored there.
At(v, path) ==
  LET at[n \in 0..Len(path)] ==
        IF n = 0 THEN env[v] ELSE heap[at[n - 1].p].items[path[n]]
  IN  at[Len(path)]

PathsTo(v, depth) ==
  LET next(p) == IF IsPointer(At(v, p)) THEN Holds(heap, At(v, p).p) ELSE {}
      upTo[n \in 0..depth] ==
        IF n = 0 THEN {<<>>}
        ELSE LET shorter == upTo[n - 1] IN
             shorter \cup UNION {{Append(p, i) : i \in next(p)} : p \in shorter}
  IN  upTo[depth]

\* Step: heap h, with x stored at the end of the path.
Store(h, v, path, x) ==
  IF path = <<>>
  THEN env' = [env EXCEPT ![v] = x] /\ heap' = h
  ELSE /\ heap' = [h EXCEPT ![At(v, Front(path)).p].items[Last(path)] = x]
       /\ UNCHANGED env

Init ==
  /\ env = [v \in Vars |-> NullValue] /\ heap = [b \in Blocks |-> Free]
  /\ spent = {} /\ fault = "none"

(***************************************************************************)
(* clear                                                                   *)
(***************************************************************************)
\* The blocks that clear of value x deletes: an array's elements are cleared
\* with it, an object's members are not.
Elements(S) ==
  {x \in S \X (1..MaxLen) : heap[x[1]].k = "array" /\ x[2] \in Holds(heap, x[1])
                            /\ IsPointer(heap[x[1]].items[x[2]])}
Target(x) == heap[x[1]].items[x[2]].p

Cleared(x) ==
  LET deep[n \in 0..Cardinality(Blocks)] ==
        IF n = 0 THEN IF IsPointer(x) THEN {x.p} ELSE {}
        ELSE LET above == deep[n - 1] IN above \cup {Target(y) : y \in Elements(above)}
  IN  deep[Cardinality(Blocks)]

\* It deletes no block that is deleted, and none twice.
Clearable(x) ==
  LET blocks == Cleared(x) IN
  /\ \A b \in blocks : heap[b] # Free
  /\ \A y, z \in Elements(blocks) :
       Target(y) # x.p /\ (Target(y) = Target(z) => y = z)

Without(S) == [b \in Blocks |-> IF b \in S THEN Free ELSE heap[b]]

\* Step: the process ends, and with it its values.
Crash(f) ==
  /\ env' = [v \in Vars |-> NullValue] /\ heap' = [b \in Blocks |-> Free]
  /\ spent' = {} /\ fault' = f

\* Step: the place is cleared and gets x, with the blocks that x needs; the
\* values of the variables `given` have been taken over.
Replace(v, path, x, new, given) ==
  LET old == At(v, path) IN
  IF Clearable(old)
  THEN /\ Store(Onto(new, Without(Cleared(old))), v, path, x)
       /\ spent' = spent \cup given /\ UNCHANGED fault
  ELSE Crash("double_free")

NoBlock == <<>>

\* Mutant: the type is kept.
clearKeepingType(v, path) == Replace(v, path, At(v, path), NoBlock, {})

clear(v, path) == Replace(v, path, NullValue, NoBlock, {})

(***************************************************************************)
(* Construction, assignment                                                *)
(***************************************************************************)
Unused(v) == env[v] = NullValue /\ v \notin spent

Declare(v) ==
  /\ Unused(v)
  /\ \/ \E a \in Atoms : env' = [env EXCEPT ![v] = [t |-> "scalar", atom |-> a]]
                         /\ UNCHANGED heap
     \/ \E b \in Blocks, a \in Atoms :
          /\ heap[b] = Free /\ heap' = [heap EXCEPT ![b] = [k |-> "string", atom |-> a]]
          /\ env' = [env EXCEPT ![v] = Pointer("string", b)]
     \/ \E b \in Blocks, t \in {"array", "object"} :
          /\ heap[b] = Free /\ heap' = [heap EXCEPT ![b] = Filled(t, <<>>)]
          /\ env' = [env EXCEPT ![v] = Pointer(t, b)]
  /\ UNCHANGED <<spent, fault>>

\* No destructor: nothing is deleted.
EndScope(v) ==
  /\ v \in spent
  /\ env' = [env EXCEPT ![v] = NullValue] /\ spent' = spent \ {v}
  /\ UNCHANGED <<heap, fault>>

\* The copy constructor has taken over the type before copy calls clear, and the
\* union is not initialised: unless it happens to be null, what is deleted is
\* some address.
WildDelete(copied) ==
  (\E x \in copied : IsPointer(x)) /\ Crash("wild_delete")

CopyConstruct(v, w) ==
  /\ Unused(v)
  /\ \/ /\ env' = [env EXCEPT ![v] = env[w]] /\ spent' = spent \cup {w}
        /\ UNCHANGED <<heap, fault>>
     \/ WildDelete({env[w]})

\* operator=
Assign(v, path, w) == Replace(v, path, env[w], NoBlock, {w})

(***************************************************************************)
(* Arrays and objects                                                      *)
(***************************************************************************)
\* push_back copies the value and, when the vector grows, its elements.
append(v, path, w) ==
  LET old   == At(v, path)
      items == IF old.t = "array" THEN heap[old.p].items ELSE <<>> IN
  /\ Len(items) < MaxLen
  /\ \/ /\ old.t = "array"
        /\ heap' = [heap EXCEPT ![old.p].items = Append(@, env[w])]
        /\ spent' = spent \cup {w} /\ UNCHANGED <<env, fault>>
     \/ /\ old.t # "array"
        /\ \E b \in Blocks :
             /\ Without(Cleared(old))[b] = Free
             /\ Replace(v, path, Pointer("array", b),
                        Single(b, Filled("array", <<env[w]>>)), {w})
     \/ WildDelete({env[w]} \cup Range(items))

\* Mutant: makes an array of the value without a vector for it.
ElementUnmade(v, path) ==
  /\ At(v, path).t # "array"
  /\ Store(heap, v, path, Pointer("array", Nil))
  /\ UNCHANGED <<spent, fault>>

\* operator[](int) on what is no array: makes it an empty one, without a clear,
\* and throws (the program catches it).  On an array it changes nothing.
Element(v, path) ==
  /\ At(v, path).t # "array"
  /\ \E b \in Blocks :
       /\ heap[b] = Free
       /\ Store([heap EXCEPT ![b] = Filled("array", <<>>)], v, path, Pointer("array", b))
  /\ UNCHANGED <<spent, fault>>

\* Mutant: a member that is there is made anew.
MemberAnew(v, path, k) ==
  LET old == At(v, path) IN
  \/ /\ old.t = "object"
     /\ heap' = [heap EXCEPT ![old.p].items = Onto(Single(k, NullValue), @)]
     /\ UNCHANGED <<env, spent, fault>>
  \/ /\ old.t # "object"
     /\ \E b \in Blocks :
          /\ Without(Cleared(old))[b] = Free
          /\ Replace(v, path, Pointer("object", b),
                     Single(b, Filled("object", Single(k, NullValue))), {})

\* operator[](key): the member is added unless it is there.
Member(v, path, k) ==
  LET old == At(v, path) IN
  \/ /\ old.t = "object"
     /\ heap' = [heap EXCEPT ![old.p].items = Onto(@, Single(k, NullValue))]
     /\ UNCHANGED <<env, spent, fault>>
  \/ /\ old.t # "object"
     /\ \E b \in Blocks :
          /\ Without(Cleared(old))[b] = Free
          /\ Replace(v, path, Pointer("object", b),
                     Single(b, Filled("object", Single(k, NullValue))), {})

\* remove(i - 1): vector::erase assigns to each element the next one, and the
\* assignment clears what the element holds.
RemoveIndex(v, path, i) ==
  LET old   == At(v, path)
      items == IF old.t = "array" THEN heap[old.p].items ELSE <<>>
      moved == i..Len(items) - 1 IN
  /\ i \in 1..Len(items)
  /\ IF \A j \in moved : Clearable(items[j])
     THEN /\ heap' = [Without(UNION {Cleared(items[j]) : j \in moved})
                        EXCEPT ![old.p].items = RemoveAt(items, i)]
          /\ UNCHANGED <<env, spent, fault>>
     ELSE Crash("double_free")

\* toArray, toObject and the conversions to vector and map copy the elements, and
\* throw for any other type; the copies are thrown away with no destructor.
Extract(v, path) ==
  LET old == At(v, path) IN
  old.t \in {"array", "object"} /\ WildDelete(Range(heap[old.p].items))

\* remove(key): nothing is cleared.
RemoveKey(v, path, k) ==
  LET old == At(v, path) IN
  /\ old.t = "object" /\ k \in DOMAIN heap[old.p].items
  /\ heap' = [heap EXCEPT ![old.p].items = Restrict(@, DOMAIN @ \ {k})]
  /\ UNCHANGED <<env, spent, fault>>

(***************************************************************************)
(* Comparison                                                              *)
(***************************************************************************)
\* Mutant: two strings are equal whatever they contain.
SameType(x, y) == IF x.t = "string" /\ y.t = "string" THEN TRUE ELSE x = y

\* operator==: strings by what they contain, arrays and objects by pointer.
Equal(x, y) ==
  IF x.t = "string" /\ y.t = "string" THEN heap[x.p] = heap[y.p] ELSE x = y

-----------------------------------------------------------------------------
\* In place of an element that is removed comes the next one: unless that is the
\* last, it is deleted itself if it points anywhere.
Removable(v, path, i) ==
  LET items == heap[At(v, path).p].items IN
  \A j \in i + 1..Len(items) - 1 : ~IsPointer(items[j])

\* Values in use: where they are, by variable and path.
Places == UNION {{<<v, p>> : p \in PathsTo(v, Cardinality(Blocks))} : v \in Vars \ spent}
Leads(x, b) == IsPointer(At(x[1], x[2])) /\ At(x[1], x[2]).p = b

\* What v was given to is gone, and has left its blocks where they were.
Forsaken(v) ==
  /\ IsPointer(env[v]) => heap[env[v].p].k = env[v].t
  /\ Clearable(env[v])
  /\ \A x \in Places, b \in Cleared(env[v]) : ~Leads(x, b)

GivingNext ==
  /\ Running
  /\ \/ \E v \in spent : EndScope(v) \/ (Forsaken(v) /\ clear(v, <<>>))
     \/ \E v \in Vars \ spent :
          \/ Declare(v)
          \/ \E w \in Vars \ (spent \cup {v}) : CopyConstruct(v, w)
          \/ \E path \in PathsTo(v, MaxDepth) :
               \/ clear(v, path) \/ Element(v, path) \/ Extract(v, path)
               \/ \E w \in Vars \ (spent \cup {v}) :
                    Assign(v, path, w) \/ append(v, path, w)
               \/ \E k \in Keys : Member(v, path, k) \/ RemoveKey(v, path, k)
               \/ \E i \in 1..MaxLen :
                    RemoveIndex(v, path, i) /\ Removable(v, path, i)

GivingSpec == Init /\ [][GivingNext]_vars

-----------------------------------------------------------------------------
(***************************************************************************)
(* Properties                                                              *)
(***************************************************************************)
\* Every variable has its type.
TypeOK ==
  /\ env \in [Vars -> Value] /\ spent \in SUBSET Vars
  /\ fault \in {"none", "wild_delete", "double_free"}
  /\ \A b \in Blocks :
       \/ heap[b] \in {Free} \cup [k : {"string"}, atom : Atoms]
       \/ /\ heap[b] = Filled("array", heap[b].items)
          /\ heap[b].items \in Seq(Value) /\ Len(heap[b].items) <= MaxLen
       \/ /\ heap[b] = Filled("object", heap[b].items)
          /\ DOMAIN heap[b].items \subseteq Keys
          /\ heap[b].items \in [DOMAIN heap[b].items -> Value]

\* Whatever a program that gives its values away does (operator[], append,
\* remove, assignments through paths, clear): what a value in use points at is
\* live and of its type, and no other value in use points there.  Sharing in
\* copy is harmless then: nothing is deleted twice, nothing dangles.
OwnedOnce ==
  /\ \A x \in Places, b \in Blocks : Leads(x, b) =>
       /\ heap[b].k = At(x[1], x[2]).t
       /\ \A y \in Places : Leads(y, b) => y = x
  /\ fault # "double_free"

\* The tree that a value stands for; block b's, from the trees below it.
Node(b, below) ==
  IF heap[b].k = "string" THEN [t |-> "string", atom |-> heap[b].atom]
  ELSE [t |-> heap[b].k,
        items |-> [i \in Holds(heap, b) |->
                     LET y == heap[b].items[i] IN IF IsPointer(y) THEN below[y.p] ELSE y]]

Tree(x) ==
  LET tree[n \in 0..Cardinality(Blocks)] ==
        [b \in Blocks |-> IF n = 0 \/ heap[b] = Free THEN NullValue
                          ELSE Node(b, tree[n - 1])]
  IN  IF IsPointer(x) THEN tree[Cardinality(Blocks)][x.p] ELSE x

\* operator== compares scalars and strings as the trees they stand for, however
\* they came to their places, and never finds two arrays or two objects in
\* different places equal, whatever they contain.
ComparesLeaves ==
  \A x, y \in Places : x # y =>
    LET a == At(x[1], x[2])  b == At(y[1], y[2]) IN
    Equal(a, b) <=> a.t \notin {"array", "object"} /\ Tree(a) = Tree(b)

\* ... and its variables are trees in the sense of JsonValues: an operation has
\* its effect at the end of its path and nowhere else.
Values == INSTANCE JsonValues WITH
            val <- [v \in Vars |-> IF v \in spent THEN NullValue ELSE Tree(env[v])]
ImplementsValues == Values!Spec
=============================================================================
