------------------------------- MODULE SplitProofs -------------------------------
(***************************************************************************)
(* TcpTool::splitStr returns the longest stretches without a delimiter, one   *)
(* after the other, for every text and delimiter.                            *)
(***************************************************************************)
EXTENDS Split, Induction, FiniteSetTheorems, TLAPS

Text(src, a, b) == SubSeq(src, a, b)

\* One call of find and what follows it, where g stands for the pieces of the rest.
Round(src, d, g, p) ==
  LET index == Find(src, d, p) IN
  IF index = 0 THEN Piece(Text(src, p, Len(src)))
  ELSE Piece(Text(src, p, index - 1)) \o g[index + 1]

Loop(src, d) == CHOOSE g : g = [p \in 1..Len(src) + 1 |-> Round(src, d, g, p)]

LEMMA SplitIsLoop ==
  ASSUME NEW src, NEW d
  PROVE  splitStr(src, d) = IF src \in {<<>>, <<d>>} THEN <<>> ELSE Loop(src, d)[1]
BY DEF splitStr, Loop, Round, Text

LEMMA FindFinds ==
  ASSUME NEW T, NEW src \in Seq(T), NEW d, NEW p \in 1..Len(src) + 1
  PROVE  \/ Find(src, d, p) = 0 /\ \A i \in p..Len(src) : src[i] # d
         \/ /\ Find(src, d, p) \in p..Len(src) /\ src[Find(src, d, p)] = d
            /\ \A i \in p..Find(src, d, p) - 1 : src[i] # d
<1> DEFINE found == {i \in p..Len(src) : src[i] = d}
<1>1. CASE found = {}
  BY <1>1 DEF Find
<1>2. CASE found # {}
  <2>1. found \in SUBSET Nat
    OBVIOUS
  <2>2. \E i \in found : \A j \in found : i <= j
    <3> HIDE DEF found
    <3> QED
      BY <1>2, <2>1, LeastNumber
  <2>3. Find(src, d, p) \in found /\ \A j \in found : Find(src, d, p) <= j
    BY <1>2, <2>2 DEF Find
  <2>4. ASSUME NEW i \in p..Find(src, d, p) - 1 PROVE src[i] # d
    BY <2>3
  <2> QED
    BY <2>3, <2>4
<1> QED
  BY <1>1, <1>2

\* The recursion is well-founded: each round starts behind the one before.
LEMMA LoopUnfolds ==
  ASSUME NEW T, NEW src \in Seq(T), NEW d
  PROVE  Loop(src, d) = [p \in 1..Len(src) + 1 |-> Round(src, d, Loop(src, d), p)]
<1> DEFINE n == Len(src) + 1
           From(k, g) == /\ DOMAIN g = k..n
                         /\ \A p \in k..n : g[p] = Round(src, d, g, p)
           Good == {k \in 1..n : \E g : From(k, g)}
<1>1. n \in Nat /\ n >= 1
  OBVIOUS
<1>2. ASSUME NEW p \in 1..n, NEW g, NEW h, \A i \in p + 1..n : g[i] = h[i]
      PROVE  Round(src, d, g, p) = Round(src, d, h, p)
  BY <1>2, FindFinds DEF Round
<1>3. ASSUME NEW k \in 1..n, \A j \in k + 1..n : j \in Good PROVE k \in Good
  <2>1. PICK g : \A p \in k + 1..n : g[p] = Round(src, d, g, p)
    <3>1. CASE k + 1 \in 1..n
      <4>1. PICK g : From(k + 1, g)
        BY <1>3, <3>1
      <4> QED
        BY <4>1
    <3>2. CASE k + 1 > n
      BY <3>2
    <3> QED
      BY <3>1, <3>2
  <2> DEFINE h == [p \in k..n |-> IF p = k THEN Round(src, d, g, k) ELSE g[p]]
  <2>2. ASSUME NEW p \in k..n PROVE h[p] = Round(src, d, h, p)
    <3>1. Round(src, d, g, p) = Round(src, d, h, p)
      <4>1. \A i \in p + 1..n : g[i] = h[i]
        OBVIOUS
      <4>2. p \in 1..n
        OBVIOUS
      <4> HIDE DEF h
      <4> QED
        BY <1>2, <4>1, <4>2
    <3> HIDE DEF Round
    <3> QED
      BY <2>1, <3>1
  <2> QED
    BY <2>2
<1>4. \E g : From(1, g)
  <2>1. 1..n \subseteq Good
    <3> HIDE DEF Good, n
    <3> QED
      BY <1>1, <1>3, DownInduction
  <2> QED
    BY <2>1
<1>5. \E g : g = [p \in 1..n |-> Round(src, d, g, p)]
  <2>1. PICK g : From(1, g)
    BY <1>4
  <2> DEFINE h == [p \in 1..n |-> g[p]]
  <2>2. ASSUME NEW p \in 1..n PROVE h[p] = Round(src, d, h, p)
    BY <1>2, <2>1
  <2>3. h = [p \in 1..n |-> Round(src, d, h, p)]
    BY <2>2
  <2> QED
    BY <2>3
<1> QED
  BY <1>5 DEF Loop

-------------------------------------------------------------------------------
(***************************************************************************)
(* Lists of stretches                                                       *)
(***************************************************************************)
Rank(S, s) == Cardinality({r \in S : r[1] < s[1]})

\* pieces has the stretches of S in order.
Lists(pieces, S, src) ==
  /\ Len(pieces) = Cardinality(S)
  /\ \A s \in S : pieces[1 + Rank(S, s)] = Text(src, s[1], s[2])

LEMMA PrependLists ==
  ASSUME NEW src, NEW S \in SUBSET (Nat \X Nat), IsFiniteSet(S),
         NEW f \in Nat \X Nat, \A s \in S : f[1] < s[1],
         NEW X, NEW piece \in X, piece = Text(src, f[1], f[2]),
         NEW pieces \in Seq(X), Lists(pieces, S, src)
  PROVE  Lists(<<piece>> \o pieces, S \cup {f}, src)
<1> DEFINE all == <<piece>> \o pieces
<1>1. f \notin S
  BY DEF Lists
<1>2. /\ Cardinality(S \cup {f}) = Cardinality(S) + 1
      /\ Cardinality(S) \in Nat
  BY <1>1, FS_AddElement, FS_CardinalityType
<1>3. Len(all) = Len(pieces) + 1 /\ all[1] = piece
  OBVIOUS
<1>4. \A i \in 1..Len(pieces) : all[i + 1] = pieces[i]
  OBVIOUS
<1>5. ASSUME NEW s \in S PROVE all[1 + Rank(S \cup {f}, s)] = Text(src, s[1], s[2])
  <2> DEFINE before == {r \in S : r[1] < s[1]}
  <2>1. {r \in S \cup {f} : r[1] < s[1]} = before \cup {f}
    OBVIOUS
  <2>2. /\ IsFiniteSet(before) /\ Cardinality(before) <= Cardinality(S)
        /\ Cardinality(before) = Cardinality(S) => before = S
    BY FS_Subset
  <2>3. s \in S /\ s \notin before /\ f \notin before
    BY <1>1
  <2>4. Cardinality(before) \in Nat /\ Cardinality(before \cup {f}) = Cardinality(before) + 1
    BY <2>2, <2>3, FS_AddElement, FS_CardinalityType
  <2>5. Rank(S, s) = Cardinality(before) /\ Rank(S \cup {f}, s) = Rank(S, s) + 1
    BY <2>1, <2>4 DEF Rank
  <2>6. Rank(S, s) \in Nat /\ Rank(S, s) < Cardinality(S)
    BY <2>2, <2>3, <2>4, <2>5, <1>2
  <2>7. Rank(S, s) + 1 \in 1..Len(pieces)
    BY <2>6, <1>2 DEF Lists
  <2>8. all[1 + Rank(S \cup {f}, s)] = pieces[1 + Rank(S, s)]
    <3>1. 1 + Rank(S \cup {f}, s) = (Rank(S, s) + 1) + 1 /\ 1 + Rank(S, s) = Rank(S, s) + 1
      BY <2>5, <2>6
    <3> HIDE DEF all
    <3> QED
      BY <2>7, <3>1, <1>4
  <2> HIDE DEF all
  <2> QED
    BY <2>8 DEF Lists
<1>6. all[1 + Rank(S \cup {f}, f)] = Text(src, f[1], f[2])
  <2>1. {r \in S \cup {f} : r[1] < f[1]} = {}
    OBVIOUS
  <2>2. Rank(S \cup {f}, f) = 0
    BY <2>1, FS_EmptySet DEF Rank
  <2>3. 1 + Rank(S \cup {f}, f) = 1
    BY <2>2
  <2> HIDE DEF all
  <2> QED
    BY <2>3, <1>3
<1> QED
  <2> HIDE DEF all
  <2>1. Len(all) = Cardinality(S \cup {f})
    BY <1>2, <1>3 DEF Lists
  <2>2. \A s \in S \cup {f} : all[1 + Rank(S \cup {f}, s)] = Text(src, s[1], s[2])
    BY <1>5, <1>6
  <2>3. Lists(all, S \cup {f}, src)
    BY <2>1, <2>2 DEF Lists
  <2> QED
    BY <2>3 DEF all

-------------------------------------------------------------------------------
(***************************************************************************)
(* One round                                                                *)
(***************************************************************************)
\* The stretches that begin at p or later.
From(src, d, p) == {s \in Stretches(src, d) : s[1] >= p}

\* Where a round can start.
Boundary(src, d, p) == p = 1 \/ src[p - 1] = d

LEMMA FromFinite ==
  ASSUME NEW T, NEW src \in Seq(T), NEW d, NEW p
  PROVE  /\ From(src, d, p) \in SUBSET (Nat \X Nat)
         /\ IsFiniteSet(From(src, d, p)) /\ IsFiniteSet(Stretches(src, d))
<1> DEFINE all == (1..Len(src)) \X (1..Len(src))
<1>1. IsFiniteSet(all)
  <2>1. IsFiniteSet(1..Len(src))
    BY FS_Interval
  <2> QED
    BY <2>1, FS_Product
<1>2. From(src, d, p) \subseteq all /\ Stretches(src, d) \subseteq all
  BY DEF From, Stretches
<1>3. all \subseteq Nat \X Nat
  OBVIOUS
<1> HIDE DEF all
<1> QED
  BY <1>1, <1>2, <1>3, FS_Subset

LEMMA InFrom ==
  ASSUME NEW T, NEW src \in Seq(T), NEW d, NEW p \in Nat, NEW a, NEW b
  PROVE  <<a, b>> \in From(src, d, p) <=>
           /\ a \in 1..Len(src) /\ b \in 1..Len(src) /\ a <= b /\ a >= p
           /\ \A i \in a..b : src[i] # d
           /\ a = 1 \/ src[a - 1] = d
           /\ b = Len(src) \/ src[b + 1] = d
BY DEF From, Stretches

LEMMA FromLast ==
  ASSUME NEW T, NEW src \in Seq(T), NEW d, NEW p \in 1..Len(src) + 1,
         Boundary(src, d, p), \A i \in p..Len(src) : src[i] # d
  PROVE  From(src, d, p) = IF p > Len(src) THEN {} ELSE {<<p, Len(src)>>}
<1>1. ASSUME NEW a \in 1..Len(src), NEW b \in 1..Len(src), <<a, b>> \in From(src, d, p)
      PROVE  a = p /\ b = Len(src)
  BY <1>1, InFrom
<1>2. p <= Len(src) => <<p, Len(src)>> \in From(src, d, p)
  BY InFrom DEF Boundary
<1>3. \A s \in From(src, d, p) : \E a, b \in 1..Len(src) : s = <<a, b>>
  BY DEF From, Stretches
<1> QED
  BY <1>1, <1>2, <1>3

LEMMA FromNext ==
  ASSUME NEW T, NEW src \in Seq(T), NEW d, NEW p \in 1..Len(src) + 1,
         Boundary(src, d, p), NEW q \in p..Len(src), src[q] = d,
         \A i \in p..q - 1 : src[i] # d
  PROVE  /\ p = q => From(src, d, p) = From(src, d, q + 1)
         /\ p < q => From(src, d, p) = From(src, d, q + 1) \cup {<<p, q - 1>>}
<1>1. ASSUME NEW a \in 1..Len(src), NEW b \in 1..Len(src), <<a, b>> \in From(src, d, p)
      PROVE  <<a, b>> \in From(src, d, q + 1) \/ (p < q /\ a = p /\ b = q - 1)
  BY <1>1, InFrom, SMTT(30)
<1>2. p < q => <<p, q - 1>> \in From(src, d, p)
  BY InFrom DEF Boundary
<1>3. ASSUME NEW x \in Nat
      PROVE  \A s \in From(src, d, x) : \E a, b \in 1..Len(src) : s = <<a, b>>
  BY DEF From, Stretches
<1>4. From(src, d, q + 1) \subseteq From(src, d, p)
  BY DEF From, Stretches
<1>5. CASE p = q
  <2>1. From(src, d, p) \subseteq From(src, d, q + 1)
    BY <1>1, <1>3, <1>5
  <2>2. From(src, d, p) = From(src, d, q + 1)
    BY <2>1, <1>4
  <2> QED
    BY <2>2, <1>5
<1>6. CASE p < q
  <2>1. From(src, d, p) \subseteq From(src, d, q + 1) \cup {<<p, q - 1>>}
    BY <1>1, <1>3
  <2> QED
    BY <2>1, <1>2, <1>4, <1>6
<1> QED
  BY <1>5, <1>6

-------------------------------------------------------------------------------
(***************************************************************************)
(* The result                                                               *)
(***************************************************************************)
LEMMA PieceOf ==
  ASSUME NEW T, NEW src \in Seq(T), NEW a \in 1..Len(src) + 1, NEW b \in a - 1..Len(src)
  PROVE  /\ Text(src, a, b) \in Seq(T)
         /\ b < a => Piece(Text(src, a, b)) = <<>>
         /\ b >= a => Piece(Text(src, a, b)) = <<Text(src, a, b)>>
<1>1. /\ Text(src, a, b) \in Seq(T)
      /\ Len(Text(src, a, b)) = IF b < a THEN 0 ELSE b - a + 1
  BY DEF Text
<1>2. Text(src, a, b) = <<>> <=> b < a
  BY <1>1
<1> QED
  BY <1>1, <1>2 DEF Piece

LEMMA FewListed ==
  ASSUME NEW src
  PROVE  /\ Lists(<<>>, {}, src)
         /\ \A f \in Nat \X Nat : Lists(<<Text(src, f[1], f[2])>>, {f}, src)
<1>1. Lists(<<>>, {}, src)
  BY FS_EmptySet DEF Lists
<1>2. ASSUME NEW f \in Nat \X Nat, NEW piece, piece = Text(src, f[1], f[2])
      PROVE  Lists(<<piece>>, {f}, src)
  <2>1. {r \in {f} : r[1] < f[1]} = {}
    OBVIOUS
  <2>2. 1 + Rank({f}, f) = 1
    BY <2>1, FS_EmptySet DEF Rank
  <2>3. Cardinality({f}) = 1 /\ Len(<<piece>>) = 1 /\ <<piece>>[1] = piece
    BY FS_Singleton
  <2> QED
    BY <1>2, <2>2, <2>3 DEF Lists
<1> QED
  BY <1>1, <1>2

LEMMA ConcatEmpty ==
  ASSUME NEW X, NEW s \in Seq(X)
  PROVE  <<>> \o s = s
OBVIOUS

LEMMA ConcatOne ==
  ASSUME NEW X, NEW x \in X, NEW s \in Seq(X)
  PROVE  <<x>> \o s \in Seq(X) /\ <<x>> \in Seq(X) /\ <<>> \in Seq(X)
OBVIOUS

\* What a piece list must be from p on.
Right(pieces, T, src, d, p) ==
  pieces \in Seq(Seq(T)) /\ Lists(pieces, From(src, d, p), src)

\* A round returns what is left to return if the round it goes on with does.
LEMMA RoundLists ==
  ASSUME NEW T, NEW src \in Seq(T), NEW d, NEW k \in 1..Len(src) + 1,
         Boundary(src, d, k), NEW cut,
         \A j \in k + 1..Len(src) + 1 :
           Boundary(src, d, j) => Right(cut[j], T, src, d, j)
  PROVE  Right(Round(src, d, cut, k), T, src, d, k)
<1>1. PICK q : q = Find(src, d, k)
  OBVIOUS
<1>2. CASE q = 0
  <2>1. Round(src, d, cut, k) = Piece(Text(src, k, Len(src)))
    BY <1>1, <1>2 DEF Round
  <2>2. From(src, d, k) = IF k > Len(src) THEN {} ELSE {<<k, Len(src)>>}
    <3>1. \A i \in k..Len(src) : src[i] # d
      <4>1. Find(src, d, k) = 0 /\ 0 \notin k..Len(src)
        BY <1>1, <1>2
      <4> QED
        BY <4>1, FindFinds
    <3> QED
      BY <3>1, FromLast
  <2>3. CASE k > Len(src)
    <3>1. Piece(Text(src, k, Len(src))) = <<>>
      BY <2>3, PieceOf
    <3> QED
      BY <2>1, <2>2, <2>3, <3>1, FewListed DEF Right
  <2>4. CASE k <= Len(src)
    <3>1. PICK piece \in Seq(T) : piece = Text(src, k, Len(src))
      BY <2>4, PieceOf
    <3>2. Piece(Text(src, k, Len(src))) = <<piece>>
      BY <2>4, <3>1, PieceOf
    <3>3. PICK f \in Nat \X Nat : f = <<k, Len(src)>>
      <4>1. <<k, Len(src)>> \in Nat \X Nat
        OBVIOUS
      <4> QED
        BY <4>1
    <3>4. f[1] = k /\ f[2] = Len(src)
      BY <3>3
    <3>5. Lists(<<piece>>, {f}, src)
      BY <3>1, <3>4, FewListed
    <3>6. <<piece>> \in Seq(Seq(T))
      BY ConcatOne
    <3> QED
      BY <2>1, <2>2, <2>4, <3>2, <3>3, <3>5, <3>6 DEF Right
  <2> QED
    BY <2>3, <2>4
<1>3. CASE q # 0
  <2>1. q \in k..Len(src) /\ src[q] = d /\ \A i \in k..q - 1 : src[i] # d
    BY <1>1, <1>3, FindFinds
  <2>2. Round(src, d, cut, k) = Piece(Text(src, k, q - 1)) \o cut[q + 1]
    BY <1>1, <1>3 DEF Round
  <2>3. Right(cut[q + 1], T, src, d, q + 1)
    <3>1. Boundary(src, d, q + 1)
      BY <2>1 DEF Boundary
    <3> QED
      BY <2>1, <3>1
  <2>4. PICK rest \in Seq(Seq(T)) : rest = cut[q + 1]
    BY <2>3 DEF Right
  <2>5. CASE k = q
    <3>1. Piece(Text(src, k, q - 1)) = <<>>
      BY <2>1, <2>5, PieceOf
    <3>2. Round(src, d, cut, k) = rest
      BY <2>2, <2>4, <3>1, ConcatEmpty
    <3>3. From(src, d, k) = From(src, d, q + 1)
      BY <2>1, <2>5, FromNext
    <3> QED
      BY <2>3, <2>4, <3>2, <3>3 DEF Right
  <2>6. CASE k < q
    <3>1. q - 1 \in k - 1..Len(src) /\ q - 1 >= k
      BY <2>1, <2>6
    <3>2. PICK piece \in Seq(T) : piece = Text(src, k, q - 1)
      BY <3>1, PieceOf
    <3>3. Round(src, d, cut, k) = <<piece>> \o rest
      BY <2>2, <2>4, <3>1, <3>2, PieceOf
    <3>4. PICK f \in Nat \X Nat : f = <<k, q - 1>>
      <4>1. <<k, q - 1>> \in Nat \X Nat
        BY <2>1
      <4> QED
        BY <4>1
    <3>5. f[1] = k /\ f[2] = q - 1
      BY <3>4
    <3>6. From(src, d, k) = From(src, d, q + 1) \cup {f}
      BY <2>1, <2>6, <3>4, FromNext, SMTT(30)
    <3>7. \A s \in From(src, d, q + 1) : s[1] \in Nat /\ s[1] >= q + 1
      BY DEF From, Stretches
    <3>8. \A s \in From(src, d, q + 1) : f[1] < s[1]
      BY <2>1, <3>5, <3>7
    <3>9. /\ From(src, d, q + 1) \in SUBSET (Nat \X Nat)
          /\ IsFiniteSet(From(src, d, q + 1))
      BY FromFinite
    <3>10. Lists(<<piece>> \o rest, From(src, d, q + 1) \cup {f}, src)
      BY <2>3, <2>4, <3>2, <3>5, <3>8, <3>9, PrependLists DEF Right
    <3>11. <<piece>> \o rest \in Seq(Seq(T))
      BY ConcatOne
    <3> QED
      BY <3>3, <3>6, <3>10, <3>11 DEF Right
  <2> QED
    BY <2>1, <2>5, <2>6
<1> QED
  BY <1>2, <1>3

LEMMA LoopLists ==
  ASSUME NEW T, NEW src \in Seq(T), NEW d, NEW p \in 1..Len(src) + 1,
         Boundary(src, d, p)
  PROVE  Right(Loop(src, d)[p], T, src, d, p)
<1> DEFINE n == Len(src) + 1
           Good == {k \in 1..n : Boundary(src, d, k)
                                   => Right(Loop(src, d)[k], T, src, d, k)}
<1>1. ASSUME NEW k \in 1..n, \A j \in k + 1..n : j \in Good PROVE k \in Good
  <2>1. Loop(src, d)[k] = Round(src, d, Loop(src, d), k)
    BY LoopUnfolds
  <2> QED
    BY <1>1, <2>1, RoundLists
<1>2. 1..n \subseteq Good
  <2>1. n \in Nat
    OBVIOUS
  <2> HIDE DEF Good, n
  <2> QED
    BY <1>1, <2>1, DownInduction
<1> QED
  BY <1>2

\* splitStr returns the longest stretches of the text without a delimiter, all of
\* them and in their order, whatever the text and the delimiter (TcpTool.cpp:177).
THEOREM SplitCuts ==
  ASSUME NEW T, NEW src \in Seq(T), NEW d
  PROVE  Cuts(src, d, splitStr(src, d))
<1>1. From(src, d, 1) = Stretches(src, d)
  BY DEF From, Stretches
<1>2. Lists(splitStr(src, d), Stretches(src, d), src)
  <2>1. CASE src \in {<<>>, <<d>>}
    <3>1. Stretches(src, d) = {}
      BY <2>1 DEF Stretches
    <3> QED
      BY <2>1, <3>1, SplitIsLoop, FewListed
  <2>2. CASE src \notin {<<>>, <<d>>}
    <3>1. 1 \in 1..Len(src) + 1 /\ Boundary(src, d, 1)
      BY DEF Boundary
    <3> QED
      BY <2>2, <3>1, <1>1, SplitIsLoop, LoopLists DEF Right
  <2> QED
    BY <2>1, <2>2
<1> QED
  BY <1>2 DEF Lists, Rank, Cuts, Text
===============================================================================
