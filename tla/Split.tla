---------------------------------- MODULE Split ----------------------------------
(***************************************************************************)
(* TcpTool::splitStr, which the handlers of registrations, logins and single *)
(* messages take their fields with.  Symbols stand for stretches of text;    *)
(* every delimiter the program passes is one symbol long.                    *)
(***************************************************************************)
EXTENDS Integers, Sequences, FiniteSets

\* Mutant: empty pieces are kept.
PieceKept(str) == <<str>>

\* push_back unless the piece is empty.
Piece(str) == IF str = <<>> THEN <<>> ELSE <<str>>

\* find(delimiter, startPos); 0 stands for npos.
Find(src, delimiter, startPos) ==
  LET found == {i \in startPos..Len(src) : src[i] = delimiter} IN
  IF found = {} THEN 0 ELSE CHOOSE i \in found : \A j \in found : i <= j

splitStr(src, delimiter) ==
  LET cut[startPos \in 1..Len(src) + 1] ==
        LET index == Find(src, delimiter, startPos) IN
        IF index = 0 THEN Piece(SubSeq(src, startPos, Len(src)))
        ELSE Piece(SubSeq(src, startPos, index - 1)) \o cut[index + 1]
  IN  IF src \in {<<>>, <<delimiter>>} THEN <<>> ELSE cut[1]

-------------------------------------------------------------------------------
\* The places of the longest stretches of src without a delimiter, in order.
Stretches(src, delimiter) ==
  {s \in (1..Len(src)) \X (1..Len(src)) :
     /\ s[1] <= s[2] /\ \A i \in s[1]..s[2] : src[i] # delimiter
     /\ s[1] = 1 \/ src[s[1] - 1] = delimiter
     /\ s[2] = Len(src) \/ src[s[2] + 1] = delimiter}

\* What splitStr is to return: the stretches one after the other.
Cuts(src, delimiter, pieces) ==
  LET all == Stretches(src, delimiter) IN
  /\ Len(pieces) = Cardinality(all)
  /\ \A s \in all :
       pieces[1 + Cardinality({r \in all : r[1] < s[1]})] = SubSeq(src, s[1], s[2])
===============================================================================
