--------------------------- MODULE PipelineProofs ---------------------------
(***************************************************************************)
(* Proofs about Lexer, for texts of every length over every set of runes:   *)
(* Scan gets on, counts lines and columns, and reads ids as AddNode does.   *)
(* And about Pipeline, for the tokens of every text and for any others: the *)
(* parser stays within its tables, and no constructor of the AST fails.     *)
(***************************************************************************)
EXTENDS Pipeline, OperatorProofs

-----------------------------------------------------------------------------
(* The tables.                                                               *)

(* S11, S14 and S27, in which an id may end.                                  *)
IdState == {11, 14, 27}

(* Where the rows lead.                                                      *)
LEMMA RowFacts ==
    ASSUME NEW r \in Rune
    PROVE  /\ Start[r] \in {NoState} \cup 1..14
           /\ Start[r] \in IdState => r \in {"letter", "_"}
           /\ InString[r] \in {NoState, 15, 16, 17, 18}
           /\ Escaped[r] \in {NoState, 29, 30, 31}
           /\ Minus[r] \in {NoState, 6, 8, 20, 21, 22}
           /\ Minuses[r] \in {NoState, 20, 21, 22}
           /\ Close[r] \in {NoState, 28}
           /\ CloseMore[r] \in {NoState, 28, 34}
           /\ Fraction[r] \in {NoState, 23}
           /\ Integer[r] \in {NoState, 8, 26}
           /\ Decimals[r] \in {NoState, 33}
           /\ InId[r] \in {NoState, 11, 14, 27}
           /\ InId[r] \in IdState => r \in {"digit", "letter", "_"}
           /\ Slash[r] \in {NoState, 24, 25}
           /\ \A s : InLine(s)[r] \in {19, s}
           /\ InBlock[r] \in {24, 32} /\ BlockStar[r] \in {24, 32, 35}
<1>1. Start[r] \in {NoState} \cup 1..14
  BY DEF Start
<1>2. Start[r] \in IdState => r \in {"letter", "_"}
  <2>1. ASSUME r # "letter", r # "_"
        PROVE  Start[r] \in {NoState, 1, 2, 3, 4, 5, 6, 7, 8, 9, 10, 12, 13}
    BY <2>1 DEF Start
  <2>2. \A x \in {NoState, 1, 2, 3, 4, 5, 6, 7, 8, 9, 10, 12, 13} : x \notin IdState
    BY DEF IdState, NoState
  <2> QED  BY <2>1, <2>2
<1>3. InString[r] \in {NoState, 15, 16, 17, 18}
  BY DEF InString
<1>11. Escaped[r] \in {NoState, 29, 30, 31}
  BY DEF Escaped
<1>4. Minuses[r] \in {NoState, 20, 21, 22}
  BY DEF Minuses
<1>12. Minus[r] \in {NoState, 6, 8, 20, 21, 22}
  BY <1>4 DEF Minus
<1>5. Close[r] \in {NoState, 28}
  BY DEF Close
<1>6. CloseMore[r] \in {NoState, 28, 34}
  BY <1>5 DEF CloseMore
<1>7. /\ Fraction[r] \in {NoState, 23} /\ Integer[r] \in {NoState, 8, 26}
      /\ Decimals[r] \in {NoState, 33}
  BY DEF Fraction, Integer, Decimals
<1>8. InId[r] \in {NoState, 11, 14, 27}
  BY DEF InId
<1>10. (InId[r] \in IdState => r \in {"digit", "letter", "_"})
  <2>1. ASSUME r # "letter", r # "_", r # "digit"
        PROVE  InId[r] = NoState
    BY <2>1 DEF InId
  <2>2. NoState \notin IdState
    BY DEF IdState, NoState
  <2> QED  BY <2>1, <2>2
<1>9. /\ Slash[r] \in {NoState, 24, 25} /\ \A s : InLine(s)[r] \in {19, s}
      /\ InBlock[r] \in {24, 32} /\ BlockStar[r] \in {24, 32, 35}
  BY DEF Slash, InLine, InBlock, BlockStar
<1> QED BY <1>1, <1>2, <1>3, <1>4, <1>5, <1>6, <1>7, <1>8, <1>9, <1>11, <1>12, <1>10

LEMMA AcceptFacts ==
    ASSUME NEW s \in DOMAIN Accept
    PROVE  /\ Accept[s] = "id" <=> s \in IdState
           /\ Accept[s] # "EOF"
           /\ s \in {0, 3, 7, 24, 25, 32} => Accept[s] = "INVALID"
<1>1. s \in 0..35 \ Ignore
  BY DEF Accept
<1>2. Accept[s] # "EOF"
  BY <1>1 DEF Accept
<1>3. ASSUME s \in IdState PROVE Accept[s] = "id"
  <2>1. s = 11 \/ s = 14 \/ s = 27
    BY <1>3 DEF IdState
  <2>2. CASE s = 11
    BY <1>1, <2>2 DEF Accept
  <2>3. CASE s = 14
    BY <1>1, <2>3 DEF Accept
  <2>4. CASE s = 27
    BY <1>1, <2>4 DEF Accept
  <2> QED  BY <2>1, <2>2, <2>3, <2>4
<1>4. ASSUME s \notin IdState PROVE Accept[s] # "id"
  <2>1. s \notin {11, 14, 27}
    BY <1>4 DEF IdState
  <2>2. Accept[s] \in {",", "numeric_literal", ";", "=", "[", "]", "quoted_string", "edgearrow",
                       "edge_attr_open", "edge_attr_close", "INVALID"}
    BY <1>1, <2>1 DEF Accept
  <2> QED  BY <2>2
<1>5. ASSUME s \in {0, 3, 7, 24, 25, 32} PROVE Accept[s] = "INVALID"
  <2>1. /\ s # 4 /\ s \notin {8, 23, 33} /\ s # 9 /\ s # 10 /\ s \notin {11, 14, 27}
        /\ s # 12 /\ s # 13 /\ s # 16 /\ s # 21 /\ s # 22 /\ s # 34
    BY <1>5
  <2> QED  BY <1>1, <2>1 DEF Accept
<1> QED  BY <1>2, <1>3, <1>4, <1>5

(* Only what leads to no token is ever ignored; an id begins with a letter or *)
(* an underscore and goes on with these and digits; nothing leads to S0.      *)
LEMMA NextStateFacts ==
    ASSUME NEW s \in DOMAIN Accept, NEW r \in Rune
    PROVE  /\ NextState(s, r) \in {NoState} \cup 1..35
           /\ NextState(s, r) \in Ignore => Accept[s] = "INVALID"
           /\ NextState(s, r) \in IdState =>
                 \/ s = 0 /\ r \in {"letter", "_"}
                 \/ s \in IdState /\ r \in {"digit", "letter", "_"}
<1>1. s \in 0..35 /\ s \notin Ignore
  BY DEF Accept
<1> DEFINE Within(x)  == x = NoState \/ x \in 1..35
           Begins(x)  == x \in IdState => s = 0 /\ r \in {"letter", "_"}
           Resumes(x)  == x \in IdState => s \in IdState /\ r \in {"digit", "letter", "_"}
           Ignores(x) == x \in Ignore => Accept[s] = "INVALID"
           Follows(x) == Within(x) /\ Ignores(x) /\ (Begins(x) \/ Resumes(x))
<1>2. CASE s = 0
  <2>1. NextState(s, r) = Start[r]
    BY <1>2 DEF NextState, TransTab
  <2>2. Accept[s] = "INVALID"
    BY <1>1, <1>2 DEF Accept
  <2>3. Start[r] = NoState \/ Start[r] \in 1..14
    BY RowFacts
  <2>4. Within(Start[r])
    BY <2>3
  <2>5. Begins(Start[r])
    BY <1>2, RowFacts
  <2> QED  BY <2>1, <2>2, <2>4, <2>5
<1>3. CASE s \in {2, 15, 18, 29, 30, 31, 17}
  <2>1. NextState(s, r) \in {InString[r], Escaped[r]}
    BY <1>3 DEF NextState, TransTab
  <2>2. NextState(s, r) \in {NoState, 15, 16, 17, 18, 29, 30, 31}
    BY <2>1, RowFacts
  <2>3. \A x \in {NoState, 15, 16, 17, 18, 29, 30, 31} : x = NoState \/ x \in 1..35
    OBVIOUS
  <2>4. \A x \in {NoState, 15, 16, 17, 18, 29, 30, 31} : x \notin Ignore /\ x \notin IdState
    BY DEF Ignore, IdState, NoState
  <2> QED  BY <2>2, <2>3, <2>4
<1>4. CASE s \in {3, 7, 24, 25, 32}
  <2>1. NextState(s, r) \in
           {Slash[r], InLine(3)[r], InLine(25)[r], InBlock[r], BlockStar[r]}
    BY <1>4 DEF NextState, TransTab
  <2>2. NextState(s, r) \in {NoState, 3, 19, 24, 25, 32, 35}
    BY <2>1, RowFacts
  <2>3. Accept[s] = "INVALID"
    BY <1>4, AcceptFacts
  <2>4. \A x \in {NoState, 3, 19, 24, 25, 32, 35} : x = NoState \/ x \in 1..35
    OBVIOUS
  <2>5. \A x \in {NoState, 3, 19, 24, 25, 32, 35} : x \notin IdState
    BY DEF IdState, NoState
  <2> QED  BY <2>2, <2>3, <2>4, <2>5
<1>5. CASE s \in {5, 13, 20, 28}
  <2>1. NextState(s, r) \in {Minus[r], Minuses[r], Close[r], CloseMore[r]}
    BY <1>5 DEF NextState, TransTab
  <2>2. NextState(s, r) \in {NoState, 6, 8, 20, 21, 22, 28, 34}
    BY <2>1, RowFacts
  <2>3. \A x \in {NoState, 6, 8, 20, 21, 22, 28, 34} : x = NoState \/ x \in 1..35
    OBVIOUS
  <2>4. \A x \in {NoState, 6, 8, 20, 21, 22, 28, 34} : x \notin Ignore /\ x \notin IdState
    BY DEF Ignore, IdState, NoState
  <2> QED  BY <2>2, <2>3, <2>4
<1>6. CASE s \in {6, 8, 23, 26, 33}
  <2>1. NextState(s, r) \in {Fraction[r], Integer[r], Decimals[r]}
    BY <1>6 DEF NextState, TransTab
  <2>2. NextState(s, r) \in {NoState, 8, 23, 26, 33}
    BY <2>1, RowFacts
  <2>3. \A x \in {NoState, 8, 23, 26, 33} : x = NoState \/ x \in 1..35
    OBVIOUS
  <2>4. \A x \in {NoState, 8, 23, 26, 33} : x \notin Ignore /\ x \notin IdState
    BY DEF Ignore, IdState, NoState
  <2> QED  BY <2>2, <2>3, <2>4
<1>7. CASE s \in IdState
  <2>1. NextState(s, r) = InId[r]
    BY <1>7 DEF NextState, TransTab, IdState
  <2>2. InId[r] \in {NoState, 11, 14, 27} /\ Resumes(InId[r])
    BY <1>7, RowFacts
  <2>3. \A x \in {NoState, 11, 14, 27} : Within(x) /\ Ignores(x)
    BY DEF Ignore, NoState
  <2> QED  BY <2>1, <2>2, <2>3
<1>8. CASE s \in {4, 9, 10, 12, 16, 21, 22, 34}
  <2>1. NextState(s, r) = NoState
    BY <1>8 DEF NextState, TransTab
  <2>2. NoState \notin Ignore /\ NoState \notin IdState
    BY DEF Ignore, IdState, NoState
  <2> QED  BY <2>1, <2>2
<1>9. \/ s = 0 \/ s \in {2, 15, 18, 29, 30, 31, 17} \/ s \in {3, 7, 24, 25, 32}
      \/ s \in {5, 13, 20, 28} \/ s \in {6, 8, 23, 26, 33} \/ s \in IdState
      \/ s \in {4, 9, 10, 12, 16, 21, 22, 34}
  <2>1. \A x \in 0..35 : x \in Ignore \/ x = 0
           \/ x \in {2, 15, 18, 29, 30, 31, 17} \/ x \in {3, 7, 24, 25, 32}
           \/ x \in {5, 13, 20, 28} \/ x \in {6, 8, 23, 26, 33} \/ x \in IdState
           \/ x \in {4, 9, 10, 12, 16, 21, 22, 34}
    BY DEF Ignore, IdState
  <2> QED  BY <1>1, <2>1
<1>10. Follows(NextState(s, r))
  BY <1>2, <1>3, <1>4, <1>5, <1>6, <1>7, <1>8, <1>9
<1> QED  BY <1>10

(* A text that is an id leads from one of these states to the next, and       *)
(* a newline behind it out of them.                                           *)
LEMMA IdStateFacts ==
    /\ \A r \in {"letter", "_"} : NextState(0, r) \in IdState
    /\ \A s \in IdState, r \in {"letter", "digit", "_"} : NextState(s, r) \in IdState
    /\ \A s \in IdState : NextState(s, "nl") = NoState
    /\ NextState(0, "nl") \in Ignore
    /\ IdState \subseteq DOMAIN Accept /\ 0 \notin IdState /\ NoState \notin IdState
    /\ NoState \notin Ignore /\ 0 \in DOMAIN Accept /\ NoState \notin DOMAIN Accept
<1>1. {"letter", "digit", "_", "nl"} \subseteq Rune
  BY DEF Rune
<1>2. \A r \in Rune : NextState(0, r) = Start[r]
  BY DEF NextState, TransTab
<1>3. \A s \in IdState, r \in Rune : NextState(s, r) = InId[r]
  <2> SUFFICES ASSUME NEW s \in IdState, NEW r \in Rune PROVE NextState(s, r) = InId[r]
    OBVIOUS
  <2>1. s = 11 \/ s = 14 \/ s = 27
    BY DEF IdState
  <2> QED  BY <2>1 DEF NextState, TransTab
<1>4. \A r \in {"letter", "_"} : Start[r] \in IdState
  <2>1. Start["letter"] = 11 /\ Start["_"] = 14
    BY <1>1 DEF Start
  <2> QED  BY <2>1 DEF IdState
<1>5. \A r \in {"letter", "digit", "_"} : InId[r] \in IdState
  <2>1. InId["letter"] = 11 /\ InId["digit"] = 27 /\ InId["_"] = 14
    BY <1>1 DEF InId
  <2> QED  BY <2>1 DEF IdState
<1>6. InId["nl"] = NoState
  BY <1>1 DEF InId
<1>7. Start["nl"] \in Ignore
  <2>1. Start["nl"] = 1
    BY <1>1 DEF Start
  <2> QED  BY <2>1 DEF Ignore
<1>8. /\ IdState \subseteq DOMAIN Accept /\ 0 \notin IdState /\ NoState \notin IdState
      /\ NoState \notin Ignore /\ 0 \in DOMAIN Accept /\ NoState \notin DOMAIN Accept
  <2>1. DOMAIN Accept = 0..35 \ Ignore
    BY DEF Accept
  <2>2. IdState \subseteq 0..35 /\ NoState \notin 0..35 /\ 0 \in 0..35
    BY DEF IdState, NoState
  <2>3. /\ \A x \in IdState : x \notin Ignore
        /\ 0 \notin Ignore /\ NoState \notin Ignore /\ 0 \notin IdState /\ NoState \notin IdState
    BY DEF IdState, Ignore, NoState
  <2> QED  BY <2>1, <2>2, <2>3
<1> QED  BY <1>1, <1>2, <1>3, <1>4, <1>5, <1>6, <1>7, <1>8

-----------------------------------------------------------------------------
(* Lines and columns.                                                        *)

Between(a, n, x) == {j \in a + 1..n : src[j] = x}
Breaks(n) == {0} \cup {j \in 1..n : src[j] \in {"nl", "cr"}}

LEMMA BetweenStep ==
    ASSUME NEW n \in Nat, NEW a \in 0..n, NEW x
    PROVE  /\ Cardinality(Between(a, n, x)) \in Nat
           /\ Cardinality(Between(a, n + 1, x)) =
                 IF src[n + 1] = x THEN Cardinality(Between(a, n, x)) + 1
                 ELSE Cardinality(Between(a, n, x))
<1>1. PICK B : B = Between(a, n, x)
  OBVIOUS
<1>2. PICK C : C = Between(a, n + 1, x)
  OBVIOUS
<1>3. IsFiniteSet(B) /\ Cardinality(B) \in Nat
  <2>1. IsFiniteSet(a + 1..n)
    BY FS_Interval
  <2>2. B \in SUBSET (a + 1..n)
    BY <1>1 DEF Between
  <2> QED  BY <2>1, <2>2, FS_Subset, FS_CardinalityType
<1>4. \A j : j \in a + 1..n + 1 <=> j \in a + 1..n \/ j = n + 1
  OBVIOUS
<1>5. CASE src[n + 1] = x
  <2>1. C = B \cup {n + 1}
    BY <1>1, <1>2, <1>4, <1>5 DEF Between
  <2>2. n + 1 \notin B
    BY <1>1 DEF Between
  <2>3. Cardinality(C) = Cardinality(B) + 1
    BY <1>3, <2>1, <2>2, FS_AddElement
  <2> QED  BY <1>1, <1>2, <1>3, <1>5, <2>3
<1>6. CASE src[n + 1] # x
  <2>1. C = B
    BY <1>1, <1>2, <1>4, <1>6 DEF Between
  <2> QED  BY <1>1, <1>2, <1>3, <1>6, <2>1
<1> QED  BY <1>5, <1>6

(* Where the line begins that offset n is in.                                 *)
LEMMA LastBreak ==
    ASSUME NEW n \in Nat
    PROVE  /\ Max(Breaks(n)) \in 0..n /\ Max(Breaks(n)) \in Breaks(n)
           /\ \A y \in Breaks(n) : y <= Max(Breaks(n))
<1>1. PICK B : B = Breaks(n)
  OBVIOUS
<1>2. B \subseteq 0..n /\ 0 \in B
  BY <1>1 DEF Breaks
<1>3. PICK T : T = {k \in Nat : n - k \in B}
  OBVIOUS
<1>4. T \in SUBSET Nat /\ n \in T
  <2>1. n - n = 0
    OBVIOUS
  <2> QED  BY <1>2, <1>3, <2>1
<1>5. PICK m \in T : \A j \in T : m <= j
  BY <1>4, LeastNatural
<1>6. n - m \in B /\ m \in Nat
  BY <1>3, <1>5
<1>7. ASSUME NEW y \in B PROVE n - m >= y
  <2>1. n - y \in Nat /\ n - (n - y) = y
    BY <1>2
  <2>2. n - y \in T
    BY <1>3, <1>7, <2>1
  <2>3. m <= n - y
    BY <1>5, <2>2
  <2> QED  BY <1>2, <1>6, <2>3
<1>8. Max(B) \in B /\ \A y \in B : Max(B) >= y
  BY <1>6, <1>7 DEF Max
<1> QED  BY <1>1, <1>2, <1>8

LEMMA PlacesStep ==
    ASSUME NEW n \in Nat
    PROVE  /\ LinesBefore(n) \in Nat /\ ColumnAfter(n) \in Nat
           /\ LinesBefore(n + 1) =
                 IF src[n + 1] = "nl" THEN LinesBefore(n) + 1 ELSE LinesBefore(n)
           /\ ColumnAfter(n + 1) =
                 CASE src[n + 1] \in {"nl", "cr"} -> 1
                   [] src[n + 1] = "tab" -> ColumnAfter(n) + 4
                   [] OTHER -> ColumnAfter(n) + 1
<1>1. \A k \in Nat : LinesBefore(k) = Cardinality(Between(0, k, "nl"))
  BY DEF LinesBefore, Between
<1>2. /\ LinesBefore(n) \in Nat
      /\ LinesBefore(n + 1) = IF src[n + 1] = "nl" THEN LinesBefore(n) + 1 ELSE LinesBefore(n)
  BY <1>1, BetweenStep
<1>3. PICK b : b = Max(Breaks(n))
  OBVIOUS
<1>4. PICK c : c = Max(Breaks(n + 1))
  OBVIOUS
<1>5. /\ b \in 0..n /\ b \in Breaks(n) /\ \A y \in Breaks(n) : y <= b
      /\ c \in 0..n + 1 /\ c \in Breaks(n + 1) /\ \A y \in Breaks(n + 1) : y <= c
  BY <1>3, <1>4, LastBreak
<1>6. /\ ColumnAfter(n) = 1 + (n - b) + 3 * Cardinality(Between(b, n, "tab"))
      /\ ColumnAfter(n + 1) = 1 + ((n + 1) - c) + 3 * Cardinality(Between(c, n + 1, "tab"))
  <2>1. \A k : ColumnAfter(k) = 1 + (k - Max(Breaks(k)))
                                  + 3 * Cardinality(Between(Max(Breaks(k)), k, "tab"))
    BY DEF ColumnAfter, Between, Breaks
  <2>2. ColumnAfter(n) = 1 + (n - b) + 3 * Cardinality(Between(b, n, "tab"))
    BY <1>3, <2>1, Zenon
  <2>3. ColumnAfter(n + 1) = 1 + ((n + 1) - c) + 3 * Cardinality(Between(c, n + 1, "tab"))
    BY <1>4, <2>1, Zenon
  <2> QED  BY <2>2, <2>3
<1>7. Cardinality(Between(b, n, "tab")) \in Nat /\ ColumnAfter(n) \in Nat
  <2>1. Cardinality(Between(b, n, "tab")) \in Nat
    BY <1>5, BetweenStep
  <2> QED  BY <1>5, <1>6, <2>1
<1>8. CASE src[n + 1] \in {"nl", "cr"}
  <2>1. n + 1 \in Breaks(n + 1)
    BY <1>8 DEF Breaks
  <2>2. c = n + 1
    BY <1>5, <2>1
  <2>3. Between(c, n + 1, "tab") = {}
    BY <2>2 DEF Between
  <2>4. Cardinality(Between(c, n + 1, "tab")) = 0
    BY <2>3, FS_EmptySet
  <2>5. ColumnAfter(n + 1) = 1
    BY <1>6, <2>2, <2>4
  <2> QED  BY <1>2, <1>7, <1>8, <2>5
<1>9. CASE src[n + 1] \notin {"nl", "cr"}
  <2>1. Breaks(n + 1) = Breaks(n)
    <3>1. \A j : j \in 1..n + 1 <=> j \in 1..n \/ j = n + 1
      OBVIOUS
    <3> QED  BY <1>9, <3>1 DEF Breaks
  <2>2. c = b
    BY <1>3, <1>4, <2>1
  <2>3. Cardinality(Between(b, n + 1, "tab")) =
           IF src[n + 1] = "tab" THEN Cardinality(Between(b, n, "tab")) + 1
           ELSE Cardinality(Between(b, n, "tab"))
    BY <1>5, BetweenStep
  <2>4. CASE src[n + 1] = "tab"
    <3>1. ColumnAfter(n + 1) = ColumnAfter(n) + 4
      BY <1>5, <1>6, <1>7, <2>2, <2>3, <2>4
    <3> QED  BY <1>2, <1>7, <1>9, <2>4, <3>1
  <2>5. CASE src[n + 1] # "tab"
    <3>1. ColumnAfter(n + 1) = ColumnAfter(n) + 1
      BY <1>5, <1>6, <1>7, <2>2, <2>3, <2>5
    <3> QED  BY <1>2, <1>7, <1>9, <2>5, <3>1
  <2> QED  BY <2>4, <2>5
<1> QED  BY <1>8, <1>9

LEMMA PlacesBegin == LinesBefore(0) = 0 /\ ColumnAfter(0) = 1
<1>1. {j \in 1..0 : src[j] = "nl"} = {} /\ Breaks(0) = {0}
  BY DEF Breaks
<1>2. Max(Breaks(0)) = 0
  BY LastBreak
<1>3. Between(0, 0, "tab") = {}
  BY DEF Between
<1>4. LinesBefore(0) = 0
  BY <1>1, FS_EmptySet DEF LinesBefore
<1>5. ColumnAfter(0) = 1 + (0 - 0) + 3 * Cardinality(Between(0, 0, "tab"))
  BY <1>2 DEF ColumnAfter, Between, Breaks
<1>6. Cardinality(Between(0, 0, "tab")) = 0
  BY <1>3, FS_EmptySet
<1> QED  BY <1>4, <1>5, <1>6

-----------------------------------------------------------------------------
(* The invariant of the scanner, in parts.                                    *)

ToksTyped ==
    /\ toks \in Seq([type : TokenType, lit : Seq(Rune), offset : Nat, line : Nat, column : Nat])
    /\ startLine \in Nat /\ startColumn \in Nat

Going == state # NoState => ~Stopped

(* Nothing of the token has been read, and what was before it is forgotten.   *)
AtStart ==
    state = 0 => /\ start = pos
                 /\ \/ type = "INVALID" /\ pos < Len(src)
                    \/ type = "EOF" /\ pos = Len(src)

(* What has been read is accepted or not as a whole.                          *)
Inside == state \notin {0, NoState} => start < pos /\ end = pos /\ type = Accept[state]

(* A scanner that has not stopped knows where it is, and where its token began. *)
Placed ==
    /\ ~Stopped => line = 1 + LinesBefore(pos) /\ column = ColumnAfter(pos)
    /\ state # NoState => startLine = 1 + LinesBefore(start) /\ startColumn = ColumnAfter(start)

IdRune == {"letter", "digit", "_"}
IdsAreIds ==
    /\ state \in IdState => /\ src[start + 1] \in IdLetter
                            /\ \A j \in start + 2..pos : src[j] \in IdRune
    /\ \A j \in 1..Len(toks) : toks[j].type = "id" => idRegexp(toks[j].lit)

(* How far the scanner is with a text that is one id.                         *)
IdText   == IF HasNewline THEN Front(src) ELSE src
IdRead == toks[1].type = "id" /\ toks[1].lit = IdText
IdIsRead ==
    idRegexp(IdText) =>
        \/ toks = << >> /\ state = NoState /\ pos = 0
        \/ toks = << >> /\ state = 0 /\ start = 0
        \/ toks = << >> /\ state \in IdState /\ start = 0 /\ pos <= Len(IdText)
        \/ Len(toks) = 1 /\ IdRead /\ state \in {NoState, 0} /\ pos >= Len(IdText)
        \/ Len(toks) = 2 /\ IdRead /\ Stopped

ScanInv ==
    /\ TypeOK /\ ToksTyped /\ Going /\ AtStart /\ Inside /\ Placed /\ Positions
    /\ IdsAreIds /\ IdIsRead
-----------------------------------------------------------------------------
(* What an action finds, what it leaves, and what it returns.                 *)

LEMMA SliceFacts ==
    ASSUME NEW S, NEW s \in Seq(S), NEW m \in Nat, NEW n \in 0..Len(s)
    PROVE  /\ SubSeq(s, m + 1, n) \in Seq(S)
           /\ m < n => Len(SubSeq(s, m + 1, n)) = n - m
           /\ n <= m => SubSeq(s, m + 1, n) = << >> /\ Len(SubSeq(s, m + 1, n)) = 0
           /\ \A j \in 1..n - m : SubSeq(s, m + 1, n)[j] = s[m + j]
<1>1. CASE m < n
  <2>1. \A i \in 1..n - m : m + i \in 1..Len(s)
    BY <1>1
  <2>2. s \in [1..Len(s) -> S]
    OBVIOUS
  <2> DEFINE t == [i \in 1..n - m |-> s[m + i]]
  <2>3. SubSeq(s, m + 1, n) = t
    BY <1>1
  <2>4. t \in [1..n - m -> S] /\ n - m \in Nat
    BY <1>1, <2>1, <2>2
  <2> HIDE DEF t
  <2>5. t \in Seq(S) /\ Len(t) = n - m
    BY <2>4
  <2> QED  BY <1>1, <2>3, <2>5 DEF t
<1>2. CASE n <= m
  BY <1>2
<1> QED  BY <1>1, <1>2

(* A text that is an id, and the newline that may be behind it.               *)
LEMMA TextFacts ==
    ASSUME src \in Seq(Rune), idRegexp(IdText)
    PROVE  /\ IdText \in Seq(Rune) /\ Len(IdText) \in Nat /\ Len(IdText) >= 1
           /\ Len(src) \in {Len(IdText), Len(IdText) + 1}
           /\ src[1] \in IdLetter
           /\ \A j \in 1..Len(IdText) : src[j] = IdText[j] /\ src[j] \in IdRune
           /\ Len(src) > Len(IdText) => src[Len(IdText) + 1] = "nl"
<1>1. PICK t : t = IdText
  OBVIOUS
<1>2. t # << >> /\ t[1] \in IdLetter /\ \A j \in 2..Len(t) : t[j] \in IdRune
  BY <1>1 DEF idRegexp, IdLetter, IdRune
<1>3. /\ t \in Seq(Rune) /\ Len(src) \in {Len(t), Len(t) + 1}
      /\ \A j \in 1..Len(t) : src[j] = t[j]
      /\ Len(src) > Len(t) => src[Len(t) + 1] = "nl"
  <2>1. CASE HasNewline
    <3>1. t = Front(src) /\ src # << >> /\ src[Len(src)] = "nl"
      BY <1>1, <2>1 DEF IdText, HasNewline, Last
    <3>2. /\ t \in Seq(Rune) /\ Len(t) = Len(src) - 1
          /\ \A j \in 1..Len(src) - 1 : t[j] = src[j]
      BY <3>1, FrontFacts
    <3>3. Len(src) \in Nat
      OBVIOUS
    <3>4. Len(t) + 1 = Len(src)
      BY <3>2, <3>3
    <3> QED  BY <3>1, <3>2, <3>3, <3>4
  <2>2. CASE ~HasNewline
    BY <1>1, <2>2 DEF IdText
  <2> QED  BY <2>1, <2>2
<1>4. Len(t) \in Nat /\ Len(t) >= 1
  BY <1>2, <1>3
<1>5. \A j \in 1..Len(t) : t[j] \in IdRune
  <2>1. \A j \in 1..Len(t) : j = 1 \/ j \in 2..Len(t)
    BY <1>4
  <2>2. IdLetter \subseteq IdRune
    BY DEF IdLetter, IdRune
  <2> QED  BY <1>2, <2>1, <2>2
<1>6. 1 \in 1..Len(t)
  BY <1>4
<1> QED  BY <1>1, <1>2, <1>3, <1>4, <1>5, <1>6

(* With a text that is an id, where the scanner is tells what it reaches.     *)
LEMMA TextReached ==
    ASSUME ScanInv, idRegexp(IdText), state # NoState
    PROVE  \/ /\ toks = << >> /\ state = 0 /\ start = 0 /\ pos = 0
              /\ Reached \in IdState /\ pos < Len(src)
           \/ /\ toks = << >> /\ state \in IdState /\ start = 0 /\ pos < Len(IdText)
              /\ Reached \in IdState
           \/ /\ toks = << >> /\ state \in IdState /\ start = 0 /\ pos = Len(IdText)
              /\ Reached = NoState
           \/ /\ Len(toks) = 1 /\ IdRead /\ state = 0 /\ pos >= Len(IdText)
              /\ pos < Len(src) /\ Reached \in Ignore
           \/ /\ Len(toks) = 1 /\ IdRead /\ state = 0 /\ pos >= Len(IdText)
              /\ pos = Len(src) /\ Reached = NoState
<1>1. src \in Seq(Rune) /\ pos \in 0..Len(src) /\ Len(src) \in Nat
  BY DEF ScanInv, TypeOK
<1>2. PICK n : n = Len(IdText)
  OBVIOUS
<1>3. /\ n \in Nat /\ n >= 1 /\ Len(src) \in {n, n + 1}
      /\ src[1] \in IdLetter /\ \A j \in 1..n : src[j] \in IdRune
      /\ Len(src) > n => src[n + 1] = "nl"
  BY <1>1, <1>2, TextFacts
<1>4. /\ pos < Len(src) => Reached = NextState(state, src[pos + 1])
      /\ pos = Len(src) => Reached = NoState
  BY <1>1 DEF Reached
<1>5. ~Stopped
  BY DEF ScanInv, Going
<1>6. \/ toks = << >> /\ state = 0 /\ start = 0
      \/ toks = << >> /\ state \in IdState /\ start = 0 /\ pos <= n
      \/ Len(toks) = 1 /\ IdRead /\ state = 0 /\ pos >= n
  BY <1>2, <1>5 DEF ScanInv, IdIsRead
<1>7. CASE toks = << >> /\ state = 0 /\ start = 0
  <2>1. pos = 0
    BY <1>7 DEF ScanInv, AtStart
  <2>2. pos < Len(src) /\ pos + 1 = 1
    BY <1>1, <1>3, <2>1
  <2>3. Reached \in IdState
    BY <1>3, <1>4, <1>7, <2>2, IdStateFacts DEF IdLetter
  <2> QED  BY <1>7, <2>1, <2>2, <2>3
<1>8. CASE toks = << >> /\ state \in IdState /\ start = 0 /\ pos <= n
  <2>1. CASE pos < n
    <3>1. pos + 1 \in 1..n /\ pos < Len(src)
      BY <1>1, <1>3, <2>1
    <3>2. Reached \in IdState
      BY <1>3, <1>4, <1>8, <3>1, IdStateFacts DEF IdRune
    <3> QED  BY <1>2, <1>8, <2>1, <3>2
  <2>2. CASE pos = n
    <3>1. pos < Len(src) => src[pos + 1] = "nl"
      BY <1>3, <2>2
    <3>2. NextState(state, "nl") = NoState
      BY <1>8, IdStateFacts
    <3>3. pos = Len(src) \/ pos < Len(src)
      BY <1>1
    <3>4. Reached = NoState
      BY <1>4, <3>1, <3>2, <3>3
    <3> QED  BY <1>2, <1>8, <2>2, <3>4
  <2> QED  BY <1>1, <1>3, <1>8, <2>1, <2>2
<1>9. CASE Len(toks) = 1 /\ IdRead /\ state = 0 /\ pos >= n
  <2>1. CASE pos = Len(src)
    BY <1>2, <1>4, <1>9, <2>1
  <2>2. CASE pos < Len(src)
    <3>1. pos = n
      BY <1>1, <1>3, <1>9, <2>2
    <3>2. src[pos + 1] = "nl"
      BY <1>3, <2>2, <3>1
    <3>3. Reached \in Ignore
      BY <1>4, <1>9, <2>2, <3>2, IdStateFacts
    <3> QED  BY <1>2, <1>9, <2>2, <3>3
  <2> QED  BY <1>1, <2>1, <2>2
<1> QED  BY <1>6, <1>7, <1>8, <1>9

(* A source that stays is counted, and read, as before.                      *)
LEMMA SameSource ==
    ASSUME src' = src
    PROVE  /\ IdText' = IdText
           /\ \A n : LinesBefore(n)' = LinesBefore(n) /\ ColumnAfter(n)' = ColumnAfter(n)
<1>1. IdText' = IdText
  BY DEF IdText, HasNewline
<1>2. \A n : LinesBefore(n)' = LinesBefore(n)
  BY DEF LinesBefore
<1>3. \A n : ColumnAfter(n)' = ColumnAfter(n)
  BY DEF ColumnAfter
<1> QED  BY <1>1, <1>2, <1>3

TokenSet ==
    [type : TokenType, lit : Seq(Rune), offset : Nat, line : Nat, column : Nat]

(* What the invariant says of a token, of a scanner that is at n.             *)
Returned(t, n) ==
    /\ t.offset + Len(t.lit) <= n
    /\ t.lit = << >> => t.type = "EOF"
    /\ t.line = 1 + LinesBefore(t.offset) /\ t.column = ColumnAfter(t.offset)
    /\ t.type = "id" => idRegexp(t.lit)

(* The parts of the invariant that are about the tokens.                      *)
Tokened ==
    /\ toks \in Seq(TokenSet)
    /\ \A j \in 1..Len(toks) : /\ toks[j].type \in TokenType
                               /\ toks[j].offset + Len(toks[j].lit) <= pos
                               /\ toks[j].lit = << >> => toks[j].type = "EOF"
    /\ Positions
    /\ \A j \in 1..Len(toks) : toks[j].type = "id" => idRegexp(toks[j].lit)

LEMMA ReturnedTokens ==
    Tokened <=> /\ toks \in Seq(TokenSet)
                /\ \A j \in 1..Len(toks) : Returned(toks[j], pos)
<1>1. toks \in Seq(TokenSet) => \A j \in 1..Len(toks) : toks[j].type \in TokenType
  <2>1. toks \in Seq(TokenSet) => \A j \in 1..Len(toks) : toks[j] \in TokenSet
    OBVIOUS
  <2>2. \A t \in TokenSet : t.type \in TokenType
    BY DEF TokenSet
  <2> QED  BY <2>1, <2>2
<1> QED  BY <1>1, Zenon DEF Tokened, Positions, Returned

(* The tokens that there are stay right while the scanner reads on.           *)
LEMMA TokensKept ==
    ASSUME ScanInv, src' = src, toks' = toks, pos' \in Nat, pos' >= pos
    PROVE  Tokened' /\ Stopped' = Stopped
<1>1. Tokened
  BY DEF ScanInv, TypeOK, ToksTyped, IdsAreIds, Tokened, TokenSet
<1>2. toks \in Seq(TokenSet) /\ \A j \in 1..Len(toks) : Returned(toks[j], pos)
  BY <1>1, ReturnedTokens
<1>3. ASSUME NEW j \in 1..Len(toks) PROVE Returned(toks[j], pos)'
  <2>1. PICK t \in TokenSet : t = toks[j]
    BY <1>2
  <2>2. t.offset + Len(t.lit) <= pos
    BY <1>2, <2>1 DEF Returned
  <2>3. t.offset + Len(t.lit) <= pos'
    <3>1. t.offset \in Nat /\ Len(t.lit) \in Nat /\ pos \in Nat
      BY DEF TokenSet, ScanInv, TypeOK
    <3> QED  BY <2>2, <3>1
  <2>4. t = toks'[j] /\ Returned(t, pos)
    BY <1>2, <2>1
  <2> QED  BY <2>1, <2>3, <2>4, SameSource, Zenon DEF Returned
<1>4. (toks \in Seq(TokenSet))' /\ (\A j \in 1..Len(toks) : Returned(toks[j], pos))'
  BY <1>2, <1>3 DEF TokenSet, TokenType
<1>5. Tokened'
  BY <1>4, ReturnedTokens, PTL
<1>6. Stopped' = Stopped
  BY DEF Stopped
<1> QED  BY <1>5, <1>6

(* And so they do when a right one is returned.                               *)
LEMMA TokenAdded ==
    ASSUME ScanInv, src' = src, pos' \in Nat, pos' >= pos,
           NEW t \in TokenSet, Returned(t, pos'), toks' = Append(toks, t)
    PROVE  /\ Tokened' /\ (Stopped' <=> t.type \in {"EOF", "INVALID"})
           /\ Len(toks') = Len(toks) + 1
           /\ toks'[1] = IF toks = << >> THEN t ELSE toks[1]
<1>1. Tokened
  BY DEF ScanInv, TypeOK, ToksTyped, IdsAreIds, Tokened, TokenSet
<1>2. toks \in Seq(TokenSet) /\ \A j \in 1..Len(toks) : Returned(toks[j], pos)
  BY <1>1, ReturnedTokens
<1>3. /\ toks' \in Seq(TokenSet) /\ Len(toks') = Len(toks) + 1 /\ Len(toks) \in Nat
      /\ \A j \in 1..Len(toks) : toks'[j] = toks[j]
      /\ toks'[Len(toks) + 1] = t
  BY <1>2, AppendFacts
<1>4. ASSUME NEW j \in 1..Len(toks') PROVE Returned(toks[j], pos)'
  <2>1. CASE j \in 1..Len(toks)
    <3>1. PICK u \in TokenSet : u = toks[j]
      BY <1>2, <2>1
    <3>2. u.offset + Len(u.lit) <= pos
      BY <1>2, <2>1, <3>1 DEF Returned
    <3>3. u.offset + Len(u.lit) <= pos'
      <4>1. u.offset \in Nat /\ Len(u.lit) \in Nat /\ pos \in Nat
        BY DEF TokenSet, ScanInv, TypeOK
      <4> QED  BY <3>2, <4>1
    <3>4. u = toks'[j] /\ Returned(u, pos)
      BY <1>2, <1>3, <2>1, <3>1
    <3> QED  BY <3>1, <3>3, <3>4, SameSource, Zenon DEF Returned
  <2>2. CASE j = Len(toks) + 1
    <3>1. toks'[j] = t
      BY <1>3, <2>2
    <3> QED  BY <3>1, SameSource, Zenon DEF Returned
  <2> QED  BY <1>3, <2>1, <2>2
<1>5. (toks \in Seq(TokenSet))' /\ (\A j \in 1..Len(toks) : Returned(toks[j], pos))'
  BY <1>3, <1>4 DEF TokenSet, TokenType
<1>6. Tokened'
  BY <1>5, ReturnedTokens, PTL
<1>7. Stopped' <=> t.type \in {"EOF", "INVALID"}
  <2>1. toks' # << >> /\ Last(toks') = t
    BY <1>3 DEF Last
  <2> QED  BY <2>1 DEF Stopped
<1>8. toks'[1] = IF toks = << >> THEN t ELSE toks[1]
  <2>1. CASE toks = << >>
    BY <1>3, <2>1
  <2>2. CASE toks # << >>
    <3>1. 1 \in 1..Len(toks)
      BY <1>2, <2>2
    <3> QED  BY <1>3, <2>2, <3>1
  <2> QED  BY <2>1, <2>2
<1> QED  BY <1>3, <1>6, <1>7, <1>8

(* The invariant, with its parts about the tokens together.                   *)
Here ==
    /\ src \in Seq(Rune) /\ pos \in 0..Len(src) /\ line \in Nat /\ column \in Nat
    /\ state \in {NoState} \cup DOMAIN Accept
    /\ start \in 0..pos /\ end \in 0..pos
    /\ type \in TokenType
    /\ startLine \in Nat /\ startColumn \in Nat
IdRunesRead ==
    state \in IdState => /\ src[start + 1] \in IdLetter
                         /\ \A j \in start + 2..pos : src[j] \in IdRune

LEMMA ScanInvParts ==
    ScanInv <=> /\ Here /\ Tokened /\ Going /\ AtStart /\ Inside /\ Placed
                /\ IdRunesRead /\ IdIsRead
BY Zenon DEF ScanInv, Here, Tokened, TypeOK, ToksTyped, IdsAreIds, IdRunesRead, TokenSet

-----------------------------------------------------------------------------
(* Every step of the scanner keeps the invariant.                             *)

LEMMA ScanEndKeeps == ScanInv /\ ScanEnd => ScanInv'
<1> SUFFICES ASSUME ScanInv, ScanEnd PROVE ScanInv'
  OBVIOUS
<1> DEFINE t == Token("EOF", << >>, pos, line, column)
<1>1. /\ state = NoState /\ ~Stopped /\ toks' = Append(toks, t)
      /\ UNCHANGED <<src, pos, line, column>>
      /\ UNCHANGED <<state, start, startLine, startColumn, end, type>>
  BY DEF ScanEnd, lexer
<1>2. Here /\ pos = Len(src)
  BY DEF ScanInv, Here, TypeOK, ToksTyped, ScanEnd
<1>3. line = 1 + LinesBefore(pos) /\ column = ColumnAfter(pos)
  BY <1>1 DEF ScanInv, Placed
<1>4. t \in TokenSet /\ t.type = "EOF"
  BY <1>2 DEF Token, TokenSet, TokenType, Here
<1>5. Returned(t, pos)
  <2>1. t.offset = pos /\ t.lit = << >> /\ t.line = line /\ t.column = column
    BY DEF Token
  <2>2. t.offset + Len(t.lit) <= pos
    BY <1>2, <2>1 DEF Here
  <2> QED  BY <1>3, <1>4, <2>1, <2>2 DEF Returned
<1> HIDE DEF t
<1>6. Tokened' /\ Stopped' /\ Len(toks') = Len(toks) + 1
      /\ toks'[1] = IF toks = << >> THEN t ELSE toks[1]
  <2>1. Returned(t, pos') /\ pos' \in Nat /\ pos' >= pos
    BY <1>1, <1>2, <1>5 DEF Here
  <2> QED  BY <1>1, <1>4, <2>1, TokenAdded
<1>7. Here'
  BY <1>1, <1>2 DEF Here, TokenType
<1>8. Going' /\ AtStart' /\ Inside' /\ Placed' /\ IdRunesRead'
  <2>1. NoState \notin IdState /\ NoState # 0 /\ state' = NoState
    BY <1>1, IdStateFacts
  <2> QED  BY <1>6, <2>1 DEF Going, AtStart, Inside, Placed, IdRunesRead
<1>9. IdIsRead'
  <2> SUFFICES ASSUME idRegexp(IdText) PROVE (Len(toks) = 2 /\ IdRead /\ Stopped)'
    BY <1>1, SameSource DEF IdIsRead, idRegexp
  <2>1. Len(src) >= 1
    <3>1. PICK n : n = Len(IdText)
      OBVIOUS
    <3>2. n \in Nat /\ n >= 1 /\ Len(src) \in {n, n + 1}
      BY <1>2, <3>1, TextFacts DEF Here
    <3> QED  BY <3>2
  <2>2. Len(toks) = 1 /\ IdRead
    <3>1. state # 0 /\ state \notin IdState
      BY <1>1, IdStateFacts DEF NoState
    <3>2. pos # 0
      BY <1>2, <2>1
    <3> QED  BY <1>1, <3>1, <3>2 DEF ScanInv, IdIsRead
  <2>3. toks # << >>
    BY <2>2
  <2>4. Len(toks') = 2 /\ toks'[1] = toks[1]
    BY <1>6, <2>2, <2>3
  <2> QED  BY <1>1, <1>6, <2>2, <2>4, SameSource DEF IdRead
<1> QED  BY <1>6, <1>7, <1>8, <1>9, ScanInvParts, PTL

LEMMA ScanStartKeeps == ScanInv /\ ScanStart => ScanInv'
<1> SUFFICES ASSUME ScanInv, ScanStart PROVE ScanInv'
  OBVIOUS
<1>1. /\ state = NoState /\ ~Stopped /\ pos < Len(src) /\ state' = 0
      /\ end' = 0 /\ type' = "INVALID"
      /\ start' = pos /\ startLine' = line /\ startColumn' = column
      /\ UNCHANGED <<src, pos, line, column>> /\ toks' = toks
  BY DEF ScanStart, lexer
<1>2. Here
  BY DEF ScanInv, Here, TypeOK, ToksTyped
<1>3. Tokened' /\ ~Stopped'
  BY <1>1, <1>2, TokensKept DEF Here
<1>4. Here'
  <2>1. 0 \in DOMAIN Accept /\ "INVALID" \in TokenType
    BY IdStateFacts DEF TokenType
  <2> QED  BY <1>1, <1>2, <2>1 DEF Here, TokenType
<1>5. Going' /\ AtStart' /\ Inside' /\ IdRunesRead'
  <2>1. 0 \notin IdState
    BY IdStateFacts
  <2> QED  BY <1>1, <1>3, <2>1 DEF Going, AtStart, Inside, IdRunesRead
<1>6. Placed'
  <2>1. line = 1 + LinesBefore(pos) /\ column = ColumnAfter(pos)
    BY <1>1 DEF ScanInv, Placed
  <2> QED  BY <1>1, <2>1, SameSource, Zenon DEF Placed
<1>7. IdIsRead'
  <2> SUFFICES ASSUME idRegexp(IdText)
               PROVE  (\/ toks = << >> /\ state = 0 /\ start = 0
                       \/ Len(toks) = 1 /\ IdRead /\ state \in {NoState, 0} /\ pos >= Len(IdText))'
    BY <1>1, SameSource DEF IdIsRead, idRegexp
  <2>1. state # 0 /\ state \notin IdState
    BY <1>1, IdStateFacts DEF NoState
  <2>2. \/ toks = << >> /\ pos = 0
        \/ Len(toks) = 1 /\ IdRead /\ pos >= Len(IdText)
    BY <1>1, <2>1 DEF ScanInv, IdIsRead
  <2> QED  BY <1>1, <2>2, SameSource DEF IdRead
<1> QED  BY <1>3, <1>4, <1>5, <1>6, <1>7, ScanInvParts, PTL

(* What a rune that is read does to the place of the scanner.                 *)
LEMMA AdvancePlaces ==
    ASSUME ScanInv, state # NoState, Reached # NoState, Advance, src' = src
    PROVE  /\ pos < Len(src) /\ pos' = pos + 1 /\ pos' \in 0..Len(src) /\ pos' > pos
           /\ src[pos + 1] \in Rune /\ Reached = NextState(state, src[pos + 1])
           /\ state \in DOMAIN Accept
           /\ line' \in Nat /\ column' \in Nat
           /\ line' = 1 + LinesBefore(pos') /\ column' = ColumnAfter(pos')
<1>1. Here
  BY DEF ScanInv, Here, TypeOK, ToksTyped
<1>2. pos < Len(src) /\ Reached = NextState(state, src[pos + 1])
  BY <1>1 DEF Reached, Here
<1>3. pos \in Nat /\ pos + 1 \in 1..Len(src) /\ src[pos + 1] \in Rune /\ state \in DOMAIN Accept
  BY <1>1, <1>2 DEF Here
<1>4. pos' = pos + 1 /\ pos' \in 0..Len(src) /\ pos' > pos
  BY <1>3 DEF Advance
<1>5. line = 1 + LinesBefore(pos) /\ column = ColumnAfter(pos)
  BY DEF ScanInv, Going, Placed
<1>6. /\ LinesBefore(pos) \in Nat /\ ColumnAfter(pos) \in Nat
      /\ LinesBefore(pos + 1) =
            IF src[pos + 1] = "nl" THEN LinesBefore(pos) + 1 ELSE LinesBefore(pos)
      /\ ColumnAfter(pos + 1) =
            CASE src[pos + 1] \in {"nl", "cr"} -> 1
              [] src[pos + 1] = "tab" -> ColumnAfter(pos) + 4
              [] OTHER -> ColumnAfter(pos) + 1
  BY <1>3, PlacesStep
<1>7. line' = 1 + LinesBefore(pos + 1) /\ line' \in Nat
  <2>1. line' = IF src[pos + 1] = "nl" THEN line + 1 ELSE line
    BY DEF Advance
  <2> QED  BY <1>5, <1>6, <2>1
<1>8. column' = ColumnAfter(pos + 1) /\ column' \in Nat
  <2>1. column' = CASE src[pos + 1] \in {"nl", "cr"} -> 1
                    [] src[pos + 1] = "tab" -> column + 4
                    [] OTHER -> column + 1
    BY DEF Advance
  <2> QED  BY <1>5, <1>6, <2>1
<1> QED  BY <1>2, <1>3, <1>4, <1>7, <1>8

LEMMA ReadRuneKeeps == ScanInv /\ ReadRune => ScanInv'
<1> SUFFICES ASSUME ScanInv, ReadRune PROVE ScanInv'
  OBVIOUS
<1>1. /\ state # NoState /\ Reached # NoState /\ Reached \notin Ignore
      /\ Advance /\ state' = Reached /\ type' = Accept[Reached] /\ end' = pos'
      /\ src' = src /\ start' = start /\ toks' = toks
      /\ startLine' = startLine /\ startColumn' = startColumn
  BY DEF ReadRune
<1>2. Here
  BY DEF ScanInv, Here, TypeOK, ToksTyped
<1>3. /\ pos < Len(src) /\ pos' = pos + 1 /\ pos' \in 0..Len(src) /\ pos' > pos
      /\ src[pos + 1] \in Rune /\ Reached = NextState(state, src[pos + 1])
      /\ state \in DOMAIN Accept
      /\ line' \in Nat /\ column' \in Nat
      /\ line' = 1 + LinesBefore(pos') /\ column' = ColumnAfter(pos')
  BY <1>1, AdvancePlaces
<1>4. Reached \in DOMAIN Accept /\ Reached # 0
  <2>1. Reached \in {NoState} \cup 1..35
    BY <1>3, NextStateFacts
  <2>2. Reached \in 0..35 /\ Reached # 0
    BY <1>1, <2>1
  <2>3. DOMAIN Accept = 0..35 \ Ignore
    BY DEF Accept
  <2> QED  BY <1>1, <2>2, <2>3
<1>5. Tokened' /\ ~Stopped'
  <2>1. ~Stopped /\ pos' >= pos /\ pos' \in Nat
    BY <1>1, <1>2, <1>3 DEF ScanInv, Going, Here
  <2> QED  BY <1>1, <2>1, TokensKept
<1>6. start \in Nat /\ pos \in Nat /\ start <= pos
  BY <1>2 DEF Here
<1>7. Here'
  <2>1. start' \in 0..pos' /\ end' \in 0..pos'
    BY <1>1, <1>3, <1>6
  <2>2. type' \in TokenType
    BY <1>1, <1>4 DEF TokenType
  <2> QED  BY <1>1, <1>2, <1>3, <1>4, <2>1, <2>2 DEF Here, TokenType
<1>8. Going' /\ AtStart'
  BY <1>1, <1>4, <1>5 DEF Going, AtStart
<1>9. Inside'
  <2>1. start' < pos'
    BY <1>1, <1>3, <1>6
  <2> QED  BY <1>1, <2>1 DEF Inside
<1>10. Placed'
  <2>1. startLine = 1 + LinesBefore(start) /\ startColumn = ColumnAfter(start)
    BY <1>1 DEF ScanInv, Placed
  <2> QED  BY <1>1, <1>3, <2>1, SameSource, Zenon DEF Placed
<1>11. IdRunesRead'
  <2> SUFFICES ASSUME Reached \in IdState
               PROVE  /\ src[start + 1] \in IdLetter
                      /\ \A j \in start + 2..pos + 1 : src[j] \in IdRune
    BY <1>1, <1>3 DEF IdRunesRead
  <2>1. \/ state = 0 /\ src[pos + 1] \in {"letter", "_"}
        \/ state \in IdState /\ src[pos + 1] \in {"digit", "letter", "_"}
    BY <1>3, NextStateFacts
  <2>2. CASE state = 0 /\ src[pos + 1] \in {"letter", "_"}
    <3>1. start = pos
      BY <2>2 DEF ScanInv, AtStart
    <3>2. \A j \in start + 2..pos + 1 : FALSE
      BY <1>6, <3>1
    <3> QED  BY <2>2, <3>1, <3>2 DEF IdLetter
  <2>3. CASE state \in IdState /\ src[pos + 1] \in {"digit", "letter", "_"}
    <3>1. src[start + 1] \in IdLetter /\ \A j \in start + 2..pos : src[j] \in IdRune
      BY <2>3 DEF ScanInv, IdsAreIds
    <3>2. \A j \in start + 2..pos + 1 : j \in start + 2..pos \/ j = pos + 1
      BY <1>6
    <3>3. src[pos + 1] \in IdRune
      BY <2>3 DEF IdRune
    <3> QED  BY <3>1, <3>2, <3>3
  <2> QED  BY <2>1, <2>2, <2>3
<1>12. IdIsRead'
  <2> SUFFICES ASSUME idRegexp(IdText)
               PROVE  (toks = << >> /\ state \in IdState /\ start = 0 /\ pos <= Len(IdText))'
    BY <1>1, SameSource DEF IdIsRead, idRegexp
  <2>1. PICK n : n = Len(IdText)
    OBVIOUS
  <2>2. n \in Nat /\ n >= 1
    BY <1>2, <2>1, TextFacts DEF Here
  <2>3. /\ toks = << >> /\ start = 0 /\ Reached \in IdState
        /\ pos = 0 \/ pos < n
    BY <1>1, <2>1, TextReached
  <2>4. pos + 1 <= n
    BY <1>6, <2>2, <2>3
  <2> QED  BY <1>1, <1>3, <2>1, <2>3, <2>4, SameSource
<1> QED  BY <1>5, <1>7, <1>8, <1>9, <1>10, <1>11, <1>12, ScanInvParts, PTL

LEMMA ReadIgnoredKeeps == ScanInv /\ ReadIgnored => ScanInv'
<1> SUFFICES ASSUME ScanInv, ReadIgnored PROVE ScanInv'
  OBVIOUS
<1>1. /\ state # NoState /\ Reached \in Ignore /\ Reached # NoState
      /\ Advance /\ state' = 0
      /\ start' = pos' /\ startLine' = line' /\ startColumn' = column'
      /\ type' = IF pos' >= Len(src) THEN "EOF" ELSE type
      /\ src' = src /\ end' = end /\ toks' = toks
  BY IdStateFacts DEF ReadIgnored
<1>2. Here
  BY DEF ScanInv, Here, TypeOK, ToksTyped
<1>3. /\ pos < Len(src) /\ pos' = pos + 1 /\ pos' \in 0..Len(src) /\ pos' > pos
      /\ src[pos + 1] \in Rune /\ Reached = NextState(state, src[pos + 1])
      /\ state \in DOMAIN Accept
      /\ line' \in Nat /\ column' \in Nat
      /\ line' = 1 + LinesBefore(pos') /\ column' = ColumnAfter(pos')
  BY <1>1, AdvancePlaces
<1>4. type = "INVALID"
  <2>1. Accept[state] = "INVALID"
    BY <1>1, <1>3, NextStateFacts
  <2>2. CASE state = 0
    <3>1. pos # Len(src)
      BY <1>2, <1>3 DEF Here
    <3> QED  BY <2>2, <3>1 DEF ScanInv, AtStart
  <2>3. CASE state # 0
    BY <1>1, <2>1, <2>3 DEF ScanInv, Inside
  <2> QED  BY <2>2, <2>3
<1>5. Tokened' /\ ~Stopped'
  <2>1. ~Stopped /\ pos' >= pos /\ pos' \in Nat
    BY <1>1, <1>2, <1>3 DEF ScanInv, Going, Here
  <2> QED  BY <1>1, <2>1, TokensKept
<1>6. pos \in Nat /\ end \in Nat /\ end <= pos
  BY <1>2 DEF Here
<1>7. Here'
  <2>1. start' \in 0..pos' /\ end' \in 0..pos'
    BY <1>1, <1>3, <1>6
  <2>2. type' \in TokenType
    BY <1>1, <1>4 DEF TokenType
  <2>3. 0 \in DOMAIN Accept
    BY IdStateFacts
  <2> QED  BY <1>1, <1>2, <1>3, <2>1, <2>2, <2>3 DEF Here, TokenType
<1>8. Going' /\ Inside' /\ IdRunesRead'
  BY <1>1, <1>5, IdStateFacts DEF Going, Inside, IdRunesRead
<1>9. AtStart'
  <2>1. \/ type' = "INVALID" /\ pos' < Len(src)
        \/ type' = "EOF" /\ pos' = Len(src)
    BY <1>1, <1>3, <1>4
  <2> QED  BY <1>1, <2>1 DEF AtStart
<1>10. Placed'
  BY <1>1, <1>3, SameSource, Zenon DEF Placed
<1>11. IdIsRead'
  <2> SUFFICES ASSUME idRegexp(IdText)
               PROVE  (Len(toks) = 1 /\ IdRead /\ state \in {NoState, 0} /\ pos >= Len(IdText))'
    BY <1>1, SameSource DEF IdIsRead, idRegexp
  <2>1. PICK n : n = Len(IdText)
    OBVIOUS
  <2>2. n \in Nat
    BY <1>2, <2>1, TextFacts DEF Here
  <2>3. Reached \notin IdState
    BY <1>1 DEF IdState, Ignore
  <2>4. Len(toks) = 1 /\ IdRead /\ pos >= n
    BY <1>1, <2>1, <2>3, TextReached
  <2>5. pos' >= n
    BY <1>3, <1>6, <2>2, <2>4
  <2> QED  BY <1>1, <2>1, <2>4, <2>5, SameSource DEF IdRead
<1> QED  BY <1>5, <1>7, <1>8, <1>9, <1>10, <1>11, ScanInvParts, PTL

(* The token that Scan returns when no state is reached.                      *)
Read  == IF pos >= Len(src) THEN pos ELSE pos + 1
Upto  == IF type = "INVALID" THEN Read ELSE end
Taken == Token(type, SubSeq(src, start + 1, Upto), start, startLine, startColumn)

(* It is an invalid one, of one rune or more; or the end of the source; or    *)
(* what state accepts, and then all that has been read is in it.              *)
LEMMA TakenFacts ==
    ASSUME ScanInv, ScanDone
    PROVE  /\ pos' \in pos..Len(src) /\ Upto \in 0..pos'
           /\ Taken \in TokenSet
           /\ Returned(Taken, pos')
           /\ \/ type = "INVALID"
              \/ type = "EOF" /\ state = 0
              \/ /\ type \notin {"INVALID", "EOF"} /\ type = Accept[state]
                 /\ state \notin {0, NoState} /\ pos' = pos
                 /\ Taken.lit = SubSeq(src, start + 1, pos)
<1>1. /\ state # NoState /\ pos' = (IF Upto > start THEN Upto ELSE Read)
      /\ Here
  BY DEF ScanDone, Upto, Read, ScanInv, Here, TypeOK, ToksTyped
<1>2. /\ pos \in Nat /\ pos <= Len(src) /\ Len(src) \in Nat /\ src \in Seq(Rune)
      /\ start \in Nat /\ start <= pos /\ end \in Nat /\ end <= pos
      /\ startLine \in Nat /\ startColumn \in Nat /\ type \in TokenType
  BY <1>1 DEF Here
<1>3. /\ Read \in Nat /\ Read >= pos /\ Read <= Len(src)
      /\ pos < Len(src) => Read = pos + 1
      /\ pos = Len(src) => Read = pos
  BY <1>2 DEF Read
<1>4. \/ type = "INVALID" /\ Upto = Read /\ start < Read
      \/ type = "EOF" /\ state = 0 /\ start = pos /\ pos = Len(src) /\ Upto = end
      \/ /\ type \notin {"INVALID", "EOF"} /\ type = Accept[state]
         /\ state \notin {0, NoState} /\ Upto = pos /\ start < pos
  <2>1. CASE state = 0
    <3>1. /\ start = pos
          /\ \/ type = "INVALID" /\ pos < Len(src)
             \/ type = "EOF" /\ pos = Len(src)
      BY <2>1 DEF ScanInv, AtStart
    <3>2. CASE type = "INVALID" /\ pos < Len(src)
      BY <1>2, <1>3, <3>1, <3>2 DEF Upto
    <3>3. CASE type = "EOF" /\ pos = Len(src)
      BY <2>1, <3>1, <3>3 DEF Upto
    <3> QED  BY <3>1, <3>2, <3>3
  <2>2. CASE state # 0
    <3>1. start < pos /\ end = pos /\ type = Accept[state]
      BY <1>1, <2>2 DEF ScanInv, Inside
    <3>2. type # "EOF"
      BY <1>1, <3>1, AcceptFacts DEF Here
    <3>3. CASE type = "INVALID"
      BY <1>2, <1>3, <3>1, <3>3 DEF Upto
    <3>4. CASE type # "INVALID"
      BY <1>1, <2>2, <3>1, <3>2, <3>4 DEF Upto
    <3> QED  BY <3>3, <3>4
  <2> QED  BY <2>1, <2>2
<1>5. PICK u : u = Upto
  OBVIOUS
<1>6. /\ u \in 0..Len(src) /\ u <= pos' /\ pos' \in Nat /\ pos <= pos' /\ pos' <= Len(src)
      /\ start < u \/ (u <= start /\ type = "EOF")
      /\ start <= pos'
  <2>1. pos' = (IF u > start THEN u ELSE Read)
    BY <1>1, <1>5
  <2>2. CASE type = "INVALID" /\ u = Read /\ start < Read
    <3>1. pos' = u
      BY <1>2, <1>3, <2>1, <2>2
    <3> QED  BY <1>2, <1>3, <2>2, <3>1
  <2>3. CASE type = "EOF" /\ start = pos /\ u = end
    <3>1. pos' = Read
      BY <1>2, <2>1, <2>3
    <3> QED  BY <1>2, <1>3, <2>3, <3>1
  <2>4. CASE u = pos /\ start < pos
    <3>1. pos' = pos
      BY <1>2, <2>1, <2>4
    <3> QED  BY <1>2, <2>4, <3>1
  <2> QED  BY <1>4, <1>5, <2>2, <2>3, <2>4
<1>7. PICK w : w = SubSeq(src, start + 1, u)
  OBVIOUS
<1>8. /\ w \in Seq(Rune) /\ Len(w) \in Nat /\ start + Len(w) <= pos'
      /\ w = << >> => type = "EOF"
      /\ start < u => Len(w) = u - start
      /\ \A j \in 1..u - start : w[j] = src[start + j]
  <2>1. /\ w \in Seq(Rune)
        /\ start < u => Len(w) = u - start
        /\ u <= start => w = << >> /\ Len(w) = 0
        /\ \A j \in 1..u - start : w[j] = src[start + j]
    <3>1. src \in Seq(Rune) /\ start \in Nat /\ u \in 0..Len(src)
      BY <1>2, <1>6
    <3> QED  BY <1>7, <3>1, SliceFacts
  <2>2. CASE start < u
    <3>1. Len(w) = u - start /\ Len(w) > 0
      BY <1>2, <1>6, <2>1, <2>2
    <3>2. start + Len(w) = u
      BY <1>2, <1>6, <3>1
    <3> QED  BY <1>6, <2>1, <3>1, <3>2
  <2>3. CASE u <= start /\ type = "EOF"
    BY <1>2, <1>6, <2>1, <2>3
  <2> QED  BY <1>6, <2>2, <2>3
<1>9. /\ Taken.type = type /\ Taken.lit = w /\ Taken.offset = start
      /\ Taken.line = startLine /\ Taken.column = startColumn
      /\ Taken \in TokenSet
  BY <1>2, <1>5, <1>7, <1>8 DEF Taken, Token, TokenSet
<1>10. startLine = 1 + LinesBefore(start) /\ startColumn = ColumnAfter(start)
  BY <1>1 DEF ScanInv, Placed
<1>11. ASSUME type = "id" PROVE idRegexp(w)
  <2>1. /\ type = Accept[state] /\ state \notin {0, NoState} /\ u = pos /\ start < pos
    BY <1>4, <1>5, <1>11
  <2>2. state \in IdState
    BY <1>1, <1>11, <2>1, AcceptFacts DEF Here
  <2>3. src[start + 1] \in IdLetter /\ \A j \in start + 2..pos : src[j] \in IdRune
    BY <2>2 DEF ScanInv, IdsAreIds
  <2>4. Len(w) = pos - start /\ 1 \in 1..u - start /\ w # << >>
    BY <1>2, <1>8, <2>1
  <2>5. w[1] \in IdLetter
    BY <1>8, <2>3, <2>4
  <2>6. ASSUME NEW j \in 2..Len(w) PROVE w[j] \in IdRune
    <3>1. j \in 1..u - start /\ start + j \in start + 2..pos
      BY <1>2, <2>1, <2>4
    <3> QED  BY <1>8, <2>3, <3>1
  <2> QED  BY <2>4, <2>5, <2>6 DEF idRegexp, IdLetter, IdRune
<1>12. Returned(Taken, pos')
  BY <1>8, <1>9, <1>10, <1>11 DEF Returned
<1>13. type \notin {"INVALID", "EOF"} => pos' = pos /\ Taken.lit = SubSeq(src, start + 1, pos)
  <2> SUFFICES ASSUME type \notin {"INVALID", "EOF"}
               PROVE  pos' = pos /\ w = SubSeq(src, start + 1, pos)
    BY <1>9
  <2>1. u = pos /\ start < pos
    BY <1>4, <1>5
  <2>2. pos' = pos
    BY <1>1, <1>5, <2>1
  <2> QED  BY <1>7, <2>1, <2>2
<1> QED  BY <1>2, <1>4, <1>5, <1>6, <1>9, <1>12, <1>13

LEMMA ScanDoneKeeps == ScanInv /\ ScanDone => ScanInv'
<1> SUFFICES ASSUME ScanInv, ScanDone PROVE ScanInv'
  OBVIOUS
<1> USE DEF NoState
<1>1. /\ state # NoState /\ Reached = NoState /\ state' = NoState /\ end' = Upto
      /\ toks' = Append(toks, Taken)
      /\ src' = src /\ line' = line /\ column' = column /\ start' = start
      /\ startLine' = startLine /\ startColumn' = startColumn /\ type' = type
  BY DEF ScanDone, Upto, Read, Taken
<1>2. Here
  BY DEF ScanInv, Here, TypeOK, ToksTyped
<1>3. /\ pos' \in pos..Len(src) /\ Upto \in 0..pos'
      /\ Taken \in TokenSet /\ Returned(Taken, pos')
      /\ \/ type = "INVALID"
         \/ type = "EOF" /\ state = 0
         \/ /\ type \notin {"INVALID", "EOF"} /\ type = Accept[state]
            /\ state \notin {0, NoState} /\ pos' = pos
            /\ Taken.lit = SubSeq(src, start + 1, pos)
  BY TakenFacts
<1>4. Taken.type = type
  BY DEF Taken, Token
<1>5. pos \in Nat /\ pos' \in Nat /\ pos' >= pos /\ pos' <= Len(src) /\ start \in 0..pos'
  BY <1>2, <1>3 DEF Here
<1>6. /\ Tokened' /\ (Stopped' <=> type \in {"EOF", "INVALID"})
      /\ Len(toks') = Len(toks) + 1
      /\ toks'[1] = IF toks = << >> THEN Taken ELSE toks[1]
  BY <1>1, <1>3, <1>4, <1>5, TokenAdded
<1>7. Here'
  BY <1>1, <1>2, <1>3, <1>5 DEF Here, TokenType
<1>8. Going' /\ AtStart' /\ Inside' /\ IdRunesRead'
  BY <1>1, IdStateFacts DEF Going, AtStart, Inside, IdRunesRead
<1>9. Placed'
  <2>1. line = 1 + LinesBefore(pos) /\ column = ColumnAfter(pos)
    BY <1>1 DEF ScanInv, Going, Placed
  <2>2. ~Stopped' => pos' = pos
    BY <1>3, <1>6
  <2> QED  BY <1>1, <2>1, <2>2, SameSource, Zenon DEF Placed
<1>10. IdIsRead'
  <2> SUFFICES ASSUME idRegexp(IdText)
               PROVE  \/ (Len(toks) = 1 /\ IdRead /\ state \in {NoState, 0} /\ pos >= Len(IdText))'
                      \/ (Len(toks) = 2 /\ IdRead /\ Stopped)'
    BY <1>1, SameSource DEF IdIsRead, idRegexp
  <2>1. PICK n : n = Len(IdText)
    OBVIOUS
  <2>2. /\ n \in Nat /\ n >= 1 /\ IdText \in Seq(Rune) /\ n <= Len(src)
        /\ \A j \in 1..n : src[j] = IdText[j]
    <3>1. Len(src) \in {n, n + 1} /\ n \in Nat
      BY <1>2, <2>1, TextFacts DEF Here
    <3> QED  BY <1>2, <2>1, <3>1, TextFacts DEF Here
  <2>3. Reached \notin IdState /\ Reached \notin Ignore
    BY <1>1, IdStateFacts
  <2>4. \/ /\ toks = << >> /\ state \in IdState /\ start = 0 /\ pos = n
        \/ /\ Len(toks) = 1 /\ IdRead /\ state = 0 /\ pos = Len(src)
    BY <1>1, <2>1, <2>3, TextReached
  <2>5. CASE toks = << >> /\ state \in IdState /\ start = 0 /\ pos = n
    <3>1. type = "id"
      <4>1. state # 0 /\ state \in DOMAIN Accept
        BY <2>5, IdStateFacts
      <4> QED  BY <1>1, <2>5, <4>1, AcceptFacts DEF ScanInv, Inside
    <3>2. pos' = pos /\ Taken.lit = SubSeq(src, 1, n)
      BY <1>3, <2>5, <3>1
    <3>3. SubSeq(src, 1, n) = IdText
      <4>1. PICK w : w = SubSeq(src, 0 + 1, n)
        OBVIOUS
      <4>2. w \in Seq(Rune) /\ Len(w) = n /\ \A j \in 1..n : w[j] = src[j]
        BY <1>2, <2>2, <4>1, SliceFacts DEF Here
      <4>3. w = IdText
        BY <2>1, <2>2, <4>2
      <4> QED  BY <4>1, <4>3
    <3>4. Len(toks') = 1 /\ toks'[1] = Taken
      BY <1>6, <2>5
    <3>5. IdRead'
      BY <1>1, <1>4, <3>1, <3>2, <3>3, <3>4, SameSource DEF IdRead
    <3>6. pos' >= n
      BY <1>5, <2>5
    <3> QED  BY <1>1, <2>1, <3>4, <3>5, <3>6, SameSource
  <2>6. CASE Len(toks) = 1 /\ IdRead /\ state = 0 /\ pos = Len(src)
    <3>1. type = "EOF"
      <4>1. ~(pos < Len(src))
        BY <1>5, <2>6
      <4> QED  BY <2>6, <4>1 DEF ScanInv, AtStart
    <3>2. toks # << >>
      BY <2>6
    <3>3. Len(toks') = 2 /\ toks'[1] = toks[1]
      BY <1>6, <2>6, <3>2
    <3> QED  BY <1>1, <1>6, <2>6, <3>1, <3>3, SameSource DEF IdRead
  <2> QED  BY <2>4, <2>5, <2>6
<1> QED  BY <1>6, <1>7, <1>8, <1>9, <1>10, ScanInvParts, PTL

LEMMA InputFacts ==
    ASSUME NEW input \in Inputs
    PROVE  input \in Seq(Rune) /\ Terminated(input) \in Seq(Rune)
<1>1. PICK x \in Alphabets : \E n \in 0..x.len : input \in [1..n -> x.runes]
  BY DEF Inputs
<1>2. PICK n \in 0..x.len : input \in [1..n -> x.runes]
  BY <1>1
<1>3. x.runes \subseteq Rune /\ n \in Nat
  BY <1>2, AlphabetAssumption
<1>4. input \in [1..n -> Rune]
  BY <1>2, <1>3
<1>5. input \in Seq(Rune)
  BY <1>3, <1>4
<1>6. "nl" \in Rune
  BY DEF Rune
<1>7. Append(input, "nl") \in Seq(Rune)
  BY <1>5, <1>6, AppendFacts
<1> QED  BY <1>5, <1>7 DEF Terminated

LEMMA ScannerStarts ==
    ASSUME NEW text \in Seq(Rune), ScannerAt(text)
    PROVE  ScanInv
<1>2. /\ src \in Seq(Rune) /\ pos = 0 /\ line = 1 /\ column = 1
      /\ state = NoState /\ start = 0 /\ startLine = 1 /\ startColumn = 1
      /\ end = 0 /\ type = "INVALID" /\ toks = << >>
  BY DEF ScannerAt
<1>3. Here
  BY <1>2 DEF Here, TokenType
<1>4. Tokened /\ ~Stopped
  BY <1>2 DEF Tokened, Positions, Stopped
<1>5. Going /\ AtStart /\ Inside /\ IdRunesRead
  BY <1>2, IdStateFacts DEF Going, AtStart, Inside, IdRunesRead, NoState
<1>6. Placed
  BY <1>2, PlacesBegin DEF Placed
<1>7. IdIsRead
  BY <1>2 DEF IdIsRead
<1> QED  BY <1>3, <1>4, <1>5, <1>6, <1>7, ScanInvParts

LEMMA InitScan == Init => ScanInv
<1> SUFFICES ASSUME Init PROVE ScanInv
  OBVIOUS
<1>1. PICK text \in Seq(Rune) : ScannerAt(text)
  BY InputFacts DEF Init
<1> QED  BY <1>1, ScannerStarts

LEMMA ScanSteps == ScanInv /\ [Next]_vars => ScanInv'
<1> SUFFICES ASSUME ScanInv, [Next]_vars PROVE ScanInv'
  OBVIOUS
<1>1. CASE ScanEnd
  BY <1>1, ScanEndKeeps
<1>2. CASE ScanStart
  BY <1>2, ScanStartKeeps
<1>3. CASE ReadRune
  BY <1>3, ReadRuneKeeps
<1>4. CASE ReadIgnored
  BY <1>4, ReadIgnoredKeeps
<1>5. CASE ScanDone
  BY <1>5, ScanDoneKeeps
<1>6. CASE UNCHANGED vars
  <2>1. /\ UNCHANGED <<src, pos, line, column, state, start, startLine, startColumn>>
        /\ UNCHANGED <<end, type, toks>>
    BY <1>6 DEF vars, lexer
  <2>2. Tokened' /\ Stopped' = Stopped
    BY <2>1, TokensKept DEF ScanInv, TypeOK
  <2>3. Here' /\ Going' /\ AtStart' /\ Inside' /\ IdRunesRead'
    BY <2>1, <2>2, ScanInvParts
       DEF Here, TokenType, Going, AtStart, Inside, IdRunesRead
  <2>4. Placed'
    BY <2>1, <2>2, SameSource, ScanInvParts, Zenon DEF Placed
  <2>5. IdIsRead'
    BY <2>1, <2>2, SameSource, ScanInvParts, Zenon DEF IdIsRead, IdRead, idRegexp
  <2> QED  BY <2>2, <2>3, <2>4, <2>5, ScanInvParts, PTL
<1> QED  BY <1>1, <1>2, <1>3, <1>4, <1>5, <1>6 DEF Next

LEMMA ScanInvHolds == Spec => []ScanInv
BY InitScan, ScanSteps, PTL DEF Spec

-----------------------------------------------------------------------------
(* For every text: Scan stays within it, and returns an empty token at its     *)
(* end only, so that each of the other calls gets on.                         *)
THEOREM ScannerGetsOn == Spec => []TypeOK
<1>1. ScanInv => TypeOK
  BY DEF ScanInv
<1> QED  BY <1>1, ScanInvHolds, PTL

(* For every text: the line and the column that Scan writes into a token are  *)
(* those of its first rune, whatever comments, strings and tabs were read     *)
(* before it and whatever was given back.                                     *)
THEOREM PositionsAreRight == Spec => []Positions
<1>1. ScanInv => Positions
  BY DEF ScanInv
<1> QED  BY <1>1, ScanInvHolds, PTL

(* For every text: what Scan reads as an id is what the idRegexp of AddNode   *)
(* matches, and what idRegexp matches Scan reads as one id.                   *)
THEOREM IdsAreAgreedOn == Spec => []IdsAgree
<1>1. ScanInv => IdsAgree
  <2> SUFFICES ASSUME ScanInv, Stopped PROVE IdsAgree
    BY DEF IdsAgree
  <2>1. \A j \in 1..Len(toks) : toks[j].type = "id" => idRegexp(toks[j].lit)
    BY DEF ScanInv, IdsAreIds
  <2>2. ASSUME idRegexp(IdText) PROVE Len(toks) = 2 /\ IdRead
    <3>1. toks # << >>
      BY DEF Stopped
    <3>2. ~(Len(toks) = 1 /\ IdRead)
      <4> SUFFICES ASSUME Len(toks) = 1, IdRead PROVE FALSE
        OBVIOUS
      <4>1. Last(toks).type = "id"
        BY DEF Last, IdRead
      <4> QED  BY <4>1 DEF Stopped
    <3> QED  BY <2>2, <3>1, <3>2 DEF ScanInv, IdIsRead
  <2> QED  BY <2>1, <2>2 DEF IdsAgree, IdRead, IdText
<1> QED  BY <1>1, ScanInvHolds, PTL

-----------------------------------------------------------------------------
(* The parser: what its states stand for.                                    *)

Left(p)   == ProdTab[p][1]
Length(p) == ProdTab[p][2]

(* In state s the first k symbols of production p have been read.  (State 1   *)
(* has the whole document.)                                                  *)
Has(s, p, k) ==
    \/ s = 2 /\ p \in {2, 4} /\ k = 1
    \/ s = 3 /\ p = 3 /\ k = 1
    \/ s = 4 /\ p = 20 /\ k = 1
    \/ s = 5 /\ p \in {7, 8, 9, 10, 11, 17} /\ k = 1
    \/ s = 6 /\ p \in {18, 19} /\ k = 1
    \/ s = 7 /\ p = 4 /\ k = 2
    \/ s = 8 /\ p = 20 /\ k = 2
    \/ s \in {9, 26, 32} /\ p = 6 /\ k = 1
    \/ s = 10 /\ p \in 7..10 /\ k = 2
    \/ s = 11 /\ p = 17 /\ k = 2
    \/ s = 12 /\ p = 12 /\ k = 1
    \/ s = 13 /\ p \in 13..16 /\ k = 1
    \/ s = 14 /\ p = 19 /\ k = 2
    \/ s = 15 /\ p = 18 /\ k = 2
    \/ s = 16 /\ ((p \in {8, 9} /\ k = 3) \/ (p = 25 /\ k = 1))
    \/ s = 17 /\ ((p = 7 /\ k = 3) \/ (p = 22 /\ k = 1))
    \/ s = 18 /\ p = 10 /\ k = 3
    \/ s \in {19, 24} /\ p = 21 /\ k = 1
    \/ s = 20 /\ p = 12 /\ k = 2
    \/ s = 21 /\ ((p \in {15, 16} /\ k = 2) \/ (p = 25 /\ k = 1))
    \/ s = 22 /\ ((p = 14 /\ k = 2) \/ (p = 22 /\ k = 1))
    \/ s = 23 /\ p = 13 /\ k = 2
    \/ s = 25 /\ p \in {8, 9} /\ k = 4
    \/ s \in {27, 33} /\ p = 25 /\ k = 2
    \/ s \in {28, 34} /\ p = 25 /\ k = 1
    \/ s = 29 /\ p = 7 /\ k = 4
    \/ s \in {30, 36} /\ p = 22 /\ k = 2
    \/ s = 31 /\ p \in {15, 16} /\ k = 3
    \/ s = 35 /\ p = 14 /\ k = 3
    \/ s = 37 /\ p = 13 /\ k = 3
    \/ s = 38 /\ ((p = 8 /\ k = 5) \/ (p = 22 /\ k = 1))
    \/ s = 39 /\ p = 9 /\ k = 5
    \/ s \in {40, 46} /\ p = 26 /\ k = 1
    \/ s \in {41, 47} /\ p = 25 /\ k = 3
    \/ s \in {42, 48} /\ p = 27 /\ k = 1
    \/ s \in {43, 49} /\ p = 28 /\ k = 1
    \/ s = 44 /\ ((p = 16 /\ k = 4) \/ (p = 22 /\ k = 1))
    \/ s = 45 /\ p = 15 /\ k = 4
    \/ s = 50 /\ p = 14 /\ k = 4
    \/ s = 51 /\ p = 8 /\ k = 6
    \/ s \in {52, 56} /\ p = 25 /\ k = 4
    \/ s \in {53, 57} /\ p = 24 /\ k = 1
    \/ s = 54 /\ p = 16 /\ k = 5
    \/ s = 55 /\ p = 15 /\ k = 5
    \/ s = 58 /\ p = 16 /\ k = 6

(* The symbol that leads to state s.                                         *)
Enters(s) ==
    CASE s = 1 -> "WholeDoc"
      [] s = 2 -> "TopLevelDeclList"
      [] s \in {3, 7} -> "TopLevelStmt"
      [] s = 4 -> "NodeDecl"
      [] s \in {5, 16, 20, 21, 28, 34, 37, 40, 46, 50, 55, 58} -> "id"
      [] s = 6 -> "EdgeDecl"
      [] s \in {8, 14, 25, 31} -> "OptSep"
      [] s \in {9, 26, 32} -> ";"
      [] s = 10 -> "["
      [] s \in {11, 15} -> "EdgeRHS"
      [] s = 12 -> "edgearrow"
      [] s = 13 -> "edge_attr_open"
      [] s \in {17, 22, 38, 44} -> "AttrItems"
      [] s \in {18, 29, 39, 51} -> "]"
      [] s \in {19, 24, 30, 36} -> "Attr"
      [] s \in {23, 35, 45, 54} -> "edge_attr_close"
      [] s \in {27, 33} -> "="
      [] s \in {41, 47} -> "AttrVal"
      [] s \in {42, 48} -> "numeric_literal"
      [] s \in {43, 49} -> "quoted_string"
      [] s \in {52, 56} -> "OptAttrSep"
      [] s \in {53, 57} -> ","

(* In state s symbol A may begin.                                            *)
Awaited(s, A) ==
    \/ s = 0 /\ A \in {"WholeDoc", "TopLevelDeclList", "NodeDecl", "EdgeDecl", "TopLevelStmt"}
    \/ s = 2 /\ A \in {"NodeDecl", "EdgeDecl", "TopLevelStmt"}
    \/ s \in {4, 16, 21} /\ A = "OptSep"
    \/ s = 5 /\ A = "EdgeRHS"
    \/ s = 6 /\ A \in {"OptSep", "EdgeRHS"}
    \/ s \in {10, 13, 25, 31} /\ A \in {"AttrItems", "Attr"}
    \/ s \in {17, 22, 38, 44} /\ A = "Attr"
    \/ s \in {27, 33} /\ A = "AttrVal"
    \/ s \in {41, 47} /\ A = "OptAttrSep"

(* What the products of the symbols are.                                     *)
TokenP == [tag : {"token"}, type : Terminal, n : Nat]
StrP   == [tag : {"string"}, n : Nat]
AttrP  == [tag : {"Attr"}, key : Nat, value : Nat, pos : Nat]
AttrsP == [tag : {"Attrs"}, list : Seq(AttrP)]
NodeP  == [tag : {"Node"}, id : Nat, type : Nat, attrs : Seq(AttrP), pos : Nat]
StepP  == [tag : {"EdgeStep"}, to : Nat, type : Nat, attrs : Seq(AttrP), pos : Nat]
ChainP == [tag : {"EdgeChain"}, from : Nat, steps : Seq(StepP)]
GraphP == [tag : {"Graph"}, items : Seq(NodeP \cup ChainP)]
Product == TokenP \cup StrP \cup AttrP \cup AttrsP \cup NodeP \cup StepP \cup ChainP
              \cup GraphP \cup {Nil}

Kind(X) ==
    CASE X \in {"WholeDoc", "TopLevelDeclList"} -> GraphP
      [] X = "TopLevelStmt" -> NodeP \cup ChainP
      [] X = "NodeDecl" -> NodeP
      [] X = "EdgeDecl" -> ChainP
      [] X = "EdgeRHS" -> StepP
      [] X \in {"OptSep", "OptAttrSep"} -> {Nil} \cup TokenP
      [] X = "AttrItems" -> AttrsP
      [] X = "Attr" -> AttrP
      [] X = "AttrVal" -> TokenP \cup StrP
      [] OTHER -> TokenP

(* Symbol X leads from state s to state s2.                                  *)
Leads(s, X, s2) ==
    /\ s2 \in 1..58 /\ X = Enters(s2) /\ (s2 = 1 => s = 0)
    /\ \A p, k : Has(s2, p, k) => IF k = 1 THEN Awaited(s, Left(p)) ELSE Has(s, p, k - 1)

CanReduce(s, p) ==
    /\ p \in 1..28
    /\ IF Length(p) = 0 THEN Awaited(s, Left(p)) ELSE Has(s, p, Length(p))

Does(s, t, action) ==
    \/ action.op = "shift" /\ Leads(s, t, action.arg)
    \/ action.op = "reduce" /\ CanReduce(s, action.arg)
    \/ action.op = "accept" /\ s = 1
RowOK(s, row) == \A t \in DOMAIN row : t \in Terminal /\ Does(s, t, row[t])
TabOK(tab)    == \A s \in DOMAIN tab : RowOK(s, tab[s])

(* A row or a table that is put together from two.                           *)
LEMMA MergeFacts ==
    ASSUME NEW f, NEW g
    PROVE  /\ DOMAIN (f ++ g) = DOMAIN f \cup DOMAIN g
           /\ \A x \in DOMAIN f : (f ++ g)[x] = f[x]
           /\ \A x \in DOMAIN g : x \notin DOMAIN f => (f ++ g)[x] = g[x]
BY DEF ++

LEMMA OneFacts ==
    ASSUME NEW x, NEW y
    PROVE  DOMAIN (On(x, y)) = {x} /\ (On(x, y))[x] = y
BY DEF On

LEMMA HasMerge ==
    ASSUME NEW f, NEW g, NEW x, x \in DOMAIN f \/ x \in DOMAIN g
    PROVE  x \in DOMAIN (f ++ g)
BY DEF ++

LEMMA HasOne ==
    ASSUME NEW x, NEW y
    PROVE  x \in DOMAIN On(x, y)
BY DEF On

LEMMA RowMerge ==
    ASSUME NEW s, NEW f, NEW g, RowOK(s, f), RowOK(s, g)
    PROVE  RowOK(s, f ++ g)
<1> SUFFICES ASSUME NEW t \in DOMAIN (f ++ g)
             PROVE  t \in Terminal /\ Does(s, t, (f ++ g)[t])
  BY DEF RowOK
<1>1. CASE t \in DOMAIN f
  BY <1>1, MergeFacts DEF RowOK
<1>2. CASE t \notin DOMAIN f
  <2>1. t \in DOMAIN g /\ (f ++ g)[t] = g[t]
    BY <1>2 DEF ++
  <2> QED  BY <2>1 DEF RowOK
<1> QED  BY <1>1, <1>2

LEMMA RowReduce ==
    ASSUME NEW s, NEW p, CanReduce(s, p), NEW T \in SUBSET Terminal
    PROVE  RowOK(s, Reduce(p, T))
BY DEF RowOK, Does, Reduce

LEMMA RowShift ==
    ASSUME NEW s, NEW t \in Terminal, NEW s2, Leads(s, t, s2)
    PROVE  RowOK(s, Shift(t, s2))
<1>1. RowOK(s, [z \in {t} |-> [op |-> "shift", arg |-> s2]])
  BY DEF RowOK, Does
<1> QED  BY <1>1 DEF Shift, On

LEMMA RowAccept ==
    ASSUME NEW t \in Terminal
    PROVE  RowOK(1, AcceptOn(t))
<1>1. RowOK(1, [z \in {t} |-> [op |-> "accept", arg |-> 0]])
  BY DEF RowOK, Does
<1> QED  BY <1>1 DEF AcceptOn, On

LEMMA TabMerge ==
    ASSUME NEW f, NEW g, TabOK(f), TabOK(g)
    PROVE  TabOK(f ++ g)
<1> SUFFICES ASSUME NEW s \in DOMAIN (f ++ g)
             PROVE  RowOK(s, (f ++ g)[s])
  BY DEF TabOK
<1>1. CASE s \in DOMAIN f
  BY <1>1, MergeFacts DEF TabOK
<1>2. CASE s \notin DOMAIN f
  <2>1. s \in DOMAIN g /\ (f ++ g)[s] = g[s]
    BY <1>2 DEF ++
  <2> QED  BY <2>1 DEF TabOK
<1> QED  BY <1>1, <1>2

LEMMA TabOne ==
    ASSUME NEW s, NEW row, RowOK(s, row)
    PROVE  TabOK(On(s, row))
BY DEF TabOK, On

LEMMA TokenSets ==
    /\ Statements \in SUBSET Terminal /\ NodeEnds \in SUBSET Terminal /\ EdgeEnds \in SUBSET Terminal
    /\ InNode \in SUBSET Terminal /\ InEdge \in SUBSET Terminal
    /\ NodeVals \in SUBSET Terminal /\ EdgeVals \in SUBSET Terminal
    /\ {"EOF"} \in SUBSET Terminal
    /\ "EOF" \in Terminal /\ "id" \in Terminal /\ ";" \in Terminal /\ "[" \in Terminal
    /\ "]" \in Terminal /\ "edgearrow" \in Terminal /\ "edge_attr_open" \in Terminal
    /\ "edge_attr_close" \in Terminal /\ "," \in Terminal /\ "=" \in Terminal
    /\ "numeric_literal" \in Terminal /\ "quoted_string" \in Terminal
BY DEF Statements, NodeEnds, EdgeEnds, InNode, InEdge, NodeVals, EdgeVals, Terminal

LEMMA Productions ==
    /\ Left(1) = "WholeDoc" /\ Length(1) = 0
    /\ Left(2) = "WholeDoc" /\ Length(2) = 1
    /\ Left(3) = "TopLevelDeclList" /\ Length(3) = 1
    /\ Left(4) = "TopLevelDeclList" /\ Length(4) = 2
    /\ Left(5) = "OptSep" /\ Length(5) = 0
    /\ Left(6) = "OptSep" /\ Length(6) = 1
    /\ Left(7) = "NodeDecl" /\ Length(7) = 4
    /\ Left(8) = "NodeDecl" /\ Length(8) = 6
    /\ Left(9) = "NodeDecl" /\ Length(9) = 5
    /\ Left(10) = "NodeDecl" /\ Length(10) = 3
    /\ Left(11) = "NodeDecl" /\ Length(11) = 1
    /\ Left(12) = "EdgeRHS" /\ Length(12) = 2
    /\ Left(13) = "EdgeRHS" /\ Length(13) = 3
    /\ Left(14) = "EdgeRHS" /\ Length(14) = 4
    /\ Left(15) = "EdgeRHS" /\ Length(15) = 5
    /\ Left(16) = "EdgeRHS" /\ Length(16) = 6
    /\ Left(17) = "EdgeDecl" /\ Length(17) = 2
    /\ Left(18) = "EdgeDecl" /\ Length(18) = 2
    /\ Left(19) = "TopLevelStmt" /\ Length(19) = 2
    /\ Left(20) = "TopLevelStmt" /\ Length(20) = 2
    /\ Left(21) = "AttrItems" /\ Length(21) = 1
    /\ Left(22) = "AttrItems" /\ Length(22) = 2
    /\ Left(23) = "OptAttrSep" /\ Length(23) = 0
    /\ Left(24) = "OptAttrSep" /\ Length(24) = 1
    /\ Left(25) = "Attr" /\ Length(25) = 4
    /\ Left(26) = "AttrVal" /\ Length(26) = 1
    /\ Left(27) = "AttrVal" /\ Length(27) = 1
    /\ Left(28) = "AttrVal" /\ Length(28) = 1
BY DEF ProdTab, Left, Length

LEMMA Actions0OK == TabOK(Actions0) /\ 0..7 \subseteq DOMAIN Actions0
<1> DEFINE row0 == Reduce(1, {"EOF"}) ++ Shift("id", 5)
           row1 == AcceptOn("EOF")
           row2 == Reduce(2, {"EOF"}) ++ Shift("id", 5)
           row3 == Reduce(3, Statements)
           row4 == Reduce(5, Statements) ++ Shift(";", 9)
           row5 == Reduce(11, NodeEnds) ++ Shift("[", 10) ++ Shift("edgearrow", 12) ++
                   Shift("edge_attr_open", 13)
           row6 == Reduce(5, Statements) ++ Shift(";", 9) ++ Shift("edgearrow", 12) ++
                   Shift("edge_attr_open", 13)
           row7 == Reduce(4, Statements)
<1>1. /\ CanReduce(0, 1) /\ CanReduce(2, 2) /\ CanReduce(3, 3) /\ CanReduce(4, 5)
      /\ CanReduce(5, 11) /\ CanReduce(6, 5) /\ CanReduce(7, 4)
  BY Productions DEF CanReduce, Has, Awaited
<1>2. /\ Leads(0, "id", 5) /\ Leads(2, "id", 5) /\ Leads(4, ";", 9) /\ Leads(5, "[", 10)
      /\ Leads(5, "edgearrow", 12) /\ Leads(5, "edge_attr_open", 13) /\ Leads(6, ";", 9)
      /\ Leads(6, "edgearrow", 12) /\ Leads(6, "edge_attr_open", 13)
  BY Productions DEF Leads, Enters, Has, Awaited
<1>10. RowOK(0, row0)
  BY <1>1, RowReduce, <1>2, RowShift, RowMerge, TokenSets
<1>11. RowOK(1, row1)
  BY RowAccept, TokenSets
<1>12. RowOK(2, row2)
  BY <1>1, RowReduce, <1>2, RowShift, RowMerge, TokenSets
<1>13. RowOK(3, row3)
  BY <1>1, RowReduce, TokenSets
<1>14. RowOK(4, row4)
  BY <1>1, RowReduce, <1>2, RowShift, RowMerge, TokenSets
<1>15. RowOK(5, row5)
  BY <1>1, RowReduce, <1>2, RowShift, RowMerge, TokenSets
<1>16. RowOK(6, row6)
  BY <1>1, RowReduce, <1>2, RowShift, RowMerge, TokenSets
<1>17. RowOK(7, row7)
  BY <1>1, RowReduce, TokenSets
<1>3. Actions0 = On(0, row0) ++ On(1, row1) ++ On(2, row2) ++ On(3, row3) ++ On(4, row4) ++ On(5, row5)
          ++ On(6, row6) ++ On(7, row7)
  BY DEF Actions0
<1> HIDE DEF row0, row1, row2, row3, row4, row5, row6, row7
<1>4. TabOK(Actions0)
  BY <1>3, <1>10, <1>11, <1>12, <1>13, <1>14, <1>15, <1>16, <1>17, TabOne, TabMerge
<1>5. /\ 0 \in DOMAIN Actions0 /\ 1 \in DOMAIN Actions0 /\ 2 \in DOMAIN Actions0
      /\ 3 \in DOMAIN Actions0 /\ 4 \in DOMAIN Actions0 /\ 5 \in DOMAIN Actions0
      /\ 6 \in DOMAIN Actions0 /\ 7 \in DOMAIN Actions0
  BY <1>3, HasOne, HasMerge
<1>6. \A s \in 0..7 : s \in DOMAIN Actions0
  BY <1>5
<1> QED  BY <1>4, <1>6

LEMMA Actions8OK == TabOK(Actions8) /\ 8..15 \subseteq DOMAIN Actions8
<1> DEFINE row0 == Reduce(20, Statements)
           row1 == Reduce(6, Statements)
           row2 == Shift("id", 16) ++ Shift("]", 18)
           row3 == Reduce(17, EdgeEnds)
           row4 == Shift("id", 20)
           row5 == Shift("id", 21) ++ Shift("edge_attr_close", 23)
           row6 == Reduce(19, Statements)
           row7 == Reduce(18, EdgeEnds)
<1>1. /\ CanReduce(8, 20) /\ CanReduce(9, 6) /\ CanReduce(11, 17) /\ CanReduce(14, 19)
      /\ CanReduce(15, 18)
  BY Productions DEF CanReduce, Has, Awaited
<1>2. /\ Leads(10, "id", 16) /\ Leads(10, "]", 18) /\ Leads(12, "id", 20) /\ Leads(13, "id", 21)
      /\ Leads(13, "edge_attr_close", 23)
  BY Productions DEF Leads, Enters, Has, Awaited
<1>10. RowOK(8, row0)
  BY <1>1, RowReduce, TokenSets
<1>11. RowOK(9, row1)
  BY <1>1, RowReduce, TokenSets
<1>12. RowOK(10, row2)
  BY <1>2, RowShift, RowMerge, TokenSets
<1>13. RowOK(11, row3)
  BY <1>1, RowReduce, TokenSets
<1>14. RowOK(12, row4)
  BY <1>2, RowShift, TokenSets
<1>15. RowOK(13, row5)
  BY <1>2, RowShift, RowMerge, TokenSets
<1>16. RowOK(14, row6)
  BY <1>1, RowReduce, TokenSets
<1>17. RowOK(15, row7)
  BY <1>1, RowReduce, TokenSets
<1>3. Actions8 = On(8, row0) ++ On(9, row1) ++ On(10, row2) ++ On(11, row3) ++ On(12, row4) ++ On(13,
          row5) ++ On(14, row6) ++ On(15, row7)
  BY DEF Actions8
<1> HIDE DEF row0, row1, row2, row3, row4, row5, row6, row7
<1>4. TabOK(Actions8)
  BY <1>3, <1>10, <1>11, <1>12, <1>13, <1>14, <1>15, <1>16, <1>17, TabOne, TabMerge
<1>5. /\ 8 \in DOMAIN Actions8 /\ 9 \in DOMAIN Actions8 /\ 10 \in DOMAIN Actions8
      /\ 11 \in DOMAIN Actions8 /\ 12 \in DOMAIN Actions8 /\ 13 \in DOMAIN Actions8
      /\ 14 \in DOMAIN Actions8 /\ 15 \in DOMAIN Actions8
  BY <1>3, HasOne, HasMerge
<1>6. \A s \in 8..15 : s \in DOMAIN Actions8
  BY <1>5
<1> QED  BY <1>4, <1>6

LEMMA Actions16OK == TabOK(Actions16) /\ 16..23 \subseteq DOMAIN Actions16
<1> DEFINE row0 == Reduce(5, InNode) ++ Shift(";", 26) ++ Shift("=", 27)
           row1 == Shift("id", 28) ++ Shift("]", 29)
           row2 == Reduce(10, NodeEnds)
           row3 == Reduce(21, InNode)
           row4 == Reduce(12, EdgeEnds)
           row5 == Reduce(5, InEdge) ++ Shift(";", 32) ++ Shift("=", 33)
           row6 == Shift("id", 34) ++ Shift("edge_attr_close", 35)
           row7 == Shift("id", 37)
<1>1. /\ CanReduce(16, 5) /\ CanReduce(18, 10) /\ CanReduce(19, 21) /\ CanReduce(20, 12)
      /\ CanReduce(21, 5)
  BY Productions DEF CanReduce, Has, Awaited
<1>2. /\ Leads(16, ";", 26) /\ Leads(16, "=", 27) /\ Leads(17, "id", 28) /\ Leads(17, "]", 29)
      /\ Leads(21, ";", 32) /\ Leads(21, "=", 33) /\ Leads(22, "id", 34)
      /\ Leads(22, "edge_attr_close", 35) /\ Leads(23, "id", 37)
  BY Productions DEF Leads, Enters, Has, Awaited
<1>10. RowOK(16, row0)
  BY <1>1, RowReduce, <1>2, RowShift, RowMerge, TokenSets
<1>11. RowOK(17, row1)
  BY <1>2, RowShift, RowMerge, TokenSets
<1>12. RowOK(18, row2)
  BY <1>1, RowReduce, TokenSets
<1>13. RowOK(19, row3)
  BY <1>1, RowReduce, TokenSets
<1>14. RowOK(20, row4)
  BY <1>1, RowReduce, TokenSets
<1>15. RowOK(21, row5)
  BY <1>1, RowReduce, <1>2, RowShift, RowMerge, TokenSets
<1>16. RowOK(22, row6)
  BY <1>2, RowShift, RowMerge, TokenSets
<1>17. RowOK(23, row7)
  BY <1>2, RowShift, TokenSets
<1>3. Actions16 = On(16, row0) ++ On(17, row1) ++ On(18, row2) ++ On(19, row3) ++ On(20, row4) ++ On(21,
          row5) ++ On(22, row6) ++ On(23, row7)
  BY DEF Actions16
<1> HIDE DEF row0, row1, row2, row3, row4, row5, row6, row7
<1>4. TabOK(Actions16)
  BY <1>3, <1>10, <1>11, <1>12, <1>13, <1>14, <1>15, <1>16, <1>17, TabOne, TabMerge
<1>5. /\ 16 \in DOMAIN Actions16 /\ 17 \in DOMAIN Actions16 /\ 18 \in DOMAIN Actions16
      /\ 19 \in DOMAIN Actions16 /\ 20 \in DOMAIN Actions16 /\ 21 \in DOMAIN Actions16
      /\ 22 \in DOMAIN Actions16 /\ 23 \in DOMAIN Actions16
  BY <1>3, HasOne, HasMerge
<1>6. \A s \in 16..23 : s \in DOMAIN Actions16
  BY <1>5
<1> QED  BY <1>4, <1>6

LEMMA Actions24OK == TabOK(Actions24) /\ 24..31 \subseteq DOMAIN Actions24
<1> DEFINE row0 == Reduce(21, InEdge)
           row1 == Shift("id", 28) ++ Shift("]", 39)
           row2 == Reduce(6, InNode)
           row3 == Shift("id", 40) ++ Shift("numeric_literal", 42) ++ Shift("quoted_string", 43)
           row4 == Shift("=", 27)
           row5 == Reduce(7, NodeEnds)
           row6 == Reduce(22, InNode)
           row7 == Shift("id", 34) ++ Shift("edge_attr_close", 45)
<1>1. /\ CanReduce(24, 21) /\ CanReduce(26, 6) /\ CanReduce(29, 7) /\ CanReduce(30, 22)
  BY Productions DEF CanReduce, Has, Awaited
<1>2. /\ Leads(25, "id", 28) /\ Leads(25, "]", 39) /\ Leads(27, "id", 40)
      /\ Leads(27, "numeric_literal", 42) /\ Leads(27, "quoted_string", 43)
      /\ Leads(28, "=", 27) /\ Leads(31, "id", 34) /\ Leads(31, "edge_attr_close", 45)
  BY Productions DEF Leads, Enters, Has, Awaited
<1>10. RowOK(24, row0)
  BY <1>1, RowReduce, TokenSets
<1>11. RowOK(25, row1)
  BY <1>2, RowShift, RowMerge, TokenSets
<1>12. RowOK(26, row2)
  BY <1>1, RowReduce, TokenSets
<1>13. RowOK(27, row3)
  BY <1>2, RowShift, RowMerge, TokenSets
<1>14. RowOK(28, row4)
  BY <1>2, RowShift, TokenSets
<1>15. RowOK(29, row5)
  BY <1>1, RowReduce, TokenSets
<1>16. RowOK(30, row6)
  BY <1>1, RowReduce, TokenSets
<1>17. RowOK(31, row7)
  BY <1>2, RowShift, RowMerge, TokenSets
<1>3. Actions24 = On(24, row0) ++ On(25, row1) ++ On(26, row2) ++ On(27, row3) ++ On(28, row4) ++ On(29,
          row5) ++ On(30, row6) ++ On(31, row7)
  BY DEF Actions24
<1> HIDE DEF row0, row1, row2, row3, row4, row5, row6, row7
<1>4. TabOK(Actions24)
  BY <1>3, <1>10, <1>11, <1>12, <1>13, <1>14, <1>15, <1>16, <1>17, TabOne, TabMerge
<1>5. /\ 24 \in DOMAIN Actions24 /\ 25 \in DOMAIN Actions24 /\ 26 \in DOMAIN Actions24
      /\ 27 \in DOMAIN Actions24 /\ 28 \in DOMAIN Actions24 /\ 29 \in DOMAIN Actions24
      /\ 30 \in DOMAIN Actions24 /\ 31 \in DOMAIN Actions24
  BY <1>3, HasOne, HasMerge
<1>6. \A s \in 24..31 : s \in DOMAIN Actions24
  BY <1>5
<1> QED  BY <1>4, <1>6

LEMMA Actions32OK == TabOK(Actions32) /\ 32..39 \subseteq DOMAIN Actions32
<1> DEFINE row0 == Reduce(6, InEdge)
           row1 == Shift("id", 46) ++ Shift("numeric_literal", 48) ++ Shift("quoted_string", 49)
           row2 == Shift("=", 33)
           row3 == Shift("id", 50)
           row4 == Reduce(22, InEdge)
           row5 == Reduce(13, EdgeEnds)
           row6 == Shift("id", 28) ++ Shift("]", 51)
           row7 == Reduce(9, NodeEnds)
<1>1. /\ CanReduce(32, 6) /\ CanReduce(36, 22) /\ CanReduce(37, 13) /\ CanReduce(39, 9)
  BY Productions DEF CanReduce, Has, Awaited
<1>2. /\ Leads(33, "id", 46) /\ Leads(33, "numeric_literal", 48)
      /\ Leads(33, "quoted_string", 49) /\ Leads(34, "=", 33) /\ Leads(35, "id", 50)
      /\ Leads(38, "id", 28) /\ Leads(38, "]", 51)
  BY Productions DEF Leads, Enters, Has, Awaited
<1>10. RowOK(32, row0)
  BY <1>1, RowReduce, TokenSets
<1>11. RowOK(33, row1)
  BY <1>2, RowShift, RowMerge, TokenSets
<1>12. RowOK(34, row2)
  BY <1>2, RowShift, TokenSets
<1>13. RowOK(35, row3)
  BY <1>2, RowShift, TokenSets
<1>14. RowOK(36, row4)
  BY <1>1, RowReduce, TokenSets
<1>15. RowOK(37, row5)
  BY <1>1, RowReduce, TokenSets
<1>16. RowOK(38, row6)
  BY <1>2, RowShift, RowMerge, TokenSets
<1>17. RowOK(39, row7)
  BY <1>1, RowReduce, TokenSets
<1>3. Actions32 = On(32, row0) ++ On(33, row1) ++ On(34, row2) ++ On(35, row3) ++ On(36, row4) ++ On(37,
          row5) ++ On(38, row6) ++ On(39, row7)
  BY DEF Actions32
<1> HIDE DEF row0, row1, row2, row3, row4, row5, row6, row7
<1>4. TabOK(Actions32)
  BY <1>3, <1>10, <1>11, <1>12, <1>13, <1>14, <1>15, <1>16, <1>17, TabOne, TabMerge
<1>5. /\ 32 \in DOMAIN Actions32 /\ 33 \in DOMAIN Actions32 /\ 34 \in DOMAIN Actions32
      /\ 35 \in DOMAIN Actions32 /\ 36 \in DOMAIN Actions32 /\ 37 \in DOMAIN Actions32
      /\ 38 \in DOMAIN Actions32 /\ 39 \in DOMAIN Actions32
  BY <1>3, HasOne, HasMerge
<1>6. \A s \in 32..39 : s \in DOMAIN Actions32
  BY <1>5
<1> QED  BY <1>4, <1>6

LEMMA Actions40OK == TabOK(Actions40) /\ 40..47 \subseteq DOMAIN Actions40
<1> DEFINE row0 == Reduce(26, NodeVals)
           row1 == Reduce(23, InNode) ++ Shift(",", 53)
           row2 == Reduce(27, NodeVals)
           row3 == Reduce(28, NodeVals)
           row4 == Shift("id", 34) ++ Shift("edge_attr_close", 54)
           row5 == Shift("id", 55)
           row6 == Reduce(26, EdgeVals)
           row7 == Reduce(23, InEdge) ++ Shift(",", 57)
<1>1. /\ CanReduce(40, 26) /\ CanReduce(41, 23) /\ CanReduce(42, 27) /\ CanReduce(43, 28)
      /\ CanReduce(46, 26) /\ CanReduce(47, 23)
  BY Productions DEF CanReduce, Has, Awaited
<1>2. /\ Leads(41, ",", 53) /\ Leads(44, "id", 34) /\ Leads(44, "edge_attr_close", 54)
      /\ Leads(45, "id", 55) /\ Leads(47, ",", 57)
  BY Productions DEF Leads, Enters, Has, Awaited
<1>10. RowOK(40, row0)
  BY <1>1, RowReduce, TokenSets
<1>11. RowOK(41, row1)
  BY <1>1, RowReduce, <1>2, RowShift, RowMerge, TokenSets
<1>12. RowOK(42, row2)
  BY <1>1, RowReduce, TokenSets
<1>13. RowOK(43, row3)
  BY <1>1, RowReduce, TokenSets
<1>14. RowOK(44, row4)
  BY <1>2, RowShift, RowMerge, TokenSets
<1>15. RowOK(45, row5)
  BY <1>2, RowShift, TokenSets
<1>16. RowOK(46, row6)
  BY <1>1, RowReduce, TokenSets
<1>17. RowOK(47, row7)
  <2>1. RowOK(47, Reduce(23, InEdge))
    BY <1>1, RowReduce, TokenSets
  <2>2. RowOK(47, Shift(",", 57))
    BY <1>2, RowShift, TokenSets
  <2> QED  BY <2>1, <2>2, RowMerge
<1>3. Actions40 = On(40, row0) ++ On(41, row1) ++ On(42, row2) ++ On(43, row3) ++ On(44, row4) ++ On(45,
          row5) ++ On(46, row6) ++ On(47, row7)
  BY DEF Actions40
<1> HIDE DEF row0, row1, row2, row3, row4, row5, row6, row7
<1>4. TabOK(Actions40)
  BY <1>3, <1>10, <1>11, <1>12, <1>13, <1>14, <1>15, <1>16, <1>17, TabOne, TabMerge
<1>5. /\ 40 \in DOMAIN Actions40 /\ 41 \in DOMAIN Actions40 /\ 42 \in DOMAIN Actions40
      /\ 43 \in DOMAIN Actions40 /\ 44 \in DOMAIN Actions40 /\ 45 \in DOMAIN Actions40
      /\ 46 \in DOMAIN Actions40 /\ 47 \in DOMAIN Actions40
  BY <1>3, HasOne, HasMerge
<1>6. \A s \in 40..47 : s \in DOMAIN Actions40
  BY <1>5
<1> QED  BY <1>4, <1>6

LEMMA Actions48OK == TabOK(Actions48) /\ 48..53 \subseteq DOMAIN Actions48
<1> DEFINE row0 == Reduce(27, EdgeVals)
           row1 == Reduce(28, EdgeVals)
           row2 == Reduce(14, EdgeEnds)
           row3 == Reduce(8, NodeEnds)
           row4 == Reduce(25, InNode)
           row5 == Reduce(24, InNode)
<1>1. /\ CanReduce(48, 27) /\ CanReduce(49, 28) /\ CanReduce(50, 14) /\ CanReduce(51, 8)
      /\ CanReduce(52, 25) /\ CanReduce(53, 24)
  BY Productions DEF CanReduce, Has, Awaited
<1>10. RowOK(48, row0)
  BY <1>1, RowReduce, TokenSets
<1>11. RowOK(49, row1)
  BY <1>1, RowReduce, TokenSets
<1>12. RowOK(50, row2)
  BY <1>1, RowReduce, TokenSets
<1>13. RowOK(51, row3)
  BY <1>1, RowReduce, TokenSets
<1>14. RowOK(52, row4)
  BY <1>1, RowReduce, TokenSets
<1>15. RowOK(53, row5)
  BY <1>1, RowReduce, TokenSets
<1>3. Actions48 = On(48, row0) ++ On(49, row1) ++ On(50, row2) ++ On(51, row3) ++ On(52, row4) ++ On(53,
          row5)
  BY DEF Actions48
<1> HIDE DEF row0, row1, row2, row3, row4, row5
<1>4. TabOK(Actions48)
  BY <1>3, <1>10, <1>11, <1>12, <1>13, <1>14, <1>15, TabOne, TabMerge
<1>5. /\ 48 \in DOMAIN Actions48 /\ 49 \in DOMAIN Actions48 /\ 50 \in DOMAIN Actions48
      /\ 51 \in DOMAIN Actions48 /\ 52 \in DOMAIN Actions48 /\ 53 \in DOMAIN Actions48
  BY <1>3, HasOne, HasMerge
<1>6. \A s \in 48..53 : s \in DOMAIN Actions48
  BY <1>5
<1> QED  BY <1>4, <1>6

LEMMA Actions54OK == TabOK(Actions54) /\ 54..58 \subseteq DOMAIN Actions54
<1> DEFINE row0 == Shift("id", 58)
           row1 == Reduce(15, EdgeEnds)
           row2 == Reduce(25, InEdge)
           row3 == Reduce(24, InEdge)
           row4 == Reduce(16, EdgeEnds)
<1>1. /\ CanReduce(55, 15) /\ CanReduce(56, 25) /\ CanReduce(57, 24) /\ CanReduce(58, 16)
  BY Productions DEF CanReduce, Has, Awaited
<1>2. /\ Leads(54, "id", 58)
  BY Productions DEF Leads, Enters, Has, Awaited
<1>10. RowOK(54, row0)
  BY <1>2, RowShift, TokenSets
<1>11. RowOK(55, row1)
  BY <1>1, RowReduce, TokenSets
<1>12. RowOK(56, row2)
  BY <1>1, RowReduce, TokenSets
<1>13. RowOK(57, row3)
  BY <1>1, RowReduce, TokenSets
<1>14. RowOK(58, row4)
  BY <1>1, RowReduce, TokenSets
<1>3. Actions54 = On(54, row0) ++ On(55, row1) ++ On(56, row2) ++ On(57, row3) ++ On(58, row4)
  BY DEF Actions54
<1> HIDE DEF row0, row1, row2, row3, row4
<1>4. TabOK(Actions54)
  BY <1>3, <1>10, <1>11, <1>12, <1>13, <1>14, TabOne, TabMerge
<1>5. /\ 54 \in DOMAIN Actions54 /\ 55 \in DOMAIN Actions54 /\ 56 \in DOMAIN Actions54
      /\ 57 \in DOMAIN Actions54 /\ 58 \in DOMAIN Actions54
  BY <1>3, HasOne, HasMerge
<1>6. \A s \in 54..58 : s \in DOMAIN Actions54
  BY <1>5
<1> QED  BY <1>4, <1>6

LEMMA ActionFacts ==
    ASSUME NEW s \in 0..58
    PROVE  s \in DOMAIN ActionTab /\ RowOK(s, ActionTab[s])
<1>1. TabOK(ActionTab)
  BY Actions0OK, Actions8OK, Actions16OK, Actions24OK, Actions32OK, Actions40OK, Actions48OK,
     Actions54OK, TabMerge DEF ActionTab
<1>2. \/ s \in 0..7 \/ s \in 8..15 \/ s \in 16..23 \/ s \in 24..31
      \/ s \in 32..39 \/ s \in 40..47 \/ s \in 48..53 \/ s \in 54..58
  OBVIOUS
<1>3. \/ s \in DOMAIN Actions0 \/ s \in DOMAIN Actions8 \/ s \in DOMAIN Actions16
      \/ s \in DOMAIN Actions24 \/ s \in DOMAIN Actions32 \/ s \in DOMAIN Actions40
      \/ s \in DOMAIN Actions48 \/ s \in DOMAIN Actions54
  BY <1>2, Actions0OK, Actions8OK, Actions16OK, Actions24OK, Actions32OK, Actions40OK,
     Actions48OK, Actions54OK
<1>4. s \in DOMAIN ActionTab
  BY <1>3, HasMerge DEF ActionTab
<1> QED  BY <1>1, <1>4 DEF TabOK

(* The same for the table of the gotos.                                      *)
RowLeads(s, row)  == \A A \in DOMAIN row : Leads(s, A, row[A])
GotosOK(s, row)   == RowLeads(s, row) /\ \A A : Awaited(s, A) => A \in DOMAIN row
GotoTabOK(tab)    == \A s \in DOMAIN tab : GotosOK(s, tab[s])

LEMMA RowLeadsMerge ==
    ASSUME NEW s, NEW f, NEW g, RowLeads(s, f), RowLeads(s, g)
    PROVE  RowLeads(s, f ++ g)
<1> SUFFICES ASSUME NEW A \in DOMAIN (f ++ g)
             PROVE  Leads(s, A, (f ++ g)[A])
  BY DEF RowLeads
<1>1. CASE A \in DOMAIN f
  BY <1>1, MergeFacts DEF RowLeads
<1>2. CASE A \notin DOMAIN f
  <2>1. A \in DOMAIN g /\ (f ++ g)[A] = g[A]
    BY <1>2 DEF ++
  <2> QED  BY <2>1 DEF RowLeads
<1> QED  BY <1>1, <1>2

LEMMA RowLeadsOne ==
    ASSUME NEW s, NEW A, NEW s2, Leads(s, A, s2)
    PROVE  RowLeads(s, On(A, s2))
BY DEF RowLeads, On

LEMMA GotoTabMerge ==
    ASSUME NEW f, NEW g, GotoTabOK(f), GotoTabOK(g)
    PROVE  GotoTabOK(f ++ g)
<1> SUFFICES ASSUME NEW s \in DOMAIN (f ++ g)
             PROVE  GotosOK(s, (f ++ g)[s])
  BY DEF GotoTabOK
<1>1. CASE s \in DOMAIN f
  BY <1>1, MergeFacts DEF GotoTabOK
<1>2. CASE s \notin DOMAIN f
  <2>1. s \in DOMAIN g /\ (f ++ g)[s] = g[s]
    BY <1>2 DEF ++
  <2> QED  BY <2>1 DEF GotoTabOK
<1> QED  BY <1>1, <1>2

LEMMA GotoTabOne ==
    ASSUME NEW s, NEW row, GotosOK(s, row)
    PROVE  GotoTabOK(On(s, row))
BY DEF GotoTabOK, On

LEMMA Goto0OK == GotoTabOK(Goto0) /\ {0, 2, 4, 5, 6} \subseteq DOMAIN Goto0
<1> DEFINE row0 == On("WholeDoc", 1) ++ On("TopLevelDeclList", 2) ++ On("NodeDecl", 4) ++
                   On("EdgeDecl", 6) ++ On("TopLevelStmt", 3)
           row1 == On("NodeDecl", 4) ++ On("EdgeDecl", 6) ++ On("TopLevelStmt", 7)
           row2 == On("OptSep", 8)
           row3 == On("EdgeRHS", 11)
           row4 == On("OptSep", 14) ++ On("EdgeRHS", 15)
<1>1. /\ Leads(0, "WholeDoc", 1) /\ Leads(0, "TopLevelDeclList", 2) /\ Leads(0, "NodeDecl", 4)
      /\ Leads(0, "EdgeDecl", 6) /\ Leads(0, "TopLevelStmt", 3) /\ Leads(2, "NodeDecl", 4)
      /\ Leads(2, "EdgeDecl", 6) /\ Leads(2, "TopLevelStmt", 7) /\ Leads(4, "OptSep", 8)
      /\ Leads(5, "EdgeRHS", 11) /\ Leads(6, "OptSep", 14) /\ Leads(6, "EdgeRHS", 15)
  BY Productions DEF Leads, Enters, Has, Awaited
<1>10. RowLeads(0, row0)
  BY <1>1, RowLeadsOne, RowLeadsMerge
<1>11. RowLeads(2, row1)
  BY <1>1, RowLeadsOne, RowLeadsMerge
<1>12. RowLeads(4, row2)
  BY <1>1, RowLeadsOne, RowLeadsMerge
<1>13. RowLeads(5, row3)
  BY <1>1, RowLeadsOne, RowLeadsMerge
<1>14. RowLeads(6, row4)
  BY <1>1, RowLeadsOne, RowLeadsMerge
<1>20. /\ "WholeDoc" \in DOMAIN row0 /\ "TopLevelDeclList" \in DOMAIN row0 /\ "NodeDecl" \in DOMAIN row0
      /\ "EdgeDecl" \in DOMAIN row0 /\ "TopLevelStmt" \in DOMAIN row0
  BY HasOne, HasMerge
<1>21. /\ "NodeDecl" \in DOMAIN row1 /\ "EdgeDecl" \in DOMAIN row1 /\ "TopLevelStmt" \in DOMAIN row1
  BY HasOne, HasMerge
<1>22. /\ "OptSep" \in DOMAIN row2
  BY HasOne, HasMerge
<1>23. /\ "EdgeRHS" \in DOMAIN row3
  BY HasOne, HasMerge
<1>24. /\ "OptSep" \in DOMAIN row4 /\ "EdgeRHS" \in DOMAIN row4
  BY HasOne, HasMerge
<1>3. Goto0 = On(0, row0) ++ On(2, row1) ++ On(4, row2) ++ On(5, row3) ++ On(6, row4)
  BY DEF Goto0
<1> HIDE DEF row0, row1, row2, row3, row4
<1>4. /\ GotosOK(0, row0) /\ GotosOK(2, row1) /\ GotosOK(4, row2)
      /\ GotosOK(5, row3) /\ GotosOK(6, row4)
  BY <1>10, <1>11, <1>12, <1>13, <1>14, <1>20, <1>21, <1>22, <1>23, <1>24 DEF GotosOK, Awaited
<1>5. GotoTabOK(Goto0)
  BY <1>3, <1>4, GotoTabOne, GotoTabMerge
<1>6. /\ 0 \in DOMAIN Goto0 /\ 2 \in DOMAIN Goto0 /\ 4 \in DOMAIN Goto0
      /\ 5 \in DOMAIN Goto0 /\ 6 \in DOMAIN Goto0
  BY <1>3, HasOne, HasMerge
<1> QED  BY <1>5, <1>6

LEMMA Goto10OK == GotoTabOK(Goto10) /\ {10, 13, 16, 17} \subseteq DOMAIN Goto10
<1> DEFINE row0 == On("AttrItems", 17) ++ On("Attr", 19)
           row1 == On("AttrItems", 22) ++ On("Attr", 24)
           row2 == On("OptSep", 25)
           row3 == On("Attr", 30)
<1>1. /\ Leads(10, "AttrItems", 17) /\ Leads(10, "Attr", 19) /\ Leads(13, "AttrItems", 22)
      /\ Leads(13, "Attr", 24) /\ Leads(16, "OptSep", 25) /\ Leads(17, "Attr", 30)
  BY Productions DEF Leads, Enters, Has, Awaited
<1>10. RowLeads(10, row0)
  BY <1>1, RowLeadsOne, RowLeadsMerge
<1>11. RowLeads(13, row1)
  BY <1>1, RowLeadsOne, RowLeadsMerge
<1>12. RowLeads(16, row2)
  BY <1>1, RowLeadsOne, RowLeadsMerge
<1>13. RowLeads(17, row3)
  BY <1>1, RowLeadsOne, RowLeadsMerge
<1>20. /\ "AttrItems" \in DOMAIN row0 /\ "Attr" \in DOMAIN row0
  BY HasOne, HasMerge
<1>21. /\ "AttrItems" \in DOMAIN row1 /\ "Attr" \in DOMAIN row1
  BY HasOne, HasMerge
<1>22. /\ "OptSep" \in DOMAIN row2
  BY HasOne, HasMerge
<1>23. /\ "Attr" \in DOMAIN row3
  BY HasOne, HasMerge
<1>3. Goto10 = On(10, row0) ++ On(13, row1) ++ On(16, row2) ++ On(17, row3)
  BY DEF Goto10
<1> HIDE DEF row0, row1, row2, row3
<1>4. /\ GotosOK(10, row0) /\ GotosOK(13, row1) /\ GotosOK(16, row2)
      /\ GotosOK(17, row3)
  BY <1>10, <1>11, <1>12, <1>13, <1>20, <1>21, <1>22, <1>23 DEF GotosOK, Awaited
<1>5. GotoTabOK(Goto10)
  BY <1>3, <1>4, GotoTabOne, GotoTabMerge
<1>6. /\ 10 \in DOMAIN Goto10 /\ 13 \in DOMAIN Goto10 /\ 16 \in DOMAIN Goto10
      /\ 17 \in DOMAIN Goto10
  BY <1>3, HasOne, HasMerge
<1> QED  BY <1>5, <1>6

LEMMA Goto20OK == GotoTabOK(Goto20) /\ {21, 22, 25, 27} \subseteq DOMAIN Goto20
<1> DEFINE row0 == On("OptSep", 31)
           row1 == On("Attr", 36)
           row2 == On("AttrItems", 38) ++ On("Attr", 19)
           row3 == On("AttrVal", 41)
<1>1. /\ Leads(21, "OptSep", 31) /\ Leads(22, "Attr", 36) /\ Leads(25, "AttrItems", 38)
      /\ Leads(25, "Attr", 19) /\ Leads(27, "AttrVal", 41)
  BY Productions DEF Leads, Enters, Has, Awaited
<1>10. RowLeads(21, row0)
  BY <1>1, RowLeadsOne, RowLeadsMerge
<1>11. RowLeads(22, row1)
  BY <1>1, RowLeadsOne, RowLeadsMerge
<1>12. RowLeads(25, row2)
  BY <1>1, RowLeadsOne, RowLeadsMerge
<1>13. RowLeads(27, row3)
  BY <1>1, RowLeadsOne, RowLeadsMerge
<1>20. /\ "OptSep" \in DOMAIN row0
  BY HasOne, HasMerge
<1>21. /\ "Attr" \in DOMAIN row1
  BY HasOne, HasMerge
<1>22. /\ "AttrItems" \in DOMAIN row2 /\ "Attr" \in DOMAIN row2
  BY HasOne, HasMerge
<1>23. /\ "AttrVal" \in DOMAIN row3
  BY HasOne, HasMerge
<1>3. Goto20 = On(21, row0) ++ On(22, row1) ++ On(25, row2) ++ On(27, row3)
  BY DEF Goto20
<1> HIDE DEF row0, row1, row2, row3
<1>4. /\ GotosOK(21, row0) /\ GotosOK(22, row1) /\ GotosOK(25, row2)
      /\ GotosOK(27, row3)
  BY <1>10, <1>11, <1>12, <1>13, <1>20, <1>21, <1>22, <1>23 DEF GotosOK, Awaited
<1>5. GotoTabOK(Goto20)
  BY <1>3, <1>4, GotoTabOne, GotoTabMerge
<1>6. /\ 21 \in DOMAIN Goto20 /\ 22 \in DOMAIN Goto20 /\ 25 \in DOMAIN Goto20
      /\ 27 \in DOMAIN Goto20
  BY <1>3, HasOne, HasMerge
<1> QED  BY <1>5, <1>6

LEMMA Goto30OK == GotoTabOK(Goto30) /\ {31, 33, 38} \subseteq DOMAIN Goto30
<1> DEFINE row0 == On("AttrItems", 44) ++ On("Attr", 24)
           row1 == On("AttrVal", 47)
           row2 == On("Attr", 30)
<1>1. /\ Leads(31, "AttrItems", 44) /\ Leads(31, "Attr", 24) /\ Leads(33, "AttrVal", 47)
      /\ Leads(38, "Attr", 30)
  BY Productions DEF Leads, Enters, Has, Awaited
<1>10. RowLeads(31, row0)
  BY <1>1, RowLeadsOne, RowLeadsMerge
<1>11. RowLeads(33, row1)
  BY <1>1, RowLeadsOne, RowLeadsMerge
<1>12. RowLeads(38, row2)
  BY <1>1, RowLeadsOne, RowLeadsMerge
<1>20. /\ "AttrItems" \in DOMAIN row0 /\ "Attr" \in DOMAIN row0
  BY HasOne, HasMerge
<1>21. /\ "AttrVal" \in DOMAIN row1
  BY HasOne, HasMerge
<1>22. /\ "Attr" \in DOMAIN row2
  BY HasOne, HasMerge
<1>3. Goto30 = On(31, row0) ++ On(33, row1) ++ On(38, row2)
  BY DEF Goto30
<1> HIDE DEF row0, row1, row2
<1>4. /\ GotosOK(31, row0) /\ GotosOK(33, row1) /\ GotosOK(38, row2)
  BY <1>10, <1>11, <1>12, <1>20, <1>21, <1>22 DEF GotosOK, Awaited
<1>5. GotoTabOK(Goto30)
  BY <1>3, <1>4, GotoTabOne, GotoTabMerge
<1>6. /\ 31 \in DOMAIN Goto30 /\ 33 \in DOMAIN Goto30 /\ 38 \in DOMAIN Goto30
  BY <1>3, HasOne, HasMerge
<1> QED  BY <1>5, <1>6

LEMMA Goto40OK == GotoTabOK(Goto40) /\ {41, 44, 47} \subseteq DOMAIN Goto40
<1> DEFINE row0 == On("OptAttrSep", 52)
           row1 == On("Attr", 36)
           row2 == On("OptAttrSep", 56)
<1>1. /\ Leads(41, "OptAttrSep", 52) /\ Leads(44, "Attr", 36) /\ Leads(47, "OptAttrSep", 56)
  BY Productions DEF Leads, Enters, Has, Awaited
<1>10. RowLeads(41, row0)
  BY <1>1, RowLeadsOne, RowLeadsMerge
<1>11. RowLeads(44, row1)
  BY <1>1, RowLeadsOne, RowLeadsMerge
<1>12. RowLeads(47, row2)
  BY <1>1, RowLeadsOne, RowLeadsMerge
<1>20. /\ "OptAttrSep" \in DOMAIN row0
  BY HasOne, HasMerge
<1>21. /\ "Attr" \in DOMAIN row1
  BY HasOne, HasMerge
<1>22. /\ "OptAttrSep" \in DOMAIN row2
  BY HasOne, HasMerge
<1>3. Goto40 = On(41, row0) ++ On(44, row1) ++ On(47, row2)
  BY DEF Goto40
<1> HIDE DEF row0, row1, row2
<1>4. /\ GotosOK(41, row0) /\ GotosOK(44, row1) /\ GotosOK(47, row2)
  BY <1>10, <1>11, <1>12, <1>20, <1>21, <1>22 DEF GotosOK, Awaited
<1>5. GotoTabOK(Goto40)
  BY <1>3, <1>4, GotoTabOne, GotoTabMerge
<1>6. /\ 41 \in DOMAIN Goto40 /\ 44 \in DOMAIN Goto40 /\ 47 \in DOMAIN Goto40
  BY <1>3, HasOne, HasMerge
<1> QED  BY <1>5, <1>6

LEMMA GotoFacts ==
    ASSUME NEW s, NEW A, Awaited(s, A)
    PROVE  s \in DOMAIN GotoTab /\ A \in DOMAIN GotoTab[s] /\ Leads(s, A, GotoTab[s][A])
<1>1. GotoTabOK(GotoTab)
  BY Goto0OK, Goto10OK, Goto20OK, Goto30OK, Goto40OK, GotoTabMerge DEF GotoTab
<1>2. \/ s \in {0, 2, 4, 5, 6} \/ s \in {10, 13, 16, 17} \/ s \in {21, 22, 25, 27}
      \/ s \in {31, 33, 38} \/ s \in {41, 44, 47}
  BY DEF Awaited
<1>3. \/ s \in DOMAIN Goto0 \/ s \in DOMAIN Goto10 \/ s \in DOMAIN Goto20
      \/ s \in DOMAIN Goto30 \/ s \in DOMAIN Goto40
  BY <1>2, Goto0OK, Goto10OK, Goto20OK, Goto30OK, Goto40OK
<1>4. s \in DOMAIN GotoTab
  BY <1>3, HasMerge DEF GotoTab
<1>5. GotosOK(s, GotoTab[s])
  BY <1>1, <1>4 DEF GotoTabOK
<1> QED  BY <1>4, <1>5 DEF GotosOK, RowLeads

-----------------------------------------------------------------------------
(* The AST constructors.                                                     *)

LEMMA KindFacts ==
    /\ Kind("WholeDoc") = GraphP /\ Kind("TopLevelDeclList") = GraphP
    /\ Kind("TopLevelStmt") = NodeP \cup ChainP
    /\ Kind("NodeDecl") = NodeP /\ Kind("EdgeDecl") = ChainP /\ Kind("EdgeRHS") = StepP
    /\ Kind("OptSep") = {Nil} \cup TokenP /\ Kind("OptAttrSep") = {Nil} \cup TokenP
    /\ Kind("AttrItems") = AttrsP /\ Kind("Attr") = AttrP
    /\ Kind("AttrVal") = TokenP \cup StrP
    /\ \A t \in Terminal : Kind(t) = TokenP
<1>1. \A t \in Terminal : t \notin {"WholeDoc", "TopLevelDeclList", "TopLevelStmt", "NodeDecl",
        "EdgeDecl", "EdgeRHS", "OptSep", "OptAttrSep", "AttrItems", "Attr", "AttrVal"}
  BY DEF Terminal
<1>2. \A t \in Terminal : Kind(t) = TokenP
  BY <1>1 DEF Kind
<1>3. /\ Kind("WholeDoc") = GraphP /\ Kind("TopLevelDeclList") = GraphP
      /\ Kind("TopLevelStmt") = NodeP \cup ChainP
      /\ Kind("NodeDecl") = NodeP /\ Kind("EdgeDecl") = ChainP /\ Kind("EdgeRHS") = StepP
  BY DEF Kind
<1>4. /\ Kind("OptSep") = {Nil} \cup TokenP /\ Kind("OptAttrSep") = {Nil} \cup TokenP
      /\ Kind("AttrItems") = AttrsP /\ Kind("Attr") = AttrP
      /\ Kind("AttrVal") = TokenP \cup StrP
  BY DEF Kind
<1> QED  BY <1>2, <1>3, <1>4

(* The symbols in the places of the productions that the constructors use.    *)
LEMMA Symbols ==
    ASSUME NEW s
    PROVE  /\ (Has(s, 2, 1) => Enters(s) = "TopLevelDeclList")
           /\ (Has(s, 3, 1) => Enters(s) = "TopLevelStmt")
           /\ (Has(s, 4, 1) => Enters(s) = "TopLevelDeclList")
           /\ (Has(s, 4, 2) => Enters(s) = "TopLevelStmt")
           /\ (Has(s, 6, 1) => Enters(s) \in Terminal)
           /\ (Has(s, 7, 1) => Enters(s) = "id")
           /\ (Has(s, 7, 3) => Enters(s) = "AttrItems")
           /\ (Has(s, 8, 1) => Enters(s) = "id")
           /\ (Has(s, 8, 3) => Enters(s) = "id")
           /\ (Has(s, 8, 5) => Enters(s) = "AttrItems")
           /\ (Has(s, 9, 1) => Enters(s) = "id")
           /\ (Has(s, 9, 3) => Enters(s) = "id")
           /\ (Has(s, 10, 1) => Enters(s) = "id")
           /\ (Has(s, 11, 1) => Enters(s) = "id")
           /\ (Has(s, 12, 1) => Enters(s) = "edgearrow")
           /\ (Has(s, 12, 2) => Enters(s) = "id")
           /\ (Has(s, 13, 1) => Enters(s) = "edge_attr_open")
           /\ (Has(s, 13, 3) => Enters(s) = "id")
           /\ (Has(s, 14, 1) => Enters(s) = "edge_attr_open")
           /\ (Has(s, 14, 2) => Enters(s) = "AttrItems")
           /\ (Has(s, 14, 4) => Enters(s) = "id")
           /\ (Has(s, 15, 1) => Enters(s) = "edge_attr_open")
           /\ (Has(s, 15, 2) => Enters(s) = "id")
           /\ (Has(s, 15, 5) => Enters(s) = "id")
           /\ (Has(s, 16, 1) => Enters(s) = "edge_attr_open")
           /\ (Has(s, 16, 2) => Enters(s) = "id")
           /\ (Has(s, 16, 4) => Enters(s) = "AttrItems")
           /\ (Has(s, 16, 6) => Enters(s) = "id")
           /\ (Has(s, 17, 1) => Enters(s) = "id")
           /\ (Has(s, 17, 2) => Enters(s) = "EdgeRHS")
           /\ (Has(s, 18, 1) => Enters(s) = "EdgeDecl")
           /\ (Has(s, 18, 2) => Enters(s) = "EdgeRHS")
           /\ (Has(s, 19, 1) => Enters(s) = "EdgeDecl")
           /\ (Has(s, 20, 1) => Enters(s) = "NodeDecl")
           /\ (Has(s, 21, 1) => Enters(s) = "Attr")
           /\ (Has(s, 22, 1) => Enters(s) = "AttrItems")
           /\ (Has(s, 22, 2) => Enters(s) = "Attr")
           /\ (Has(s, 24, 1) => Enters(s) \in Terminal)
           /\ (Has(s, 25, 1) => Enters(s) = "id")
           /\ (Has(s, 25, 3) => Enters(s) = "AttrVal")
           /\ (Has(s, 26, 1) => Enters(s) = "id")
           /\ (Has(s, 27, 1) => Enters(s) = "numeric_literal")
           /\ (Has(s, 28, 1) => Enters(s) = "quoted_string")
<1>1. /\ (Has(s, 2, 1) => s = 2)
      /\ (Has(s, 3, 1) => s = 3)
      /\ (Has(s, 4, 1) => s = 2)
      /\ (Has(s, 4, 2) => s = 7)
      /\ (Has(s, 6, 1) => s \in {9, 26, 32})
      /\ (Has(s, 7, 1) => s = 5)
      /\ (Has(s, 7, 3) => s = 17)
      /\ (Has(s, 8, 1) => s = 5)
  BY DEF Has
<1>2. /\ (Has(s, 8, 3) => s = 16)
      /\ (Has(s, 8, 5) => s = 38)
      /\ (Has(s, 9, 1) => s = 5)
      /\ (Has(s, 9, 3) => s = 16)
      /\ (Has(s, 10, 1) => s = 5)
      /\ (Has(s, 11, 1) => s = 5)
      /\ (Has(s, 12, 1) => s = 12)
      /\ (Has(s, 12, 2) => s = 20)
  BY DEF Has
<1>3. /\ (Has(s, 13, 1) => s = 13)
      /\ (Has(s, 13, 3) => s = 37)
      /\ (Has(s, 14, 1) => s = 13)
      /\ (Has(s, 14, 2) => s = 22)
      /\ (Has(s, 14, 4) => s = 50)
      /\ (Has(s, 15, 1) => s = 13)
      /\ (Has(s, 15, 2) => s = 21)
      /\ (Has(s, 15, 5) => s = 55)
  BY DEF Has
<1>4. /\ (Has(s, 16, 1) => s = 13)
      /\ (Has(s, 16, 2) => s = 21)
      /\ (Has(s, 16, 4) => s = 44)
      /\ (Has(s, 16, 6) => s = 58)
      /\ (Has(s, 17, 1) => s = 5)
      /\ (Has(s, 17, 2) => s = 11)
      /\ (Has(s, 18, 1) => s = 6)
      /\ (Has(s, 18, 2) => s = 15)
  BY DEF Has
<1>5. /\ (Has(s, 19, 1) => s = 6)
      /\ (Has(s, 20, 1) => s = 4)
      /\ (Has(s, 21, 1) => s \in {19, 24})
      /\ (Has(s, 22, 1) => s \in {17, 22, 38, 44})
      /\ (Has(s, 22, 2) => s \in {30, 36})
      /\ (Has(s, 24, 1) => s \in {53, 57})
      /\ (Has(s, 25, 1) => s \in {16, 21, 28, 34})
      /\ (Has(s, 25, 3) => s \in {41, 47})
  BY DEF Has
<1>6. /\ (Has(s, 26, 1) => s \in {40, 46})
      /\ (Has(s, 27, 1) => s \in {42, 48})
      /\ (Has(s, 28, 1) => s \in {43, 49})
  BY DEF Has
<1>7. s = 2 => Enters(s) = "TopLevelDeclList"
  BY DEF Enters
<1>8. s \in {3, 7} => Enters(s) = "TopLevelStmt"
  BY DEF Enters
<1>9. s = 4 => Enters(s) = "NodeDecl"
  BY DEF Enters
<1>10. s \in {5, 16, 20, 21, 28, 34, 37, 40, 46, 50, 55, 58} => Enters(s) = "id"
  BY DEF Enters
<1>11. s = 6 => Enters(s) = "EdgeDecl"
  BY DEF Enters
<1>12. s \in {9, 26, 32} => Enters(s) \in Terminal
  <2>1. Enters(9) = ";" /\ Enters(26) = ";" /\ Enters(32) = ";"
    BY DEF Enters
  <2> QED  BY <2>1, TokenSets
<1>13. s \in {11, 15} => Enters(s) = "EdgeRHS"
  BY DEF Enters
<1>14. s = 12 => Enters(s) = "edgearrow"
  BY DEF Enters
<1>15. s = 13 => Enters(s) = "edge_attr_open"
  BY DEF Enters
<1>16. s \in {17, 22, 38, 44} => Enters(s) = "AttrItems"
  BY DEF Enters
<1>17. s \in {19, 24, 30, 36} => Enters(s) = "Attr"
  BY DEF Enters
<1>18. s \in {41, 47} => Enters(s) = "AttrVal"
  BY DEF Enters
<1>19. s \in {42, 48} => Enters(s) = "numeric_literal"
  BY DEF Enters
<1>20. s \in {43, 49} => Enters(s) = "quoted_string"
  BY DEF Enters
<1>21. s \in {53, 57} => Enters(s) \in Terminal
  <2>1. Enters(53) = "," /\ Enters(57) = ","
    BY DEF Enters
  <2> QED  BY <2>1, TokenSets
<1> QED  BY <1>1, <1>2, <1>3, <1>4, <1>5, <1>6, <1>7, <1>8, <1>9, <1>10, <1>11, <1>12, <1>13, <1>14,
            <1>15, <1>16, <1>17, <1>18, <1>19, <1>20, <1>21

LEMMA NilFacts == /\ Nil \notin TokenP /\ Nil.tag = "nil"
                  /\ \A x \in AttrsP : x # Nil /\ x.tag = "Attrs" /\ x.list \in Seq(AttrP)
                  /\ \A x \in NodeP : x # Nil /\ x.tag = "Node"
                  /\ \A x \in ChainP : x # Nil /\ x.tag = "EdgeChain"
BY DEF Nil, TokenP, AttrsP, NodeP, ChainP

LEMMA NewNodeKind ==
    ASSUME NEW id \in TokenP, NEW ty \in TokenP \cup StrP, NEW attrs \in {Nil} \cup AttrsP
    PROVE  NewNode(id, ty, attrs) \in NodeP
<1>1. AttrsOf(attrs) \in Seq(AttrP) /\ IsAttrs(attrs)
  BY NilFacts DEF AttrsOf, IsAttrs
<1>2. IsTok(id) /\ IsStr(ty) /\ id.n \in Nat /\ ty.n \in Nat
  BY DEF IsTok, IsStr, TokenP, StrP
<1> QED  BY <1>1, <1>2 DEF NewNode, NodeP

LEMMA NewEdgeStepKind ==
    ASSUME NEW arrow \in TokenP, NEW to \in TokenP, NEW ty \in TokenP \cup StrP,
           NEW attrs \in {Nil} \cup AttrsP
    PROVE  NewEdgeStep(arrow, to, ty, attrs) \in StepP
<1>1. AttrsOf(attrs) \in Seq(AttrP) /\ IsAttrs(attrs)
  BY NilFacts DEF AttrsOf, IsAttrs
<1>2. /\ IsTok(arrow) /\ IsTok(to) /\ IsStr(ty)
      /\ arrow.n \in Nat /\ to.n \in Nat /\ ty.n \in Nat
  BY DEF IsTok, IsStr, TokenP, StrP
<1> QED  BY <1>1, <1>2 DEF NewEdgeStep, StepP

LEMMA AttrKinds ==
    /\ \A k \in TokenP, v \in TokenP \cup StrP : NewAttr(k, v) \in AttrP
    /\ \A at \in AttrP : NewAttrs(at) \in AttrsP
    /\ \A as \in AttrsP, at \in AttrP : AddAttr(as, at) \in AttrsP
    /\ \A tok \in TokenP : Unquote(tok) \in StrP
<1>1. ASSUME NEW k \in TokenP, NEW v \in TokenP \cup StrP PROVE NewAttr(k, v) \in AttrP
  BY DEF NewAttr, IsTok, IsStr, TokenP, StrP, AttrP
<1>2. ASSUME NEW at \in AttrP PROVE NewAttrs(at) \in AttrsP
  <2>1. at.tag = "Attr" /\ <<at>> \in Seq(AttrP)
    BY DEF AttrP
  <2> QED  BY <2>1 DEF NewAttrs, AttrsP
<1>3. ASSUME NEW as \in AttrsP, NEW at \in AttrP PROVE AddAttr(as, at) \in AttrsP
  <2>1. as.tag = "Attrs" /\ at.tag = "Attr" /\ as.list \in Seq(AttrP)
    BY DEF AttrsP, AttrP
  <2>2. Append(as.list, at) \in Seq(AttrP)
    BY <2>1, AppendFacts
  <2> QED  BY <2>1, <2>2 DEF AddAttr, AttrsP
<1>4. ASSUME NEW tok \in TokenP PROVE Unquote(tok) \in StrP
  BY DEF Unquote, Str, IsTok, TokenP, StrP
<1> QED  BY <1>1, <1>2, <1>3, <1>4

LEMMA ChainKinds ==
    /\ \A from \in TokenP, st \in StepP : NewEdgeChain(from, st) \in ChainP
    /\ \A chain \in ChainP, st \in StepP : ExtendEdgeChain(chain, st) \in ChainP
<1>1. ASSUME NEW from \in TokenP, NEW st \in StepP PROVE NewEdgeChain(from, st) \in ChainP
  <2>1. st.tag = "EdgeStep" /\ <<st>> \in Seq(StepP)
    BY DEF StepP
  <2>2. IsTok(from) /\ from.n \in Nat
    BY DEF IsTok, TokenP
  <2> QED  BY <2>1, <2>2 DEF NewEdgeChain, ChainP
<1>2. ASSUME NEW chain \in ChainP, NEW st \in StepP PROVE ExtendEdgeChain(chain, st) \in ChainP
  <2>1. st.tag = "EdgeStep" /\ chain.tag = "EdgeChain" /\ chain.steps \in Seq(StepP)
    BY DEF StepP, ChainP
  <2>2. Append(chain.steps, st) \in Seq(StepP)
    BY <2>1
  <2> QED  BY <2>1, <2>2 DEF ExtendEdgeChain, ChainP
<1> QED  BY <1>1, <1>2

LEMMA GraphKinds ==
    /\ NewGraph(Nil) \in GraphP
    /\ \A it \in NodeP \cup ChainP : NewGraph(it) \in GraphP
    /\ \A g \in GraphP, it \in NodeP \cup ChainP : AppendGraphItem(g, it) \in GraphP
<1>1. NewGraph(Nil) \in GraphP
  BY DEF NewGraph, GraphP
<1>2. ASSUME NEW it \in NodeP \cup ChainP PROVE NewGraph(it) \in GraphP
  <2>1. it # Nil /\ it.tag \in {"Node", "EdgeChain"} /\ <<it>> \in Seq(NodeP \cup ChainP)
    BY NilFacts
  <2> QED  BY <2>1 DEF NewGraph, GraphP
<1>3. ASSUME NEW g \in GraphP, NEW it \in NodeP \cup ChainP PROVE AppendGraphItem(g, it) \in GraphP
  <2>1. it.tag \in {"Node", "EdgeChain"}
    BY NilFacts
  <2>2. g.tag = "Graph" /\ g.items \in Seq(NodeP \cup ChainP)
    BY DEF GraphP
  <2>3. Append(g.items, it) \in Seq(NodeP \cup ChainP)
    BY <2>2
  <2> QED  BY <2>1, <2>2, <2>3 DEF AppendGraphItem, GraphP
<1> QED  BY <1>1, <1>2, <1>3

(* Every production makes what its left side stands for.                      *)
LEMMA ReduceKinds ==
    ASSUME NEW p \in 1..28, NEW X, NEW st,
           \A j \in 1..Length(p) : Has(st[j], p, j) /\ X[j] \in Kind(Enters(st[j]))
    PROVE  ReduceFunc(p, X) \in Kind(Left(p))
<1>1. Str(0) \in StrP
  BY DEF Str, StrP
<1>2. CASE p = 1
  <2>3. ReduceFunc(p, X) = NewGraph(Nil) /\ Kind(Left(p)) = GraphP
    BY <1>2, Productions, KindFacts DEF ReduceFunc
  <2> QED  BY <2>3, GraphKinds
<1>3. CASE p = 2
  <2>1. /\ Has(st[1], 2, 1) /\ X[1] \in Kind(Enters(st[1]))
    BY <1>3, Productions
  <2>2. X[1] \in GraphP
    BY <2>1, Symbols, KindFacts, TokenSets
  <2>3. ReduceFunc(p, X) = X[1] /\ Kind(Left(p)) = GraphP
    BY <1>3, Productions, KindFacts DEF ReduceFunc
  <2> QED  BY <2>2, <2>3
<1>4. CASE p = 3
  <2>1. /\ Has(st[1], 3, 1) /\ X[1] \in Kind(Enters(st[1]))
    BY <1>4, Productions
  <2>2. X[1] \in NodeP \cup ChainP
    BY <2>1, Symbols, KindFacts, TokenSets
  <2>3. ReduceFunc(p, X) = NewGraph(X[1]) /\ Kind(Left(p)) = GraphP
    BY <1>4, Productions, KindFacts DEF ReduceFunc
  <2> QED  BY <2>2, <2>3, GraphKinds
<1>5. CASE p = 4
  <2>1. /\ Has(st[1], 4, 1) /\ X[1] \in Kind(Enters(st[1]))
        /\ Has(st[2], 4, 2) /\ X[2] \in Kind(Enters(st[2]))
    BY <1>5, Productions
  <2>2. X[1] \in GraphP /\ X[2] \in NodeP \cup ChainP
    BY <2>1, Symbols, KindFacts, TokenSets
  <2>3. ReduceFunc(p, X) = AppendGraphItem(X[1], X[2]) /\ Kind(Left(p)) = GraphP
    BY <1>5, Productions, KindFacts DEF ReduceFunc
  <2> QED  BY <2>2, <2>3, GraphKinds
<1>6. CASE p = 5
  <2>3. ReduceFunc(p, X) = Nil /\ Kind(Left(p)) = {Nil} \cup TokenP
    BY <1>6, Productions, KindFacts DEF ReduceFunc
  <2> QED  BY <2>3
<1>7. CASE p = 6
  <2>1. /\ Has(st[1], 6, 1) /\ X[1] \in Kind(Enters(st[1]))
    BY <1>7, Productions
  <2>2. X[1] \in TokenP
    BY <2>1, Symbols, KindFacts, TokenSets
  <2>3. ReduceFunc(p, X) = X[1] /\ Kind(Left(p)) = {Nil} \cup TokenP
    BY <1>7, Productions, KindFacts DEF ReduceFunc
  <2> QED  BY <2>2, <2>3
<1>8. CASE p = 7
  <2>1. /\ Has(st[1], 7, 1) /\ X[1] \in Kind(Enters(st[1]))
        /\ Has(st[3], 7, 3) /\ X[3] \in Kind(Enters(st[3]))
    BY <1>8, Productions
  <2>2. X[1] \in TokenP /\ X[3] \in AttrsP
    BY <2>1, Symbols, KindFacts, TokenSets
  <2>3. ReduceFunc(p, X) = NewNode(X[1], Str(0), X[3]) /\ Kind(Left(p)) = NodeP
    BY <1>8, Productions, KindFacts DEF ReduceFunc
  <2> QED  BY <2>2, <2>3, NewNodeKind, <1>1
<1>9. CASE p = 8
  <2>1. /\ Has(st[1], 8, 1) /\ X[1] \in Kind(Enters(st[1]))
        /\ Has(st[3], 8, 3) /\ X[3] \in Kind(Enters(st[3]))
        /\ Has(st[5], 8, 5) /\ X[5] \in Kind(Enters(st[5]))
    BY <1>9, Productions
  <2>2. X[1] \in TokenP /\ X[3] \in TokenP /\ X[5] \in AttrsP
    BY <2>1, Symbols, KindFacts, TokenSets
  <2>3. ReduceFunc(p, X) = NewNode(X[1], X[3], X[5]) /\ Kind(Left(p)) = NodeP
    BY <1>9, Productions, KindFacts DEF ReduceFunc
  <2> QED  BY <2>2, <2>3, NewNodeKind, <1>1
<1>10. CASE p = 9
  <2>1. /\ Has(st[1], 9, 1) /\ X[1] \in Kind(Enters(st[1]))
        /\ Has(st[3], 9, 3) /\ X[3] \in Kind(Enters(st[3]))
    BY <1>10, Productions
  <2>2. X[1] \in TokenP /\ X[3] \in TokenP
    BY <2>1, Symbols, KindFacts, TokenSets
  <2>3. ReduceFunc(p, X) = NewNode(X[1], X[3], Nil) /\ Kind(Left(p)) = NodeP
    BY <1>10, Productions, KindFacts DEF ReduceFunc
  <2> QED  BY <2>2, <2>3, NewNodeKind, <1>1
<1>11. CASE p = 10
  <2>1. /\ Has(st[1], 10, 1) /\ X[1] \in Kind(Enters(st[1]))
    BY <1>11, Productions
  <2>2. X[1] \in TokenP
    BY <2>1, Symbols, KindFacts, TokenSets
  <2>3. ReduceFunc(p, X) = NewNode(X[1], Str(0), Nil) /\ Kind(Left(p)) = NodeP
    BY <1>11, Productions, KindFacts DEF ReduceFunc
  <2> QED  BY <2>2, <2>3, NewNodeKind, <1>1
<1>12. CASE p = 11
  <2>1. /\ Has(st[1], 11, 1) /\ X[1] \in Kind(Enters(st[1]))
    BY <1>12, Productions
  <2>2. X[1] \in TokenP
    BY <2>1, Symbols, KindFacts, TokenSets
  <2>3. ReduceFunc(p, X) = NewNode(X[1], Str(0), Nil) /\ Kind(Left(p)) = NodeP
    BY <1>12, Productions, KindFacts DEF ReduceFunc
  <2> QED  BY <2>2, <2>3, NewNodeKind, <1>1
<1>13. CASE p = 12
  <2>1. /\ Has(st[1], 12, 1) /\ X[1] \in Kind(Enters(st[1]))
        /\ Has(st[2], 12, 2) /\ X[2] \in Kind(Enters(st[2]))
    BY <1>13, Productions
  <2>2. X[1] \in TokenP /\ X[2] \in TokenP
    BY <2>1, Symbols, KindFacts, TokenSets
  <2>3. ReduceFunc(p, X) = NewEdgeStep(X[1], X[2], Str(0), Nil) /\ Kind(Left(p)) = StepP
    BY <1>13, Productions, KindFacts DEF ReduceFunc
  <2> QED  BY <2>2, <2>3, NewEdgeStepKind, <1>1
<1>14. CASE p = 13
  <2>1. /\ Has(st[1], 13, 1) /\ X[1] \in Kind(Enters(st[1]))
        /\ Has(st[3], 13, 3) /\ X[3] \in Kind(Enters(st[3]))
    BY <1>14, Productions
  <2>2. X[1] \in TokenP /\ X[3] \in TokenP
    BY <2>1, Symbols, KindFacts, TokenSets
  <2>3. ReduceFunc(p, X) = NewEdgeStep(X[1], X[3], Str(0), Nil) /\ Kind(Left(p)) = StepP
    BY <1>14, Productions, KindFacts DEF ReduceFunc
  <2> QED  BY <2>2, <2>3, NewEdgeStepKind, <1>1
<1>15. CASE p = 14
  <2>1. /\ Has(st[1], 14, 1) /\ X[1] \in Kind(Enters(st[1]))
        /\ Has(st[2], 14, 2) /\ X[2] \in Kind(Enters(st[2]))
        /\ Has(st[4], 14, 4) /\ X[4] \in Kind(Enters(st[4]))
    BY <1>15, Productions
  <2>2. X[1] \in TokenP /\ X[2] \in AttrsP /\ X[4] \in TokenP
    BY <2>1, Symbols, KindFacts, TokenSets
  <2>3. ReduceFunc(p, X) = NewEdgeStep(X[1], X[4], Str(0), X[2]) /\ Kind(Left(p)) = StepP
    BY <1>15, Productions, KindFacts DEF ReduceFunc
  <2> QED  BY <2>2, <2>3, NewEdgeStepKind, <1>1
<1>16. CASE p = 15
  <2>1. /\ Has(st[1], 15, 1) /\ X[1] \in Kind(Enters(st[1]))
        /\ Has(st[2], 15, 2) /\ X[2] \in Kind(Enters(st[2]))
        /\ Has(st[5], 15, 5) /\ X[5] \in Kind(Enters(st[5]))
    BY <1>16, Productions
  <2>2. X[1] \in TokenP /\ X[2] \in TokenP /\ X[5] \in TokenP
    BY <2>1, Symbols, KindFacts, TokenSets
  <2>3. ReduceFunc(p, X) = NewEdgeStep(X[1], X[5], X[2], Nil) /\ Kind(Left(p)) = StepP
    BY <1>16, Productions, KindFacts DEF ReduceFunc
  <2> QED  BY <2>2, <2>3, NewEdgeStepKind, <1>1
<1>17. CASE p = 16
  <2>1. /\ Has(st[1], 16, 1) /\ X[1] \in Kind(Enters(st[1]))
        /\ Has(st[2], 16, 2) /\ X[2] \in Kind(Enters(st[2]))
        /\ Has(st[4], 16, 4) /\ X[4] \in Kind(Enters(st[4]))
        /\ Has(st[6], 16, 6) /\ X[6] \in Kind(Enters(st[6]))
    BY <1>17, Productions
  <2>2. X[1] \in TokenP /\ X[2] \in TokenP /\ X[4] \in AttrsP /\ X[6] \in TokenP
    BY <2>1, Symbols, KindFacts, TokenSets
  <2>3. ReduceFunc(p, X) = NewEdgeStep(X[1], X[6], X[2], X[4]) /\ Kind(Left(p)) = StepP
    BY <1>17, Productions, KindFacts DEF ReduceFunc
  <2> QED  BY <2>2, <2>3, NewEdgeStepKind, <1>1
<1>18. CASE p = 17
  <2>1. /\ Has(st[1], 17, 1) /\ X[1] \in Kind(Enters(st[1]))
        /\ Has(st[2], 17, 2) /\ X[2] \in Kind(Enters(st[2]))
    BY <1>18, Productions
  <2>2. X[1] \in TokenP /\ X[2] \in StepP
    BY <2>1, Symbols, KindFacts, TokenSets
  <2>3. ReduceFunc(p, X) = NewEdgeChain(X[1], X[2]) /\ Kind(Left(p)) = ChainP
    BY <1>18, Productions, KindFacts DEF ReduceFunc
  <2> QED  BY <2>2, <2>3, ChainKinds
<1>19. CASE p = 18
  <2>1. /\ Has(st[1], 18, 1) /\ X[1] \in Kind(Enters(st[1]))
        /\ Has(st[2], 18, 2) /\ X[2] \in Kind(Enters(st[2]))
    BY <1>19, Productions
  <2>2. X[1] \in ChainP /\ X[2] \in StepP
    BY <2>1, Symbols, KindFacts, TokenSets
  <2>3. ReduceFunc(p, X) = ExtendEdgeChain(X[1], X[2]) /\ Kind(Left(p)) = ChainP
    BY <1>19, Productions, KindFacts DEF ReduceFunc
  <2> QED  BY <2>2, <2>3, ChainKinds
<1>20. CASE p = 19
  <2>1. /\ Has(st[1], 19, 1) /\ X[1] \in Kind(Enters(st[1]))
    BY <1>20, Productions
  <2>2. X[1] \in ChainP
    BY <2>1, Symbols, KindFacts, TokenSets
  <2>3. ReduceFunc(p, X) = X[1] /\ Kind(Left(p)) = NodeP \cup ChainP
    BY <1>20, Productions, KindFacts DEF ReduceFunc
  <2> QED  BY <2>2, <2>3
<1>21. CASE p = 20
  <2>1. /\ Has(st[1], 20, 1) /\ X[1] \in Kind(Enters(st[1]))
    BY <1>21, Productions
  <2>2. X[1] \in NodeP
    BY <2>1, Symbols, KindFacts, TokenSets
  <2>3. ReduceFunc(p, X) = X[1] /\ Kind(Left(p)) = NodeP \cup ChainP
    BY <1>21, Productions, KindFacts DEF ReduceFunc
  <2> QED  BY <2>2, <2>3
<1>22. CASE p = 21
  <2>1. /\ Has(st[1], 21, 1) /\ X[1] \in Kind(Enters(st[1]))
    BY <1>22, Productions
  <2>2. X[1] \in AttrP
    BY <2>1, Symbols, KindFacts, TokenSets
  <2>3. ReduceFunc(p, X) = NewAttrs(X[1]) /\ Kind(Left(p)) = AttrsP
    BY <1>22, Productions, KindFacts DEF ReduceFunc
  <2> QED  BY <2>2, <2>3, AttrKinds
<1>23. CASE p = 22
  <2>1. /\ Has(st[1], 22, 1) /\ X[1] \in Kind(Enters(st[1]))
        /\ Has(st[2], 22, 2) /\ X[2] \in Kind(Enters(st[2]))
    BY <1>23, Productions
  <2>2. X[1] \in AttrsP /\ X[2] \in AttrP
    BY <2>1, Symbols, KindFacts, TokenSets
  <2>3. ReduceFunc(p, X) = AddAttr(X[1], X[2]) /\ Kind(Left(p)) = AttrsP
    BY <1>23, Productions, KindFacts DEF ReduceFunc
  <2> QED  BY <2>2, <2>3, AttrKinds
<1>24. CASE p = 23
  <2>3. ReduceFunc(p, X) = Nil /\ Kind(Left(p)) = {Nil} \cup TokenP
    BY <1>24, Productions, KindFacts DEF ReduceFunc
  <2> QED  BY <2>3
<1>25. CASE p = 24
  <2>1. /\ Has(st[1], 24, 1) /\ X[1] \in Kind(Enters(st[1]))
    BY <1>25, Productions
  <2>2. X[1] \in TokenP
    BY <2>1, Symbols, KindFacts, TokenSets
  <2>3. ReduceFunc(p, X) = X[1] /\ Kind(Left(p)) = {Nil} \cup TokenP
    BY <1>25, Productions, KindFacts DEF ReduceFunc
  <2> QED  BY <2>2, <2>3
<1>26. CASE p = 25
  <2>1. /\ Has(st[1], 25, 1) /\ X[1] \in Kind(Enters(st[1]))
        /\ Has(st[3], 25, 3) /\ X[3] \in Kind(Enters(st[3]))
    BY <1>26, Productions
  <2>2. X[1] \in TokenP /\ X[3] \in TokenP \cup StrP
    BY <2>1, Symbols, KindFacts, TokenSets
  <2>3. ReduceFunc(p, X) = NewAttr(X[1], X[3]) /\ Kind(Left(p)) = AttrP
    BY <1>26, Productions, KindFacts DEF ReduceFunc
  <2> QED  BY <2>2, <2>3, AttrKinds
<1>27. CASE p = 26
  <2>1. /\ Has(st[1], 26, 1) /\ X[1] \in Kind(Enters(st[1]))
    BY <1>27, Productions
  <2>2. X[1] \in TokenP
    BY <2>1, Symbols, KindFacts, TokenSets
  <2>3. ReduceFunc(p, X) = X[1] /\ Kind(Left(p)) = TokenP \cup StrP
    BY <1>27, Productions, KindFacts DEF ReduceFunc
  <2> QED  BY <2>2, <2>3
<1>28. CASE p = 27
  <2>1. /\ Has(st[1], 27, 1) /\ X[1] \in Kind(Enters(st[1]))
    BY <1>28, Productions
  <2>2. X[1] \in TokenP
    BY <2>1, Symbols, KindFacts, TokenSets
  <2>3. ReduceFunc(p, X) = X[1] /\ Kind(Left(p)) = TokenP \cup StrP
    BY <1>28, Productions, KindFacts DEF ReduceFunc
  <2> QED  BY <2>2, <2>3
<1>29. CASE p = 28
  <2>1. /\ Has(st[1], 28, 1) /\ X[1] \in Kind(Enters(st[1]))
    BY <1>29, Productions
  <2>2. X[1] \in TokenP
    BY <2>1, Symbols, KindFacts, TokenSets
  <2>3. ReduceFunc(p, X) = Unquote(X[1]) /\ Kind(Left(p)) = TokenP \cup StrP
    BY <1>29, Productions, KindFacts DEF ReduceFunc
  <2> QED  BY <2>2, <2>3, AttrKinds
<1> QED  BY <1>2, <1>3, <1>4, <1>5, <1>6, <1>7, <1>8, <1>9, <1>10, <1>11, <1>12, <1>13, <1>14, <1>15,
            <1>16, <1>17, <1>18, <1>19, <1>20, <1>21, <1>22, <1>23, <1>24, <1>25, <1>26, <1>27, <1>28, <1>29

-----------------------------------------------------------------------------
(* The invariant of the parser: each state was reached from the one below it, *)
(* and its product is of the kind that its symbol has.                        *)
Element == [state : 0..58, product : Product]
Linked(below, top) ==
    /\ Leads(below.state, Enters(top.state), top.state)
    /\ top.product \in Kind(Enters(top.state))
StackOK(s) ==
    /\ s \in Seq(Element) /\ s # << >>
    /\ s[1].state = 0
    /\ \A d \in 2..Len(s) : Linked(s[d - 1], s[d])
ParserInv ==
    /\ StackOK(stack)
    /\ nextToken \in TokenP \cup {NoToken} /\ read \in Seq(Terminal)
    /\ res \in {"parsing", "accepted", "syntax error"}
    /\ res = "accepted" => Top = 1

LEMMA HasFacts ==
    ASSUME NEW s, NEW p, NEW k, Has(s, p, k)
    PROVE  s \in 2..58 /\ k \in 1..6
BY DEF Has

LEMMA KindIn == ASSUME NEW X PROVE Kind(X) \subseteq Product
BY DEF Kind, Product

LEMMA StackFacts ==
    ASSUME NEW s, StackOK(s), NEW d \in 1..Len(s)
    PROVE  /\ s[d] \in Element /\ s[d].state \in 0..58
           /\ s[d].product \in Product
           /\ d = 1 <=> s[d].state = 0
<1>1. s[d] \in Element
  BY DEF StackOK
<1>3. s[d].state \in 0..58 /\ s[d].product \in Product
  BY <1>1 DEF Element
<1>2. ASSUME d # 1 PROVE s[d].state \in 1..58
  <2>1. d \in 2..Len(s)
    BY <1>2
  <2> QED  BY <2>1 DEF StackOK, Linked, Leads
<1>4. s[1].state = 0
  BY DEF StackOK
<1>5. \A x \in 1..58 : x # 0
  OBVIOUS
<1>6. d # 1 => s[d].state # 0
  BY <1>2, <1>5
<1>7. d = 1 => s[d].state = 0
  BY <1>4
<1> QED  BY <1>1, <1>3, <1>6, <1>7

LEMMA PopKeeps ==
    ASSUME NEW s, StackOK(s), NEW n \in 1..Len(s)
    PROVE  /\ StackOK(SubSeq(s, 1, n)) /\ Len(SubSeq(s, 1, n)) = n
           /\ \A d \in 1..n : SubSeq(s, 1, n)[d] = s[d]
<1> DEFINE out == SubSeq(s, 1, n)
<1>1. s \in Seq(Element)
  BY DEF StackOK
<1>2. /\ out \in Seq(Element) /\ Len(out) = n
      /\ \A d \in 1..n : out[d] = s[d]
  BY <1>1
<1> HIDE DEF out
<1>3. out # << >> /\ out[1].state = 0
  BY <1>2 DEF StackOK
<1>4. ASSUME NEW d \in 2..n PROVE Linked(out[d - 1], out[d])
  <2>1. d \in 2..Len(s) /\ d \in 1..n /\ d - 1 \in 1..n
    OBVIOUS
  <2> QED  BY <1>2, <2>1 DEF StackOK
<1>5. StackOK(out)
  BY <1>2, <1>3, <1>4 DEF StackOK
<1> QED  BY <1>2, <1>5 DEF out

LEMMA PushKeeps ==
    ASSUME NEW s, StackOK(s), NEW top, Linked(s[Len(s)], top), top = [state |-> top.state, product |-> top.product]
    PROVE  StackOK(Append(s, top))
<1> DEFINE out == Append(s, top)
<1>1. s \in Seq(Element) /\ Len(s) \in Nat \ {0}
  BY DEF StackOK
<1>2. top \in Element
  <2>1. top.state \in 0..58
    BY DEF Linked, Leads
  <2>2. top.product \in Product
    BY KindIn DEF Linked
  <2> QED  BY <2>1, <2>2 DEF Element
<1>3. /\ out \in Seq(Element) /\ Len(out) = Len(s) + 1
      /\ \A d \in 1..Len(s) : out[d] = s[d]
      /\ out[Len(s) + 1] = top
  BY <1>1, <1>2, AppendFacts
<1> HIDE DEF out
<1>4. out # << >> /\ out[1].state = 0
  BY <1>1, <1>3 DEF StackOK
<1>5. ASSUME NEW d \in 2..Len(out) PROVE Linked(out[d - 1], out[d])
  <2>1. CASE d = Len(s) + 1
    <3>1. out[d] = top /\ out[d - 1] = s[Len(s)]
      BY <1>1, <1>3, <2>1
    <3> QED  BY <3>1
  <2>2. CASE d # Len(s) + 1
    <3>1. d \in 2..Len(s) /\ d \in 1..Len(s) /\ d - 1 \in 1..Len(s)
      BY <1>1, <1>3, <2>2
    <3> QED  BY <1>3, <3>1 DEF StackOK
  <2> QED  BY <2>1, <2>2
<1>6. StackOK(out)
  BY <1>3, <1>4, <1>5 DEF StackOK
<1> QED  BY <1>6 DEF out

(* The right side of a production that has been read is on the stack.         *)
LEMMA Handle ==
    ASSUME NEW s, StackOK(s), NEW p, NEW n \in 1..6, Has(s[Len(s)].state, p, n)
    PROVE  /\ Len(s) - n \in 1..Len(s)
           /\ \A j \in 1..n : /\ Len(s) - n + j \in 1..Len(s)
                               /\ Has(s[Len(s) - n + j].state, p, j)
                               /\ s[Len(s) - n + j].product \in
                                     Kind(Enters(s[Len(s) - n + j].state))
           /\ Awaited(s[Len(s) - n].state, Left(p))
<1> DEFINE At(i) == i < n => Len(s) - i \in 2..Len(s) /\ Has(s[Len(s) - i].state, p, n - i)
           T     == {i \in Nat : At(i)}
<1>1. Len(s) \in Nat \ {0}
  BY DEF StackOK
<1>2. ASSUME NEW d \in 1..Len(s), NEW k, Has(s[d].state, p, k)
      PROVE  /\ d \in 2..Len(s) /\ Linked(s[d - 1], s[d])
             /\ k = 1 => Awaited(s[d - 1].state, Left(p))
             /\ k # 1 => Has(s[d - 1].state, p, k - 1)
  <2>4. s[d].state \in 2..58
    BY <1>2, HasFacts, Zenon
  <2>5. \A x \in 2..58 : x # 0
    OBVIOUS
  <2>1. s[d].state # 0
    BY <2>4, <2>5
  <2>2. d \in 2..Len(s)
    BY <2>1, StackFacts
  <2>3. Linked(s[d - 1], s[d])
    BY <2>2 DEF StackOK
  <2> QED  BY <1>2, <2>2, <2>3 DEF Linked, Leads
<1>3. 0 \in T
  <2>1. Len(s) \in 2..Len(s)
    <3>1. Len(s) \in 1..Len(s)
      BY <1>1
    <3> QED  BY <1>2, <3>1, Zenon
  <2>2. Len(s) - 0 = Len(s) /\ n - 0 = n
    BY <1>1
  <2> QED  BY <2>1, <2>2
<1>4. ASSUME NEW i \in Nat, i \in T PROVE i + 1 \in T
  <2> SUFFICES ASSUME i + 1 < n
               PROVE  /\ Len(s) - (i + 1) \in 2..Len(s)
                      /\ Has(s[Len(s) - (i + 1)].state, p, n - (i + 1))
    OBVIOUS
  <2> DEFINE d == Len(s) - i
  <2>1. d \in 2..Len(s) /\ Has(s[d].state, p, n - i)
    BY <1>4
  <2>2. n - i # 1 /\ d \in 1..Len(s) /\ d - 1 \in 1..Len(s)
    BY <1>1, <2>1
  <2>3. Has(s[d - 1].state, p, (n - i) - 1)
    BY <1>2, <2>1, <2>2
  <2>4. d - 1 \in 2..Len(s)
    BY <1>2, <2>2, <2>3
  <2>5. d - 1 = Len(s) - (i + 1) /\ (n - i) - 1 = n - (i + 1)
    BY <1>1
  <2> QED  BY <2>3, <2>4, <2>5
<1>5. \A i \in Nat : i \in T
  <2> HIDE DEF T
  <2> QED  BY <1>3, <1>4, NaturalsReached
<1>6. ASSUME NEW j \in 1..n
      PROVE  /\ Len(s) - n + j \in 2..Len(s)
             /\ Has(s[Len(s) - n + j].state, p, j)
  <2>1. n - j \in Nat /\ n - j < n
    OBVIOUS
  <2>2. At(n - j)
    BY <1>5, <2>1
  <2>3. Len(s) - (n - j) = Len(s) - n + j /\ n - (n - j) = j
    BY <1>1
  <2> QED  BY <2>1, <2>2, <2>3
<1>7. ASSUME NEW j \in 1..n
      PROVE  s[Len(s) - n + j].product \in Kind(Enters(s[Len(s) - n + j].state))
  BY <1>6 DEF StackOK, Linked
<1>8. Len(s) - n + 1 \in 2..Len(s) /\ Has(s[Len(s) - n + 1].state, p, 1)
  BY <1>6
<1>11. Len(s) - n + 1 \in 1..Len(s)
  BY <1>8
<1>9. Awaited(s[(Len(s) - n + 1) - 1].state, Left(p))
  BY <1>2, <1>8, <1>11, Zenon
<1>10. (Len(s) - n + 1) - 1 = Len(s) - n /\ Len(s) - n \in 1..Len(s)
  BY <1>1, <1>8
<1>12. Awaited(s[Len(s) - n].state, Left(p))
  BY <1>9, <1>10
<1>13. \A j \in 1..n : Len(s) - n + j \in 1..Len(s)
  BY <1>6
<1> QED  BY <1>6, <1>7, <1>10, <1>12, <1>13

-----------------------------------------------------------------------------
(* What the actions of the parser find, and what they leave.                  *)

LEMMA TopFacts ==
    ASSUME ParserInv
    PROVE  /\ Len(stack) \in Nat \ {0} /\ Len(stack) \in 1..Len(stack) /\ Top \in 0..58
           /\ Top \in DOMAIN ActionTab /\ RowOK(Top, ActionTab[Top])
<1>0. StackOK(stack)
  BY DEF ParserInv
<1>1. Len(stack) \in Nat \ {0} /\ Len(stack) \in 1..Len(stack) /\ StackOK(stack)
  BY <1>0 DEF StackOK
<1>2. Top \in 0..58
  BY <1>1, StackFacts DEF Top
<1> QED  BY <1>1, <1>2, ActionFacts

LEMMA Acts ==
    ASSUME ParserInv, NEW op, HasAction(op)
    PROVE  /\ nextToken.type \in Terminal /\ nextToken \in TokenP
           /\ op = "shift" => Leads(Top, nextToken.type, Arg)
           /\ op = "reduce" => CanReduce(Top, Arg)
           /\ op = "accept" => Top = 1
<1> DEFINE action == ActionTab[Top][nextToken.type]
<1>1. nextToken.type \in DOMAIN ActionTab[Top] /\ action.op = op /\ Arg = action.arg
  BY DEF HasAction, Arg
<1>2. nextToken.type \in Terminal /\ Does(Top, nextToken.type, action)
  BY <1>1, TopFacts DEF RowOK
<1>3. nextToken \in TokenP
  <2>1. NoToken.type \notin Terminal
    BY DEF NoToken, Tok, Terminal
  <2> QED  BY <1>2, <2>1 DEF ParserInv
<1> HIDE DEF action
<1> QED  BY <1>1, <1>2, <1>3 DEF Does

LEMMA FirstTokenKeeps ==
    ASSUME ParserInv, NEW tok \in TokenP, FirstToken(tok)
    PROVE  ParserInv'
BY DEF ParserInv, FirstToken, Top

LEMMA ShiftTokenKeeps ==
    ASSUME ParserInv, NEW tok \in TokenP, ShiftToken(tok)
    PROVE  ParserInv'
<1> DEFINE top == [state |-> Arg, product |-> nextToken]
<1>1. HasAction("shift") /\ res = "parsing" /\ res' = res /\ nextToken' = tok
      /\ stack' = Append(stack, top) /\ read' = Append(read, nextToken.type)
  BY DEF ShiftToken
<1>2. nextToken.type \in Terminal /\ nextToken \in TokenP /\ Leads(Top, nextToken.type, Arg)
  BY <1>1, Acts
<1>3. Enters(Arg) = nextToken.type
  BY <1>2 DEF Leads
<1>4. nextToken \in Kind(nextToken.type)
  BY <1>2, KindFacts
<1>5. top.state = Arg /\ top.product = nextToken /\ top = [state |-> top.state, product |-> top.product]
  OBVIOUS
<1> HIDE DEF top
<1>6. Linked(stack[Len(stack)], top)
  BY <1>2, <1>3, <1>4, <1>5 DEF Linked, Top
<1>7. StackOK(stack')
  BY <1>1, <1>5, <1>6, PushKeeps DEF ParserInv
<1>8. read' \in Seq(Terminal)
  BY <1>1, <1>2, AppendFacts DEF ParserInv
<1> QED  BY <1>1, <1>7, <1>8 DEF ParserInv

LEMMA ReduceProdKeeps ==
    ASSUME ParserInv, ReduceProd
    PROVE  ParserInv'
<1> DEFINE p     == Arg
           n     == ProdTab[Arg][2]
           len   == Len(stack) - n
           X     == [j \in 1..n |-> stack[len + j].product]
           st    == [j \in 1..n |-> stack[len + j].state]
           below == stack[len].state
           made  == ReduceFunc(Arg, X)
           A     == ProdTab[Arg][1]
           top   == [state |-> GotoTab[below][A], product |-> made]
<1>1. /\ HasAction("reduce") /\ res = "parsing" /\ nextToken' = nextToken /\ read' = read
      /\ made = Failed \/ (stack' = Append(SubSeq(stack, 1, len), top) /\ res' = res)
  BY DEF ReduceProd
<1>2. p \in 1..28 /\ CanReduce(Top, p) /\ n = Length(p) /\ A = Left(p)
  BY <1>1, Acts DEF CanReduce, Length, Left
<1>3. StackOK(stack) /\ Len(stack) \in Nat \ {0}
  BY TopFacts DEF ParserInv
<1>4. /\ len \in 1..Len(stack) /\ Awaited(below, Left(p)) /\ n \in 0..6
      /\ \A j \in 1..n : Has(st[j], p, j) /\ X[j] \in Kind(Enters(st[j]))
  <2>1. CASE n = 0
    <3>1. len = Len(stack) /\ Awaited(Top, Left(p))
      BY <1>2, <1>3, <2>1 DEF CanReduce
    <3> QED  BY <1>3, <2>1, <3>1 DEF Top
  <2>2. CASE n # 0
    <3>1. Has(stack[Len(stack)].state, p, n)
      BY <1>2, <2>2 DEF CanReduce, Top
    <3>2. n \in 1..6
      BY <3>1, HasFacts, Zenon
    <3> HIDE DEF n, p
    <3>3. /\ Len(stack) - n \in 1..Len(stack) /\ Awaited(stack[Len(stack) - n].state, Left(p))
          /\ \A j \in 1..n : /\ Has(stack[Len(stack) - n + j].state, p, j)
                              /\ stack[Len(stack) - n + j].product \in
                                    Kind(Enters(stack[Len(stack) - n + j].state))
      BY <1>3, <3>1, <3>2, Handle
    <3>4. \A j \in 1..n : /\ st[j] = stack[Len(stack) - n + j].state
                          /\ X[j] = stack[Len(stack) - n + j].product
      OBVIOUS
    <3> HIDE DEF st, X
    <3>5. \A j \in 1..n : Has(st[j], p, j) /\ X[j] \in Kind(Enters(st[j]))
      BY <3>3, <3>4
    <3> QED  BY <3>2, <3>3, <3>5
  <2> QED  BY <2>1, <2>2
<1>5. made \in Kind(Left(p))
  <2> HIDE DEF X, st, n, p
  <2>1. made = ReduceFunc(p, X)
    BY DEF p
  <2> QED  BY <1>2, <1>4, <2>1, ReduceKinds
<1>6. made # Failed
  <2>1. \A x \in Product : x # Failed
    BY DEF Product, Failed, TokenP, StrP, AttrP, AttrsP, NodeP, StepP, ChainP, GraphP, Nil
  <2> QED  BY <1>5, <2>1, KindIn
<1>7. Leads(below, A, GotoTab[below][A])
  BY <1>2, <1>4, GotoFacts
<1>8. top.state = GotoTab[below][A] /\ top.product = made
      /\ top = [state |-> top.state, product |-> top.product]
  OBVIOUS
<1>9. Enters(top.state) = A
  BY <1>7, <1>8 DEF Leads
<1> DEFINE out == SubSeq(stack, 1, len)
<1>10. StackOK(out) /\ Len(out) = len /\ out[len] = stack[len]
  BY <1>3, <1>4, PopKeeps
<1>11. stack' = Append(out, top) /\ res' = res
  BY <1>1, <1>6
<1> HIDE DEF top, made, out, len
<1>12. Linked(out[Len(out)], top)
  BY <1>2, <1>5, <1>7, <1>8, <1>9, <1>10 DEF Linked
<1>13. StackOK(stack')
  BY <1>8, <1>10, <1>11, <1>12, PushKeeps
<1> QED  BY <1>1, <1>11, <1>13 DEF ParserInv

LEMMA AcceptDocKeeps == ASSUME ParserInv, AcceptDoc PROVE ParserInv'
<1>1. Top = 1
  BY Acts DEF AcceptDoc
<1> QED  BY <1>1 DEF ParserInv, AcceptDoc, Top

LEMMA RejectKeeps == ASSUME ParserInv, Reject PROVE ParserInv'
BY DEF ParserInv, Reject, Top

LEMMA InvTypeOK == ASSUME ParserInv PROVE ParserTypeOK
<1>1. StackOK(stack) /\ Len(stack) \in Nat \ {0} /\ Len(stack) \in 1..Len(stack)
  BY TopFacts DEF ParserInv
<1>2. ASSUME NEW d \in 1..Len(stack) PROVE stack[d].state \in DOMAIN ActionTab
  BY <1>1, StackFacts, ActionFacts
<1>3. nextToken.type \in Terminal \cup {"none"}
  <2>1. NoToken.type = "none" /\ \A tok \in TokenP : tok.type \in Terminal
    BY DEF TokenP, NoToken, Tok
  <2> QED  BY <2>1 DEF ParserInv
<1>4. ASSUME res = "accepted" PROVE Len(stack) = 2 /\ Graph.tag = "Graph"
  <2>1. stack[Len(stack)].state = 1
    BY <1>4 DEF ParserInv, Top
  <2>2. Len(stack) \in 2..Len(stack)
    BY <1>1, <2>1, StackFacts
  <2>3. Linked(stack[Len(stack) - 1], stack[Len(stack)])
    BY <1>1, <2>2 DEF StackOK
  <2>4. stack[Len(stack) - 1].state = 0 /\ stack[Len(stack)].product \in Kind(Enters(1))
    BY <2>1, <2>3 DEF Linked, Leads
  <2>5. Len(stack) - 1 = 1
    <3>1. Len(stack) - 1 \in 1..Len(stack)
      BY <1>1, <2>2
    <3> QED  BY <1>1, <2>4, <3>1, StackFacts
  <2>6. Kind(Enters(1)) = GraphP
    BY KindFacts DEF Enters
  <2>7. Graph \in GraphP /\ Len(stack) = 2
    BY <1>1, <2>4, <2>5, <2>6 DEF Graph
  <2> QED  BY <2>7 DEF GraphP
<1> QED  BY <1>2, <1>3, <1>4 DEF ParserTypeOK, ParserInv

LEMMA InitParser == ParserInit => ParserInv
<1> SUFFICES ASSUME ParserInit PROVE ParserInv
  OBVIOUS
<1> DEFINE first == [state |-> 0, product |-> Nil]
<1>1. stack = <<first>> /\ nextToken = NoToken /\ read = << >> /\ res = "parsing"
  BY DEF ParserInit
<1>2. first \in Element /\ first.state = 0
  BY DEF Element, Product
<1> HIDE DEF first
<1>3. StackOK(stack)
  BY <1>1, <1>2 DEF StackOK
<1> QED  BY <1>1, <1>3 DEF ParserInv

-----------------------------------------------------------------------------
(* What is written is a text.                                                *)

(* Joined is a function by recursion, which there is.                         *)
Joining(pieces, K, f) == f = [n \in 0..K |-> IF n = 0 THEN << >> ELSE f[n - 1] \o pieces[n]]

LEMMA JoiningExists ==
    ASSUME NEW pieces
    PROVE  \A K \in Nat : \E f : Joining(pieces, K, f)
<1> DEFINE T == {K \in Nat : \E f : Joining(pieces, K, f)}
<1>1. 0 \in T
  <2> DEFINE f == [n \in 0..0 |-> << >>]
  <2>1. Joining(pieces, 0, f)
    BY DEF Joining
  <2> QED  BY <2>1
<1>2. ASSUME NEW K \in Nat, K \in T
      PROVE  K + 1 \in T
  <2>1. PICK h : Joining(pieces, K, h)
    BY <1>2
  <2> DEFINE next(n) == h[n - 1] \o pieces[n]
             f == [n \in 0..K + 1 |-> IF n = 0 THEN << >> ELSE next(n)]
  <2>2. \A n \in 0..K : h[n] = IF n = 0 THEN << >> ELSE next(n)
    BY <2>1 DEF Joining
  <2>3. \A n \in 0..K : f[n] = h[n]
    <3> HIDE DEF next
    <3> QED  BY <2>2
  <2>4. ASSUME NEW n \in 0..K + 1
        PROVE  f[n] = IF n = 0 THEN << >> ELSE f[n - 1] \o pieces[n]
    <3>1. CASE n = 0
      BY <3>1
    <3>2. CASE n # 0
      <4>1. n - 1 \in 0..K
        BY <3>2
      <4>2. f[n - 1] = h[n - 1]
        BY <2>3, <4>1
      <4>3. f[n] = next(n)
        <5> HIDE DEF next
        <5> QED  BY <3>2
      <4> HIDE DEF f
      <4> QED  BY <3>2, <4>2, <4>3
    <3> QED  BY <3>1, <3>2
  <2>5. Joining(pieces, K + 1, f)
    <3>1. f = [n \in 0..K + 1 |-> f[n]]
      OBVIOUS
    <3> HIDE DEF f
    <3> QED  BY <2>4, <3>1 DEF Joining
  <2> HIDE DEF f
  <2> QED  BY <2>5
<1> HIDE DEF T
<1>3. \A K \in Nat : K \in T
  BY <1>1, <1>2, NaturalsReached
<1> QED  BY <1>3 DEF T

LEMMA ShortSeqs ==
    ASSUME NEW S, NEW a \in S, NEW b \in S, NEW c \in S, NEW d \in S
    PROVE  /\ << >> \in Seq(S) /\ <<a>> \in Seq(S) /\ <<a, b>> \in Seq(S)
           /\ <<a, b, c>> \in Seq(S) /\ <<a, b, c, d>> \in Seq(S)
OBVIOUS

LEMMA Concats ==
    ASSUME NEW S, NEW s \in Seq(S), NEW t \in Seq(S), NEW u \in Seq(S), NEW v \in Seq(S),
           NEW w \in Seq(S)
    PROVE  /\ s \o t \o u \in Seq(S) /\ s \o t \o u \o v \in Seq(S)
           /\ s \o t \o u \o v \o w \in Seq(S)
<1>1. s \o t \in Seq(S)
  BY ConcatFacts
<1>2. (s \o t) \o u \in Seq(S)
  BY <1>1, ConcatFacts
<1>3. ((s \o t) \o u) \o v \in Seq(S)
  BY <1>2, ConcatFacts
<1>4. (((s \o t) \o u) \o v) \o w \in Seq(S)
  BY <1>3, ConcatFacts
<1> QED  BY <1>2, <1>3, <1>4

LEMMA JoinedIn ==
    ASSUME NEW S, NEW pieces \in Seq(Seq(S))
    PROVE  Joined(pieces) \in Seq(S)
<1> DEFINE f == CHOOSE f : Joining(pieces, Len(pieces), f)
           T == {n \in Nat : n <= Len(pieces) => f[n] \in Seq(S)}
<1>1. Len(pieces) \in Nat
  OBVIOUS
<1>2. Joining(pieces, Len(pieces), f)
  BY <1>1, JoiningExists
<1>3. Joined(pieces) = f[Len(pieces)]
  BY DEF Joined, Joining
<1> HIDE DEF f
<1>4. \A n \in 0..Len(pieces) : f[n] = IF n = 0 THEN << >> ELSE f[n - 1] \o pieces[n]
  BY <1>2 DEF Joining
<1>5. 0 \in T
  <2>1. f[0] = << >>
    BY <1>1, <1>4
  <2>2. << >> \in Seq(S)
    OBVIOUS
  <2> QED  BY <2>1, <2>2
<1>6. ASSUME NEW n \in Nat, n \in T PROVE n + 1 \in T
  <2> SUFFICES ASSUME n + 1 <= Len(pieces) PROVE f[n + 1] \in Seq(S)
    OBVIOUS
  <2>1. PICK m : m = n + 1
    OBVIOUS
  <2>2. m \in 0..Len(pieces) /\ m # 0 /\ m - 1 = n /\ m \in 1..Len(pieces)
    BY <1>1, <2>1
  <2>3. f[m] = f[m - 1] \o pieces[m]
    BY <1>4, <2>2
  <2>4. f[n] \in Seq(S) /\ pieces[m] \in Seq(S)
    BY <1>1, <1>6, <2>2
  <2>5. f[n] \o pieces[m] \in Seq(S)
    BY <2>4
  <2> QED  BY <2>1, <2>2, <2>3, <2>5
<1>7. \A n \in Nat : n \in T
  <2> HIDE DEF T
  <2> QED  BY <1>5, <1>6, NaturalsReached
<1> QED  BY <1>1, <1>3, <1>7

LEMMA quoteifyIn ==
    ASSUME NEW v \in Seq(Rune)
    PROVE  quoteify(v) \in Seq(Rune)
<1>1. "quote" \in Rune /\ "backslash" \in Rune
  BY DEF Rune
<1>2. Dyad \in Seq(Rune) /\ <<"quote">> \in Seq(Rune)
  BY <1>1 DEF Dyad
<1> DEFINE pieces == [j \in 1..Len(v) |-> IF v[j] = "quote" THEN Dyad ELSE <<v[j]>>]
<1>3. ASSUME NEW j \in 1..Len(v)
      PROVE  (IF v[j] = "quote" THEN Dyad ELSE <<v[j]>>) \in Seq(Rune)
  <2>1. v[j] \in Rune
    OBVIOUS
  <2>2. <<v[j]>> \in Seq(Rune)
    BY <2>1
  <2> QED  BY <1>2, <2>2
<1>4. Len(v) \in Nat
  OBVIOUS
<1>5. pieces \in Seq(Seq(Rune))
  BY <1>3, <1>4
<1>6. Replaced(v, "quote", Dyad) \in Seq(Rune)
  <2> HIDE DEF pieces
  <2>1. Joined(pieces) \in Seq(Rune)
    BY <1>5, JoinedIn
  <2> QED  BY <2>1 DEF Replaced, pieces
<1>7. <<"quote">> \o Replaced(v, "quote", Dyad) \o <<"quote">> \in Seq(Rune)
  BY <1>2, <1>6
<1> QED  BY <1>7 DEF quoteify

LEMMA PairsIn ==
    ASSUME NEW attrs \in Seq([key : Seq(Rune), value : Seq(Rune)])
    PROVE  Pairs(attrs) \in Seq(Rune)
<1> DEFINE Kv       == [key : Seq(Rune), value : Seq(Rune)]
           piece(j) == (IF j = 1 THEN << >> ELSE <<",", "space">>)
                           \o attrs[j].key \o <<"=">> \o quoteify(attrs[j].value)
           pieces   == [j \in 1..Len(attrs) |-> piece(j)]
<1>1. ASSUME NEW j \in 1..Len(attrs) PROVE piece(j) \in Seq(Rune)
  <2>1. attrs[j] \in Kv
    <3> HIDE DEF Kv
    <3>1. attrs \in Seq(Kv)
      BY DEF Kv
    <3> QED  BY <3>1
  <2>2. attrs[j].key \in Seq(Rune) /\ attrs[j].value \in Seq(Rune)
    BY <2>1
  <2>3. quoteify(attrs[j].value) \in Seq(Rune)
    BY <2>2, quoteifyIn
  <2>4. "," \in Rune /\ "space" \in Rune /\ "=" \in Rune
    BY DEF Rune
  <2>5. << >> \in Seq(Rune) /\ <<",", "space">> \in Seq(Rune) /\ <<"=">> \in Seq(Rune)
    BY <2>4, ShortSeqs
  <2>6. (IF j = 1 THEN << >> ELSE <<",", "space">>) \in Seq(Rune)
    BY <2>5
  <2> QED  BY <2>2, <2>3, <2>5, <2>6, Concats
<1>2. Len(attrs) \in Nat
  OBVIOUS
<1> HIDE DEF piece
<1>3. pieces \in Seq(Seq(Rune))
  BY <1>1, <1>2
<1> HIDE DEF pieces
<1>4. Joined(pieces) \in Seq(Rune)
  BY <1>3, JoinedIn
<1> QED  BY <1>4 DEF Pairs, pieces, piece

LEMMA WrittenLineIn ==
    ASSUME NEW it \in Items
    PROVE  WrittenLine(it) \in Seq(Rune) /\ Terminated(WrittenLine(it)) \in Seq(Rune)
<1> DEFINE list == TypeAndAttrList(it.type, it.attrs)
<1>1. it.type \in Seq(Rune) /\ Pairs(it.attrs) \in Seq(Rune)
  BY ItemAssumption, PairsIn
<1>2. /\ "letter" \in Rune /\ "[" \in Rune /\ "]" \in Rune /\ ";" \in Rune
      /\ "space" \in Rune /\ "nl" \in Rune /\ "-" \in Rune /\ ">" \in Rune
  BY DEF Rune
<1>9. /\ << >> \in Seq(Rune) /\ <<"letter">> \in Seq(Rune) /\ <<"space">> \in Seq(Rune)
      /\ <<"nl">> \in Seq(Rune) /\ <<"-">> \in Seq(Rune) /\ <<"[">> \in Seq(Rune)
      /\ <<"]">> \in Seq(Rune)
  <2>1. << >> \in Seq(Rune) /\ \A a \in Rune : <<a>> \in Seq(Rune)
    OBVIOUS
  <2> QED  BY <1>2, <2>1, Zenon
<1>10. <<";", "space">> \in Seq(Rune)
  BY <1>2, ShortSeqs
<1>11. <<"letter", "space", "-">> \in Seq(Rune)
  BY <1>2, ShortSeqs
<1>4. <<">", "space", "letter", "nl">> \in Seq(Rune)
  BY <1>2, ShortSeqs
<1>3. list \in Seq(Rune)
  <2> DEFINE sep == IF it.type # << >> /\ it.attrs # << >> THEN <<";", "space">> ELSE << >>
  <2>1. sep \in Seq(Rune)
    BY <1>9, <1>10
  <2> DEFINE before == <<"[">>
             pairs  == Pairs(it.attrs)
             after  == <<"]">>
  <2>2. before \o it.type \o sep \o pairs \o after \in Seq(Rune)
    <3>1. before \in Seq(Rune) /\ pairs \in Seq(Rune) /\ after \in Seq(Rune)
      BY <1>1, <1>9
    <3>2. it.type \in Seq(Rune)
      BY <1>1
    <3> HIDE DEF before, pairs, after, sep
    <3> QED  BY <2>1, <3>1, <3>2, Concats
  <2> QED  BY <1>9, <2>2 DEF TypeAndAttrList
<1> HIDE DEF list
<1>5. <<"letter">> \o (IF list = << >> THEN << >> ELSE <<"space">> \o list) \o <<"nl">>
         \in Seq(Rune)
  <2>1. <<"space">> \o list \in Seq(Rune)
    BY <1>3, <1>9, ConcatFacts
  <2>2. (IF list = << >> THEN << >> ELSE <<"space">> \o list) \in Seq(Rune)
    BY <1>9, <2>1
  <2> QED  BY <1>9, <2>2, Concats
<1>6. <<"letter", "space", "-">> \o list \o (IF list = << >> THEN << >> ELSE <<"-">>)
         \o <<">", "space", "letter", "nl">> \in Seq(Rune)
  <2>1. (IF list = << >> THEN << >> ELSE <<"-">>) \in Seq(Rune)
    BY <1>9
  <2> QED  BY <1>3, <1>4, <1>9, <1>11, <2>1, Concats
<1>7. WrittenLine(it) \in Seq(Rune)
  BY <1>5, <1>6 DEF WrittenLine, list
<1>8. Append(WrittenLine(it), "nl") \in Seq(Rune)
  BY <1>2, <1>7, AppendFacts
<1> QED  BY <1>7, <1>8 DEF Terminated

-----------------------------------------------------------------------------
(* The scanner and the parser together.                                       *)

PipelineInv == ScanInv /\ ParserInv

LEMMA TokenTypes == TokenType \subseteq Terminal
BY DEF TokenType, Accept, Terminal

LEMMA ScannedFacts ==
    ASSUME ScanInv, NEW n \in Nat, NEW tok \in Scanned(n)
    PROVE  tok \in TokenP
<1>1. \A t \in Terminal : Tok(t, n) \in TokenP
  BY DEF Tok, TokenP
<1>2. CASE source.kind = "tokens"
  <2>1. PICK t \in (IF n <= MaxTokens THEN Terminal ELSE {"EOF"}) : tok = Tok(t, n)
    BY <1>2 DEF Scanned
  <2> QED  BY <1>1, <2>1, TokenSets
<1>3. CASE source.kind # "tokens"
  <2>1. PICK j \in {n} \cap 1..Len(toks) : tok = Tok(toks[j].type, j)
    BY <1>3 DEF Scanned
  <2>2. j = n /\ toks[j].type \in TokenType
    BY <2>1 DEF ScanInv, TypeOK
  <2> QED  BY <1>1, <2>1, <2>2, TokenTypes
<1> QED  BY <1>2, <1>3

LEMMA InitPipeline == PipelineInit => PipelineInv
<1> SUFFICES ASSUME PipelineInit PROVE PipelineInv
  OBVIOUS
<1>1. PICK text \in Seq(Rune) : ScannerAt(text)
  <2>1. << >> \in Seq(Rune)
    OBVIOUS
  <2> QED  BY <2>1, InputFacts, WrittenLineIn DEF PipelineInit
<1> QED  BY <1>1, ScannerStarts, InitParser DEF PipelineInit, PipelineInv

LEMMA PipelineSteps == PipelineInv /\ [PipelineNext]_allVars => PipelineInv'
<1> SUFFICES ASSUME PipelineInv, [PipelineNext]_allVars PROVE PipelineInv'
  OBVIOUS
<1>1. CASE Scan
  <2>1. ScanInv'
    BY <1>1, ScanSteps DEF Scan, PipelineInv
  <2>2. UNCHANGED parserVars
    BY <1>1 DEF Scan
  <2>3. ParserInv'
    BY <2>2 DEF PipelineInv, ParserInv, parserVars, Top
  <2> QED  BY <2>1, <2>3 DEF PipelineInv
<1>2. CASE Parse
  <2>1. ScanInv'
    BY <1>2, ScanSteps DEF Parse, PipelineInv
  <2>7. ScanInv /\ ParserInv
    BY DEF PipelineInv
  <2>2. Len(read) \in Nat /\ ScanInv /\ ParserInv
    <3>1. read \in Seq(Terminal)
      BY <2>7 DEF ParserInv
    <3> QED  BY <2>7, <3>1
  <2>3. ASSUME NEW tok \in Scanned(1), FirstToken(tok) PROVE ParserInv'
    BY <2>2, <2>3, ScannedFacts, FirstTokenKeeps
  <2>4. ASSUME NEW tok \in Scanned(Len(read) + 2), ShiftToken(tok) PROVE ParserInv'
    <3>1. tok \in TokenP
      BY <2>2, ScannedFacts
    <3> QED  BY <2>2, <2>4, <3>1, ShiftTokenKeeps
  <2>5. ASSUME ReduceProd \/ AcceptDoc \/ Reject PROVE ParserInv'
    BY <2>2, <2>5, ReduceProdKeeps, AcceptDocKeeps, RejectKeeps
  <2>6. ParserInv'
    BY <1>2, <2>3, <2>4, <2>5 DEF Parse
  <2> QED  BY <2>1, <2>6 DEF PipelineInv
<1>3. CASE UNCHANGED allVars
  <2>1. UNCHANGED vars /\ UNCHANGED parserVars
    BY <1>3 DEF allVars
  <2>2. ScanInv'
    BY <2>1, ScanSteps DEF PipelineInv
  <2>3. ParserInv'
    BY <2>1 DEF PipelineInv, ParserInv, parserVars, Top
  <2> QED  BY <2>2, <2>3 DEF PipelineInv
<1> QED  BY <1>1, <1>2, <1>3 DEF PipelineNext

(* For every text and for tokens of any other kind, in any number: the parser *)
(* finds a row for each state on its stack, a goto behind every reduction,    *)
(* and for every constructor products of the types that it asserts; so Parse  *)
(* ends in an AST or in a syntax error.                                       *)
THEOREM ParserStaysInTables == PipelineSpec => []ParserTypeOK
<1>1. PipelineInv => ParserTypeOK
  BY InvTypeOK DEF PipelineInv
<1> QED  BY <1>1, InitPipeline, PipelineSteps, PTL DEF PipelineSpec

-----------------------------------------------------------------------------
(* Sequences end to end.                                                      *)

LEMMA SameSeq ==
    ASSUME NEW S, NEW u \in Seq(S), NEW v \in Seq(S), Len(u) = Len(v),
           \A i \in 1..Len(u) : u[i] = v[i]
    PROVE  u = v
OBVIOUS

LEMMA Regrouped == \A s, t, u \in Seq(Int) : (s \o t) \o u = s \o (t \o u)
<1> TAKE s, t, u \in Seq(Int)
<1> DEFINE p == (s \o t) \o u
           q == s \o (t \o u)
<1>1. s \o t \in Seq(Int) /\ t \o u \in Seq(Int)
  BY ConcatFacts
<1>2. p \in Seq(Int) /\ q \in Seq(Int)
  BY <1>1, ConcatFacts
<1>3. Len(p) = Len(q)
  OBVIOUS
<1>4. \A i \in 1..Len(p) : p[i] = q[i]
  OBVIOUS
<1> HIDE DEF p, q
<1>5. p = q
  BY <1>2, <1>3, <1>4, SameSeq
<1> QED  BY <1>5 DEF p, q

LEMMA ConcatAlgebra ==
    ASSUME NEW s \in Seq(Int)
    PROVE  s \o << >> = s /\ << >> \o s = s
OBVIOUS

LEMMA JoinedNone == ASSUME NEW p, Len(p) = 0 PROVE Joined(p) = << >>
<1> DEFINE f == CHOOSE f : Joining(p, Len(p), f)
<1>1. Joining(p, 0, f)
  BY JoiningExists
<1>2. Joined(p) = f[0]
  BY DEF Joined, Joining
<1> HIDE DEF f
<1>3. f[0] = << >>
  BY <1>1 DEF Joining
<1> QED  BY <1>2, <1>3

LEMMA JoinedMore ==
    ASSUME NEW p, NEW q, NEW K \in Nat, Len(p) = K, Len(q) = K + 1,
           \A j \in 1..K : q[j] = p[j]
    PROVE  Joined(q) = Joined(p) \o q[K + 1]
<1> DEFINE f == CHOOSE f : Joining(p, Len(p), f)
           g == CHOOSE g : Joining(q, Len(q), g)
           T == {n \in Nat : n <= K => f[n] = g[n]}
<1>1. Joining(p, K, f) /\ Joining(q, K + 1, g)
  <2>1. \E h : Joining(p, Len(p), h)
    BY JoiningExists
  <2>2. K + 1 \in Nat
    OBVIOUS
  <2>3. \E h : Joining(q, Len(q), h)
    BY <2>2, JoiningExists
  <2> QED  BY <2>1, <2>3
<1>2. Joined(p) = f[K] /\ Joined(q) = g[K + 1]
  BY DEF Joined, Joining
<1> HIDE DEF f, g
<1>3. \A n \in 0..K : f[n] = IF n = 0 THEN << >> ELSE f[n - 1] \o p[n]
  BY <1>1 DEF Joining
<1>4. \A n \in 0..K + 1 : g[n] = IF n = 0 THEN << >> ELSE g[n - 1] \o q[n]
  BY <1>1 DEF Joining
<1>5. 0 \in T
  BY <1>3, <1>4
<1>6. ASSUME NEW n \in Nat, n \in T PROVE n + 1 \in T
  <2> SUFFICES ASSUME n + 1 <= K PROVE f[n + 1] = g[n + 1]
    OBVIOUS
  <2>1. PICK m : m = n + 1
    OBVIOUS
  <2>2. m \in 0..K /\ m \in 0..K + 1 /\ m # 0 /\ m - 1 = n /\ m \in 1..K
    BY <2>1
  <2>3. f[m] = f[n] \o p[m] /\ g[m] = g[n] \o q[m]
    BY <1>3, <1>4, <2>2
  <2>4. f[n] = g[n] /\ p[m] = q[m]
    BY <1>6, <2>2
  <2> QED  BY <2>1, <2>3, <2>4
<1>7. \A n \in Nat : n \in T
  <2> HIDE DEF T
  <2> QED  BY <1>5, <1>6, NaturalsReached
<1>8. f[K] = g[K]
  BY <1>7
<1>9. g[K + 1] = g[K] \o q[K + 1]
  <2>1. K + 1 \in 0..K + 1 /\ K + 1 # 0 /\ (K + 1) - 1 = K
    OBVIOUS
  <2> QED  BY <1>4, <2>1
<1> QED  BY <1>2, <1>8, <1>9

-----------------------------------------------------------------------------
(* What the tokens from one place of a text to another say.                   *)

SaidIn(r, a, b) == Joined([j \in 1..b - a |-> Word(r, a + j)])

LEMMA WordIn == ASSUME NEW r, NEW n \in Nat PROVE Word(r, n) \in Seq(Int)
<1>1. << >> \in Seq(Int) /\ <<-2>> \in Seq(Int) /\ <<-1>> \in Seq(Int) /\ <<n>> \in Seq(Int)
  OBVIOUS
<1> QED  BY <1>1 DEF Word

LEMMA SaidInType == ASSUME NEW r, NEW a \in Nat, NEW b \in Nat, a <= b PROVE SaidIn(r, a, b) \in Seq(Int)
<1> DEFINE p == [j \in 1..b - a |-> Word(r, a + j)]
<1>1. \A j \in 1..b - a : Word(r, a + j) \in Seq(Int)
  BY WordIn
<1>2. p \in Seq(Seq(Int))
  BY <1>1
<1> HIDE DEF p
<1>3. Joined(p) \in Seq(Int)
  BY <1>2, JoinedIn
<1> QED  BY <1>3 DEF SaidIn, p

LEMMA SaidInNone == ASSUME NEW r, NEW a \in Nat PROVE SaidIn(r, a, a) = << >>
<1> DEFINE p == [j \in 1..a - a |-> Word(r, a + j)]
<1>1. Len(p) = 0
  OBVIOUS
<1> HIDE DEF p
<1>2. Joined(p) = << >>
  BY <1>1, JoinedNone
<1> QED  BY <1>2 DEF SaidIn, p

LEMMA SaidInMore ==
    ASSUME NEW r, NEW a \in Nat, NEW b \in Nat, a <= b
    PROVE  SaidIn(r, a, b + 1) = SaidIn(r, a, b) \o Word(r, b + 1)
<1> DEFINE K == b - a
           p == [j \in 1..K |-> Word(r, a + j)]
           q == [j \in 1..K + 1 |-> Word(r, a + j)]
<1>1. K \in Nat /\ Len(p) = K /\ Len(q) = K + 1 /\ (\A j \in 1..K : q[j] = p[j])
      /\ K + 1 \in 1..K + 1
  OBVIOUS
<1>2. q[K + 1] = Word(r, a + (K + 1))
  BY <1>1
<1>3. a + (K + 1) = b + 1 /\ (b + 1) - a = K + 1
  OBVIOUS
<1>4. SaidIn(r, a, b) = Joined(p) /\ SaidIn(r, a, b + 1) = Joined(q)
  BY <1>3 DEF SaidIn
<1> HIDE DEF p, q, K
<1>5. Joined(q) = Joined(p) \o q[K + 1]
  BY <1>1, JoinedMore
<1> QED  BY <1>2, <1>3, <1>4, <1>5

LEMMA SaidInJoin ==
    ASSUME NEW r, NEW a \in Nat, NEW b \in Nat, NEW c \in Nat, a <= b, b <= c
    PROVE  SaidIn(r, a, c) = SaidIn(r, a, b) \o SaidIn(r, b, c)
<1> DEFINE T == {n \in Nat : SaidIn(r, a, b + n) = SaidIn(r, a, b) \o SaidIn(r, b, b + n)}
<1>1. 0 \in T
  <2>1. SaidIn(r, b, b) = << >> /\ SaidIn(r, a, b) \in Seq(Int) /\ b + 0 = b
    BY SaidInNone, SaidInType
  <2> QED  BY <2>1
<1>2. ASSUME NEW n \in Nat, n \in T PROVE n + 1 \in T
  <2>1. PICK d : d = b + n
    OBVIOUS
  <2>2. d \in Nat /\ a <= d /\ b <= d /\ d + 1 = b + (n + 1)
    BY <2>1
  <2>3. SaidIn(r, a, d) = SaidIn(r, a, b) \o SaidIn(r, b, d)
    BY <1>2, <2>1
  <2>4. /\ SaidIn(r, a, d + 1) = SaidIn(r, a, d) \o Word(r, d + 1)
        /\ SaidIn(r, b, d + 1) = SaidIn(r, b, d) \o Word(r, d + 1)
    BY <2>2, SaidInMore
  <2>5. /\ SaidIn(r, a, b) \in Seq(Int) /\ SaidIn(r, b, d) \in Seq(Int)
        /\ Word(r, d + 1) \in Seq(Int)
    <3>1. d + 1 \in Nat
      BY <2>2
    <3> QED  BY <2>2, <3>1, SaidInType, WordIn
  <2> DEFINE x == SaidIn(r, a, b)
             y == SaidIn(r, b, d)
             w == Word(r, d + 1)
  <2>6. SaidIn(r, a, d + 1) = (x \o y) \o w /\ SaidIn(r, b, d + 1) = y \o w
    BY <2>3, <2>4
  <2>8. x \in Seq(Int) /\ y \in Seq(Int) /\ w \in Seq(Int)
    BY <2>5
  <2>7. SaidIn(r, a, d + 1) = x \o SaidIn(r, b, d + 1)
    <3> HIDE DEF x, y, w
    <3>1. (x \o y) \o w = x \o (y \o w)
      BY <2>8, Regrouped
    <3> QED  BY <2>6, <3>1
  <2>9. SaidIn(r, a, b + (n + 1)) = SaidIn(r, a, b) \o SaidIn(r, b, b + (n + 1))
    <3> HIDE DEF T, w, y
    <3> QED  BY <2>2, <2>7
  <2>10. n + 1 \in Nat
    OBVIOUS
  <2> HIDE DEF x, y, w
  <2> QED  BY <2>9, <2>10
<1>3. \A n \in Nat : n \in T
  <2> HIDE DEF T
  <2> QED  BY <1>1, <1>2, NaturalsReached
<1>4. c - b \in Nat /\ b + (c - b) = c
  OBVIOUS
<1>5. c - b \in T
  BY <1>3, <1>4
<1> QED  BY <1>4, <1>5

LEMMA SaidInSame ==
    ASSUME NEW r, NEW r2, NEW a \in Nat, NEW b \in Nat,
           \A n \in a + 1..b : Word(r, n) = Word(r2, n)
    PROVE  SaidIn(r, a, b) = SaidIn(r2, a, b)
<1>1. \A j \in 1..b - a : a + j \in a + 1..b
  OBVIOUS
<1>2. \A j \in 1..b - a : Word(r, a + j) = Word(r2, a + j)
  BY <1>1
<1>3. [j \in 1..b - a |-> Word(r, a + j)] = [j \in 1..b - a |-> Word(r2, a + j)]
  BY <1>2
<1> QED  BY <1>3 DEF SaidIn

-----------------------------------------------------------------------------
(* What may be read of a set of sentences, for the words of Grammar.          *)

Reads(A, r, a, b) == b - a <= MaxTokens => SubSeq(r, a + 1, b) \in A

LEMMA PieceJoin ==
    ASSUME NEW S, NEW r \in Seq(S), NEW a \in 0..Len(r), NEW b \in 0..Len(r), NEW c \in 0..Len(r),
           a <= b, b <= c
    PROVE  /\ SubSeq(r, a + 1, b) \o SubSeq(r, b + 1, c) = SubSeq(r, a + 1, c)
           /\ SubSeq(r, a + 1, c) \in Seq(S) /\ Len(SubSeq(r, a + 1, c)) = c - a
<1> DEFINE s == SubSeq(r, a + 1, b)
           t == SubSeq(r, b + 1, c)
           u == SubSeq(r, a + 1, c)
<1>1. /\ s \in Seq(S) /\ Len(s) = b - a /\ \A i \in 1..b - a : s[i] = r[a + i]
      /\ t \in Seq(S) /\ Len(t) = c - b /\ \A i \in 1..c - b : t[i] = r[b + i]
      /\ u \in Seq(S) /\ Len(u) = c - a /\ \A i \in 1..c - a : u[i] = r[a + i]
  OBVIOUS
<1> HIDE DEF s, t, u
<1>5. /\ s \o t \in Seq(S) /\ Len(s \o t) = Len(s) + Len(t)
      /\ \A i \in 1..Len(s) : (s \o t)[i] = s[i]
      /\ \A j \in 1..Len(t) : (s \o t)[Len(s) + j] = t[j]
  <2>1. s \in Seq(S) /\ t \in Seq(S)
    BY <1>1
  <2> QED  BY <2>1, ConcatFacts
<1>6. a \in Nat /\ b \in Nat /\ c \in Nat
  OBVIOUS
<1>2. Len(s \o t) = c - a
  BY <1>1, <1>5, <1>6
<1>3. ASSUME NEW i \in 1..c - a PROVE (s \o t)[i] = u[i]
  <2>1. CASE i <= b - a
    <3>1. i \in 1..Len(s) /\ i \in 1..b - a
      BY <1>1, <1>6, <2>1
    <3>2. (s \o t)[i] = s[i] /\ s[i] = r[a + i] /\ u[i] = r[a + i]
      BY <1>1, <1>5, <3>1
    <3> QED  BY <3>2
  <2>2. CASE ~(i <= b - a)
    <3>1. PICK j : j = i - (b - a)
      OBVIOUS
    <3>2. j \in 1..c - b /\ i = Len(s) + j /\ b + j = a + i /\ j \in 1..Len(t)
      BY <1>1, <1>6, <2>2, <3>1
    <3>3. (s \o t)[i] = t[j]
      BY <1>5, <3>2
    <3>4. t[j] = r[b + j] /\ u[i] = r[a + i]
      BY <1>1, <3>2
    <3> QED  BY <3>2, <3>3, <3>4
  <2> QED  BY <2>1, <2>2
<1>4. s \o t = u
  <2>1. s \o t \in Seq(S) /\ u \in Seq(S) /\ Len(s \o t) = Len(u)
    BY <1>1, <1>2, <1>5
  <2>2. \A i \in 1..Len(u) : (s \o t)[i] = u[i]
    BY <1>1, <1>3
  <2> DEFINE v == s \o t
  <2>3. v \in Seq(S) /\ Len(v) = Len(u) /\ \A i \in 1..Len(u) : v[i] = u[i]
    BY <2>1, <2>2
  <2> HIDE DEF v
  <2>5. u \in Seq(S)
    BY <2>1
  <2>4. v = u
    BY <2>3, <2>5, SameSeq
  <2> QED  BY <2>4 DEF v
<1> QED  BY <1>1, <1>4 DEF s, t, u

LEMMA CatHas ==
    ASSUME NEW A, NEW B, NEW x \in A, NEW y \in B, Len(x \o y) <= MaxTokens
    PROVE  x \o y \in Cat(A, B)
BY DEF Cat, Short

LEMMA CatParts == ASSUME NEW A, NEW B, NEW z \in Cat(A, B) PROVE \E x \in A, y \in B : z = x \o y
BY DEF Cat, Short

LEMMA ReadsCat ==
    ASSUME NEW S, NEW r \in Seq(S), NEW a \in 0..Len(r), NEW b \in 0..Len(r), NEW c \in 0..Len(r),
           a <= b, b <= c, NEW A, NEW B, Reads(A, r, a, b), Reads(B, r, b, c)
    PROVE  Reads(Cat(A, B), r, a, c)
<1> SUFFICES ASSUME c - a <= MaxTokens PROVE SubSeq(r, a + 1, c) \in Cat(A, B)
  BY DEF Reads
<1> DEFINE s == SubSeq(r, a + 1, b)
           t == SubSeq(r, b + 1, c)
<1>1. b - a <= MaxTokens /\ c - b <= MaxTokens
  BY GrammarAssumption
<1>2. s \in A /\ t \in B
  BY <1>1 DEF Reads
<1>3. s \o t = SubSeq(r, a + 1, c) /\ Len(SubSeq(r, a + 1, c)) = c - a
  BY PieceJoin
<1> HIDE DEF s, t
<1> QED  BY <1>2, <1>3, CatHas

LEMMA ReadsOne ==
    ASSUME NEW S, NEW r \in Seq(S), NEW b \in 1..Len(r)
    PROVE  Reads(One(r[b]), r, b - 1, b)
<1> DEFINE s == SubSeq(r, b, b)
<1>2. s \in Seq(S) /\ Len(s) = 1 /\ s[1] = r[b]
  OBVIOUS
<1>3. (b - 1) + 1 = b
  OBVIOUS
<1> HIDE DEF s
<1>4. s = <<r[b]>>
  BY <1>2
<1>1. SubSeq(r, (b - 1) + 1, b) = <<r[b]>>
  BY <1>3, <1>4 DEF s
<1> QED  BY <1>1 DEF Reads, One

LEMMA ReadsNone == ASSUME NEW S, NEW r \in Seq(S), NEW a \in 0..Len(r) PROVE Reads({<< >>}, r, a, a)
<1>1. SubSeq(r, a + 1, a) = << >>
  OBVIOUS
<1> QED  BY <1>1 DEF Reads

LEMMA ReadsMore ==
    ASSUME NEW A, NEW B, A \subseteq B, NEW r, NEW a, NEW b, Reads(A, r, a, b) PROVE Reads(B, r, a, b)
BY DEF Reads

-----------------------------------------------------------------------------
(* One or more of a set of sentences.                                         *)

Repeating(A, K, f) == f = [n \in 1..K |-> IF n = 1 THEN A ELSE Cat(f[n - 1], A)]

LEMMA RepeatingExists ==
    ASSUME NEW A
    PROVE  \A K \in Nat : \E f : Repeating(A, K, f)
<1> DEFINE T == {K \in Nat : \E f : Repeating(A, K, f)}
<1>1. 0 \in T
  <2> DEFINE f == [n \in 1..0 |-> A]
  <2>1. Repeating(A, 0, f)
    BY DEF Repeating
  <2> QED  BY <2>1
<1>2. ASSUME NEW K \in Nat, K \in T
      PROVE  K + 1 \in T
  <2>1. PICK h : Repeating(A, K, h)
    BY <1>2
  <2> DEFINE next(n) == Cat(h[n - 1], A)
             f == [n \in 1..K + 1 |-> IF n = 1 THEN A ELSE next(n)]
  <2>2. \A n \in 1..K : h[n] = IF n = 1 THEN A ELSE next(n)
    BY <2>1 DEF Repeating
  <2>3. \A n \in 1..K : f[n] = h[n]
    <3> HIDE DEF next
    <3> QED  BY <2>2
  <2>4. ASSUME NEW n \in 1..K + 1
        PROVE  f[n] = IF n = 1 THEN A ELSE Cat(f[n - 1], A)
    <3>1. CASE n = 1
      BY <3>1
    <3>2. CASE n # 1
      <4>1. n - 1 \in 1..K
        BY <3>2
      <4>2. f[n - 1] = h[n - 1]
        BY <2>3, <4>1
      <4>3. f[n] = next(n)
        <5> HIDE DEF next
        <5> QED  BY <3>2
      <4> HIDE DEF f
      <4> QED  BY <3>2, <4>2, <4>3
    <3> QED  BY <3>1, <3>2
  <2>5. Repeating(A, K + 1, f)
    <3>1. f = [n \in 1..K + 1 |-> f[n]]
      OBVIOUS
    <3> HIDE DEF f
    <3> QED  BY <2>4, <3>1 DEF Repeating
  <2> HIDE DEF f
  <2> QED  BY <2>5
<1> HIDE DEF T
<1>3. \A K \in Nat : K \in T
  BY <1>1, <1>2, NaturalsReached
<1> QED  BY <1>3 DEF T

LEMMA PlusIs ==
    ASSUME NEW A
    PROVE  \E f : /\ Plus(A) = UNION {f[n] : n \in 1..MaxTokens}
                  /\ \A n \in 1..MaxTokens : f[n] = IF n = 1 THEN A ELSE Cat(f[n - 1], A)
<1> DEFINE f == CHOOSE f : Repeating(A, MaxTokens, f)
<1>1. Repeating(A, MaxTokens, f)
  BY RepeatingExists, GrammarAssumption
<1>2. Plus(A) = UNION {f[n] : n \in 1..MaxTokens}
  BY DEF Plus, Repeating
<1> HIDE DEF f
<1>3. \A n \in 1..MaxTokens : f[n] = IF n = 1 THEN A ELSE Cat(f[n - 1], A)
  BY <1>1 DEF Repeating
<1> QED  BY <1>2, <1>3

(* Sets of sentences, and those that have not the empty one.                  *)
Sentences == SUBSET Seq(Terminal)
Proper    == SUBSET (Seq(Terminal) \ {<< >>})

LEMMA CatSentences ==
    ASSUME NEW A \in Sentences, NEW B \in Sentences
    PROVE  /\ Cat(A, B) \in Sentences
           /\ A \in Proper \/ B \in Proper => Cat(A, B) \in Proper
<1>1. ASSUME NEW z \in Cat(A, B)
      PROVE  \E x \in A, y \in B : z = x \o y
  BY CatParts
<1>2. ASSUME NEW x \in A, NEW y \in B
      PROVE  /\ x \o y \in Seq(Terminal)
             /\ x # << >> \/ y # << >> => x \o y # << >>
  <2>1. x \in Seq(Terminal) /\ y \in Seq(Terminal)
    BY DEF Sentences
  <2> QED  BY <2>1
<1>3. Cat(A, B) \in Sentences
  <2> SUFFICES ASSUME NEW z \in Cat(A, B) PROVE z \in Seq(Terminal)
    BY DEF Sentences
  <2>1. PICK x \in A, y \in B : z = x \o y
    BY <1>1
  <2> QED  BY <1>2, <2>1
<1>4. ASSUME A \in Proper \/ B \in Proper PROVE Cat(A, B) \in Proper
  <2> SUFFICES ASSUME NEW z \in Cat(A, B) PROVE z \in Seq(Terminal) /\ z # << >>
    BY DEF Proper
  <2>1. PICK x \in A, y \in B : z = x \o y
    BY <1>1
  <2>2. x # << >> \/ y # << >>
    BY <1>4 DEF Proper
  <2> QED  BY <1>2, <2>1, <2>2
<1> QED  BY <1>3, <1>4

LEMMA PlusFacts ==
    ASSUME NEW A \in Proper
    PROVE  /\ Plus(A) \in Proper
           /\ MaxTokens # 0 => A \subseteq Plus(A)
           /\ \A x \in Plus(A), y \in A : Len(x \o y) <= MaxTokens => x \o y \in Plus(A)
<1>1. PICK f : /\ Plus(A) = UNION {f[n] : n \in 1..MaxTokens}
               /\ \A n \in 1..MaxTokens : f[n] = IF n = 1 THEN A ELSE Cat(f[n - 1], A)
  BY PlusIs
<1> DEFINE T == {n \in Nat : n + 1 <= MaxTokens =>
                     \A x \in f[n + 1] : x \in Seq(Terminal) /\ Len(x) >= n + 1}
<1>2. \A x \in A : x \in Seq(Terminal) /\ Len(x) >= 1
  BY DEF Proper
<1>3. 0 \in T
  <2> SUFFICES ASSUME 0 + 1 <= MaxTokens, NEW x \in f[1] PROVE x \in Seq(Terminal) /\ Len(x) >= 1
    OBVIOUS
  <2>1. f[1] = A
    <3>1. 1 \in 1..MaxTokens
      BY GrammarAssumption
    <3> QED  BY <1>1, <3>1
  <2> QED  BY <1>2, <2>1
<1>4. ASSUME NEW n \in Nat, n \in T PROVE n + 1 \in T
  <2> SUFFICES ASSUME (n + 1) + 1 <= MaxTokens, NEW z \in f[(n + 1) + 1]
               PROVE  z \in Seq(Terminal) /\ Len(z) >= (n + 1) + 1
    OBVIOUS
  <2>1. PICK m : m = (n + 1) + 1
    OBVIOUS
  <2>2. m \in 1..MaxTokens /\ m # 1 /\ m - 1 = n + 1
    BY <2>1, GrammarAssumption
  <2>3. f[m] = Cat(f[n + 1], A)
    BY <1>1, <2>2
  <2>9. z \in Cat(f[n + 1], A)
    BY <2>1, <2>3
  <2>4. PICK x \in f[n + 1], y \in A : z = x \o y
    <3> DEFINE F == f[n + 1]
    <3>1. z \in Cat(F, A)
      BY <2>9
    <3> HIDE DEF F
    <3>2. \E x \in F, y \in A : z = x \o y
      BY <3>1, CatParts
    <3> QED  BY <3>2 DEF F
  <2>10. n + 1 <= MaxTokens
    BY GrammarAssumption
  <2>5. x \in Seq(Terminal) /\ Len(x) >= n + 1 /\ y \in Seq(Terminal) /\ Len(y) >= 1
    BY <1>2, <1>4, <2>10
  <2>6. x \o y \in Seq(Terminal) /\ Len(x \o y) = Len(x) + Len(y)
    BY <2>5, ConcatFacts
  <2> QED  BY <2>4, <2>5, <2>6
<1>5. \A n \in Nat : n \in T
  <2> HIDE DEF T
  <2> QED  BY <1>3, <1>4, NaturalsReached
<1>6. ASSUME NEW n \in 1..MaxTokens, NEW x \in f[n] PROVE x \in Seq(Terminal) /\ Len(x) >= n
  <2>1. n - 1 \in T /\ (n - 1) + 1 = n
    BY <1>5
  <2> QED  BY <2>1, GrammarAssumption
<1> HIDE DEF T
<1>7. Plus(A) \in Proper
  <2> SUFFICES ASSUME NEW x \in Plus(A) PROVE x \in Seq(Terminal) /\ x # << >>
    BY DEF Proper
  <2>1. PICK n \in 1..MaxTokens : x \in f[n]
    BY <1>1
  <2>2. x \in Seq(Terminal) /\ Len(x) >= n
    BY <1>6, <2>1
  <2> QED  BY <2>2
<1>8. ASSUME MaxTokens # 0 PROVE A \subseteq Plus(A)
  <2>1. 1 \in 1..MaxTokens
    BY <1>8, GrammarAssumption
  <2>2. f[1] = A
    BY <1>1, <2>1
  <2> QED  BY <1>1, <2>1, <2>2
<1>9. ASSUME NEW x \in Plus(A), NEW y \in A, Len(x \o y) <= MaxTokens PROVE x \o y \in Plus(A)
  <2>1. PICK n \in 1..MaxTokens : x \in f[n]
    BY <1>1
  <2>2. x \in Seq(Terminal) /\ Len(x) >= n /\ y \in Seq(Terminal) /\ Len(y) >= 1
    BY <1>2, <1>6, <2>1
  <2>3. Len(x \o y) = Len(x) + Len(y)
    BY <2>2, ConcatFacts
  <2>4. n + 1 <= MaxTokens
    BY <1>9, <2>2, <2>3, GrammarAssumption
  <2>5. PICK m : m = n + 1
    OBVIOUS
  <2>6. m \in 1..MaxTokens /\ m # 1 /\ m - 1 = n
    BY <2>4, <2>5
  <2>7. f[m] = Cat(f[n], A)
    BY <1>1, <2>6
  <2>8. x \o y \in f[m]
    BY <1>9, <2>1, <2>7, CatHas
  <2> QED  BY <1>1, <2>6, <2>8
<1> QED  BY <1>7, <1>8, <1>9

LEMMA ReadsPlus ==
    ASSUME NEW S, NEW r \in Seq(S), NEW a \in 0..Len(r), NEW b \in 0..Len(r), NEW c \in 0..Len(r),
           a <= b, b < c, NEW A \in Proper, Reads(A, r, b, c)
    PROVE  /\ a = b => Reads(Plus(A), r, a, c)
           /\ Reads(Plus(A), r, a, b) => Reads(Plus(A), r, a, c)
<1>1. ASSUME a = b PROVE Reads(Plus(A), r, a, c)
  <2> SUFFICES ASSUME c - a <= MaxTokens PROVE SubSeq(r, a + 1, c) \in Plus(A)
    BY DEF Reads
  <2>1. MaxTokens # 0
    BY GrammarAssumption
  <2>2. SubSeq(r, a + 1, c) \in A
    BY <1>1 DEF Reads
  <2> QED  BY <2>1, <2>2, PlusFacts
<1>2. ASSUME Reads(Plus(A), r, a, b) PROVE Reads(Plus(A), r, a, c)
  <2> SUFFICES ASSUME c - a <= MaxTokens PROVE SubSeq(r, a + 1, c) \in Plus(A)
    BY DEF Reads
  <2> DEFINE s == SubSeq(r, a + 1, b)
             t == SubSeq(r, b + 1, c)
  <2>1. b - a <= MaxTokens /\ c - b <= MaxTokens
    BY GrammarAssumption
  <2>2. s \in Plus(A) /\ t \in A
    BY <1>2, <2>1 DEF Reads
  <2>3. s \o t = SubSeq(r, a + 1, c) /\ Len(SubSeq(r, a + 1, c)) = c - a
    BY PieceJoin
  <2> HIDE DEF s, t
  <2> QED  BY <2>2, <2>3, PlusFacts
<1> QED  BY <1>1, <1>2

(* The rules that are repeated derive no empty sentence.                      *)
LEMMA GrammarSets == Attr \in Proper /\ EdgeRHS \in Proper /\ TopLevelStmt \in Proper
<1>1. ASSUME NEW t \in Terminal PROVE One(t) \in Proper
  <2>1. <<t>> \in Seq(Terminal) /\ <<t>> # << >>
    OBVIOUS
  <2> QED  BY <2>1 DEF One, Proper
<1>2. Proper \subseteq Sentences
  BY DEF Proper, Sentences
<1>3. {<< >>} \in Sentences
  BY DEF Sentences
<1>4. \A A, B \in Sentences : A \cup B \in Sentences
  BY DEF Sentences
<1>5. \A A, B \in Proper : A \cup B \in Proper
  BY DEF Proper
<1>6. OptSep \in Sentences /\ OptAttrSep \in Sentences
  BY <1>1, <1>2, <1>3, <1>4, TokenSets DEF OptSep, OptAttrSep
<1>7. AttrVal \in Proper
  BY <1>1, <1>5, TokenSets DEF AttrVal
<1>8. Attr \in Proper
  <2>1. Cat(AttrVal, OptAttrSep) \in Sentences
    BY <1>2, <1>6, <1>7, CatSentences
  <2>2. Cat(One("="), Cat(AttrVal, OptAttrSep)) \in Sentences
    BY <1>1, <1>2, <2>1, TokenSets, CatSentences
  <2> QED  BY <1>1, <1>2, <2>2, TokenSets, CatSentences DEF Attr, Cat3
<1>9. AttrItems \in Proper
  BY <1>8, PlusFacts DEF AttrItems
<1>10. TypeAndAttrs \in Sentences
  <2>1. {<< >>} \cup AttrItems \in Sentences
    BY <1>2, <1>3, <1>4, <1>9
  <2>2. Cat(OptSep, {<< >>} \cup AttrItems) \in Sentences
    BY <1>6, <2>1, CatSentences
  <2>3. Cat(One("id"), Cat(OptSep, {<< >>} \cup AttrItems)) \in Sentences
    BY <1>1, <1>2, <2>2, TokenSets, CatSentences
  <2> QED  BY <1>4, <2>1, <2>3 DEF TypeAndAttrs, Cat3
<1>11. NodeDecl \in Proper
  <2>1. Cat(TypeAndAttrs, One("]")) \in Sentences
    BY <1>1, <1>2, <1>10, TokenSets, CatSentences
  <2>2. Cat(One("["), Cat(TypeAndAttrs, One("]"))) \in Sentences
    BY <1>1, <1>2, <2>1, TokenSets, CatSentences
  <2>3. Cat(One("id"), Cat(One("["), Cat(TypeAndAttrs, One("]")))) \in Proper
    BY <1>1, <1>2, <2>2, TokenSets, CatSentences
  <2> QED  BY <1>1, <1>5, <2>3, TokenSets DEF NodeDecl, Cat3
<1>12. EdgeRHS \in Proper
  <2>1. Cat(TypeAndAttrs, One("edge_attr_close")) \in Sentences
    BY <1>1, <1>2, <1>10, TokenSets, CatSentences
  <2>2. Cat(One("edge_attr_open"), Cat(TypeAndAttrs, One("edge_attr_close"))) \in Sentences
    BY <1>1, <1>2, <2>1, TokenSets, CatSentences
  <2>3. One("edgearrow") \cup Cat3(One("edge_attr_open"), TypeAndAttrs, One("edge_attr_close"))
           \in Sentences
    BY <1>1, <1>2, <1>4, <2>2, TokenSets DEF Cat3
  <2> QED  BY <1>1, <1>2, <2>3, TokenSets, CatSentences DEF EdgeRHS
<1>13. EdgeDecl \in Proper
  <2>1. Plus(EdgeRHS) \in Sentences
    BY <1>2, <1>12, PlusFacts
  <2> QED  BY <1>1, <1>2, <2>1, TokenSets, CatSentences DEF EdgeDecl
<1>14. TopLevelStmt \in Proper
  <2>1. EdgeDecl \cup NodeDecl \in Proper
    BY <1>5, <1>11, <1>13
  <2> QED  BY <1>2, <1>6, <2>1, CatSentences DEF TopLevelStmt
<1> QED  BY <1>8, <1>12, <1>14

-----------------------------------------------------------------------------
(* What the parts of an AST say.                                              *)

Summed(y, s) == Joined([j \in 1..Len(s) |-> y[s[j]]])

LEMMA SummedFacts ==
    ASSUME NEW S, NEW y \in [S -> Seq(Int)]
    PROVE  /\ \A s \in Seq(S) : Summed(y, s) \in Seq(Int)
           /\ Summed(y, << >>) = << >>
           /\ \A s \in Seq(S), e \in S : Summed(y, Append(s, e)) = Summed(y, s) \o y[e]
           /\ \A e \in S : Summed(y, <<e>>) = y[e]
<1>1. ASSUME NEW s \in Seq(S) PROVE Summed(y, s) \in Seq(Int)
  <2> DEFINE p == [j \in 1..Len(s) |-> y[s[j]]]
  <2>1. Len(s) \in Nat /\ \A j \in 1..Len(s) : y[s[j]] \in Seq(Int)
    OBVIOUS
  <2>2. p \in Seq(Seq(Int))
    BY <2>1
  <2> HIDE DEF p
  <2>3. Joined(p) \in Seq(Int)
    BY <2>2, JoinedIn
  <2> QED  BY <2>3 DEF Summed, p
<1>2. Summed(y, << >>) = << >>
  <2> DEFINE p == [j \in 1..Len(<< >>) |-> y[<< >>[j]]]
  <2>1. Len(p) = 0
    OBVIOUS
  <2> HIDE DEF p
  <2>2. Joined(p) = << >>
    BY <2>1, JoinedNone
  <2> QED  BY <2>2 DEF Summed, p
<1>3. ASSUME NEW s \in Seq(S), NEW e \in S
      PROVE  /\ Summed(y, Append(s, e)) = Summed(y, s) \o y[e]
             /\ s = << >> => Summed(y, Append(s, e)) = y[e]
  <2>1. PICK t : t = Append(s, e)
    OBVIOUS
  <2>2. PICK K : K = Len(s)
    OBVIOUS
  <2>3. K \in Nat /\ Len(t) = K + 1 /\ (\A j \in 1..K : t[j] = s[j]) /\ t[K + 1] = e
    BY <2>1, <2>2, AppendFacts
  <2> DEFINE p == [j \in 1..Len(s) |-> y[s[j]]]
             q == [j \in 1..Len(t) |-> y[t[j]]]
  <2>4. Len(p) = K /\ Len(q) = K + 1
    BY <2>2, <2>3
  <2>5. ASSUME NEW j \in 1..K PROVE q[j] = p[j]
    <3>1. j \in 1..Len(t) /\ j \in 1..Len(s)
      BY <2>2, <2>3
    <3> QED  BY <2>3, <3>1
  <2>6. q[K + 1] = y[e]
    BY <2>3
  <2>7. y[e] \in Seq(Int)
    OBVIOUS
  <2>8. Summed(y, s) = Joined(p) /\ Summed(y, t) = Joined(q)
    BY DEF Summed
  <2> HIDE DEF p, q
  <2>9. /\ Joined(q) = Joined(p) \o y[e]
        /\ K = 0 => Joined(q) = y[e]
    <3> DEFINE w == y[e]
    <3>1. w \in Seq(Int) /\ q[K + 1] = w
      BY <2>6, <2>7
    <3> HIDE DEF w
    <3>2. Joined(q) = Joined(p) \o w
      BY <2>3, <2>4, <2>5, <3>1, JoinedMore
    <3>3. K = 0 => Joined(p) = << >>
      BY <2>4, JoinedNone
    <3>4. << >> \o w = w
      BY <3>1
    <3> QED  BY <3>2, <3>3, <3>4 DEF w
  <2>10. s = << >> => K = 0
    BY <2>2
  <2> QED  BY <2>1, <2>8, <2>9, <2>10
<1>4. ASSUME NEW e \in S PROVE Summed(y, <<e>>) = y[e]
  <2>1. Append(<< >>, e) = <<e>> /\ << >> \in Seq(S)
    OBVIOUS
  <2> QED  BY <1>3, <2>1
<1> QED  BY <1>1, <1>2, <1>3, <1>4

LEMMA AttrYields ==
    /\ \A at \in AttrP : AttrYield(at) \in Seq(Int)
    /\ AttrsYield(<< >>) = << >>
    /\ \A s \in Seq(AttrP) : AttrsYield(s) \in Seq(Int)
    /\ \A s \in Seq(AttrP), at \in AttrP : AttrsYield(Append(s, at)) = AttrsYield(s) \o AttrYield(at)
    /\ \A at \in AttrP : AttrsYield(<<at>>) = AttrYield(at)
<1>1. ASSUME NEW at \in AttrP PROVE AttrYield(at) \in Seq(Int)
  <2>1. at.key \in Int /\ at.value \in Int
    BY DEF AttrP
  <2> QED  BY <2>1 DEF AttrYield
<1> DEFINE y == [at \in AttrP |-> AttrYield(at)]
<1>2. y \in [AttrP -> Seq(Int)] /\ \A at \in AttrP : y[at] = AttrYield(at)
  BY <1>1
<1> HIDE DEF y
<1>3. ASSUME NEW s \in Seq(AttrP) PROVE AttrsYield(s) = Summed(y, s)
  <2>1. \A j \in 1..Len(s) : s[j] \in AttrP
    OBVIOUS
  <2>2. [j \in 1..Len(s) |-> AttrYield(s[j])] = [j \in 1..Len(s) |-> y[s[j]]]
    BY <1>2, <2>1
  <2> QED  BY <2>2 DEF Summed, AttrsYield
<1>4. << >> \in Seq(AttrP) /\ \A at \in AttrP : <<at>> \in Seq(AttrP)
  OBVIOUS
<1>5. \A s \in Seq(AttrP), at \in AttrP : Append(s, at) \in Seq(AttrP)
  OBVIOUS
<1>6. /\ \A s \in Seq(AttrP) : Summed(y, s) \in Seq(Int)
      /\ Summed(y, << >>) = << >>
      /\ \A s \in Seq(AttrP), at \in AttrP : Summed(y, Append(s, at)) = Summed(y, s) \o y[at]
      /\ \A at \in AttrP : Summed(y, <<at>>) = y[at]
  BY <1>2, SummedFacts
<1> QED  BY <1>1, <1>2, <1>3, <1>4, <1>5, <1>6

LEMMA TypeYields ==
    /\ \A t \in Nat : TypeYield(t) \in Seq(Int)
    /\ TypeYield(0) = << >> /\ \A t \in Nat \ {0} : TypeYield(t) = <<t>>
BY DEF TypeYield

StepsYield(steps) == Joined([j \in 1..Len(steps) |-> StepYield(steps[j])])
ItemsYield(items) == Joined([j \in 1..Len(items) |-> ItemYield(items[j])])
Item == NodeP \cup ChainP

LEMMA StepYields ==
    /\ \A st \in StepP : StepYield(st) \in Seq(Int)
    /\ StepsYield(<< >>) = << >>
    /\ \A s \in Seq(StepP) : StepsYield(s) \in Seq(Int)
    /\ \A s \in Seq(StepP), st \in StepP : StepsYield(Append(s, st)) = StepsYield(s) \o StepYield(st)
    /\ \A st \in StepP : StepsYield(<<st>>) = StepYield(st)
<1>1. ASSUME NEW st \in StepP PROVE StepYield(st) \in Seq(Int)
  <2>1. /\ st.pos \in Int /\ st.to \in Int /\ st.type \in Nat /\ st.attrs \in Seq(AttrP)
    BY DEF StepP
  <2>3. TypeYield(st.type) \in Seq(Int) /\ AttrsYield(st.attrs) \in Seq(Int)
    BY <2>1, TypeYields, AttrYields
  <2>2. <<st.pos>> \in Seq(Int) /\ <<st.to>> \in Seq(Int)
    BY <2>1
  <2> QED  BY <2>2, <2>3, Concats DEF StepYield
<1> DEFINE y == [st \in StepP |-> StepYield(st)]
<1>2. y \in [StepP -> Seq(Int)] /\ \A st \in StepP : y[st] = StepYield(st)
  BY <1>1
<1> HIDE DEF y
<1>3. ASSUME NEW s \in Seq(StepP) PROVE StepsYield(s) = Summed(y, s)
  <2>1. \A j \in 1..Len(s) : s[j] \in StepP
    OBVIOUS
  <2>2. [j \in 1..Len(s) |-> StepYield(s[j])] = [j \in 1..Len(s) |-> y[s[j]]]
    BY <1>2, <2>1
  <2> QED  BY <2>2 DEF Summed, StepsYield
<1>4. << >> \in Seq(StepP) /\ \A st \in StepP : <<st>> \in Seq(StepP)
  OBVIOUS
<1>5. \A s \in Seq(StepP), st \in StepP : Append(s, st) \in Seq(StepP)
  OBVIOUS
<1>6. /\ \A s \in Seq(StepP) : Summed(y, s) \in Seq(Int)
      /\ Summed(y, << >>) = << >>
      /\ \A s \in Seq(StepP), st \in StepP : Summed(y, Append(s, st)) = Summed(y, s) \o y[st]
      /\ \A st \in StepP : Summed(y, <<st>>) = y[st]
  BY <1>2, SummedFacts
<1> QED  BY <1>1, <1>2, <1>3, <1>4, <1>5, <1>6

LEMMA ItemYields ==
    /\ \A it \in Item : ItemYield(it) \in Seq(Int)
    /\ ItemsYield(<< >>) = << >>
    /\ \A s \in Seq(Item) : ItemsYield(s) \in Seq(Int)
    /\ \A s \in Seq(Item), it \in Item : ItemsYield(Append(s, it)) = ItemsYield(s) \o ItemYield(it)
    /\ \A it \in Item : ItemsYield(<<it>>) = ItemYield(it)
<1>7. ASSUME NEW it \in NodeP PROVE ItemYield(it) \in Seq(Int)
  <2>1. it.tag = "Node" /\ it.id \in Int /\ it.type \in Nat /\ it.attrs \in Seq(AttrP)
    BY DEF NodeP
  <2>5. TypeYield(it.type) \in Seq(Int) /\ AttrsYield(it.attrs) \in Seq(Int)
    BY <2>1, TypeYields, AttrYields
  <2>2. <<it.id>> \in Seq(Int) /\ << >> \in Seq(Int) /\ <<-2>> \in Seq(Int)
    BY <2>1
  <2> DEFINE open == IF it.type = 0 /\ it.attrs = << >> THEN << >> ELSE <<-2>>
  <2>3. open \in Seq(Int)
    BY <2>2
  <2> HIDE DEF open
  <2>4. ItemYield(it) = <<it.id>> \o open \o TypeYield(it.type) \o AttrsYield(it.attrs)
    BY <2>1 DEF ItemYield, open
  <2> QED  BY <2>2, <2>3, <2>4, <2>5, Concats
<1>8. ASSUME NEW it \in ChainP PROVE ItemYield(it) \in Seq(Int)
  <2>1. it.tag = "EdgeChain" /\ it.from \in Int /\ it.steps \in Seq(StepP)
    BY DEF ChainP
  <2>2. <<it.from>> \in Seq(Int) /\ StepsYield(it.steps) \in Seq(Int)
    BY <2>1, StepYields
  <2>3. ItemYield(it) = <<it.from>> \o StepsYield(it.steps)
    BY <2>1 DEF ItemYield, StepsYield
  <2> QED  BY <2>2, <2>3, ConcatFacts
<1>1. ASSUME NEW it \in Item PROVE ItemYield(it) \in Seq(Int)
  BY <1>7, <1>8 DEF Item
<1> DEFINE y == [it \in Item |-> ItemYield(it)]
<1>2. y \in [Item -> Seq(Int)] /\ \A it \in Item : y[it] = ItemYield(it)
  BY <1>1
<1> HIDE DEF y
<1>3. ASSUME NEW s \in Seq(Item) PROVE ItemsYield(s) = Summed(y, s)
  <2>1. \A j \in 1..Len(s) : s[j] \in Item
    OBVIOUS
  <2>2. [j \in 1..Len(s) |-> ItemYield(s[j])] = [j \in 1..Len(s) |-> y[s[j]]]
    BY <1>2, <2>1
  <2> QED  BY <2>2 DEF Summed, ItemsYield
<1>4. << >> \in Seq(Item) /\ \A it \in Item : <<it>> \in Seq(Item)
  OBVIOUS
<1>5. \A s \in Seq(Item), it \in Item : Append(s, it) \in Seq(Item)
  OBVIOUS
<1>6. /\ \A s \in Seq(Item) : Summed(y, s) \in Seq(Int)
      /\ Summed(y, << >>) = << >>
      /\ \A s \in Seq(Item), it \in Item : Summed(y, Append(s, it)) = Summed(y, s) \o y[it]
      /\ \A it \in Item : Summed(y, <<it>>) = y[it]
  BY <1>2, SummedFacts
<1> QED  BY <1>1, <1>2, <1>3, <1>4, <1>5, <1>6

-----------------------------------------------------------------------------
(* What a product on the stack stands for: the tokens from one place of the   *)
(* text to another are a sentence of its symbol, and say what it says.        *)

Lang(X) ==
    CASE X = "WholeDoc" -> WholeDoc
      [] X = "TopLevelDeclList" -> TopLevelDeclList
      [] X = "TopLevelStmt" -> TopLevelStmt
      [] X = "NodeDecl" -> NodeDecl
      [] X = "EdgeDecl" -> EdgeDecl
      [] X = "EdgeRHS" -> EdgeRHS
      [] X = "OptSep" -> OptSep
      [] X = "OptAttrSep" -> OptAttrSep
      [] X = "AttrItems" -> AttrItems
      [] X = "Attr" -> Attr
      [] X = "AttrVal" -> AttrVal

Says(X, x) ==
    CASE X \in {"WholeDoc", "TopLevelDeclList"} -> ItemsYield(x.items)
      [] X \in {"TopLevelStmt", "NodeDecl", "EdgeDecl"} -> ItemYield(x)
      [] X = "EdgeRHS" -> StepYield(x)
      [] X = "AttrItems" -> AttrsYield(x.list)
      [] X = "Attr" -> AttrYield(x)
      [] X = "AttrVal" -> <<x.n>>
      [] X \in {"OptSep", "OptAttrSep"} -> << >>

Derived(r, a, b, X, x) ==
    /\ a <= b /\ (X \notin {"OptSep", "OptAttrSep", "WholeDoc"} => a < b)
    /\ a < b => r[b] # "["
    /\ SaidIn(r, a, b) = Says(X, x)
    /\ Reads(Lang(X), r, a, b)
    /\ X = "EdgeDecl" => Reads(Plus(EdgeRHS), r, a + 1, b)
    /\ X \in {"Attr", "AttrItems", "EdgeDecl"} => r[a + 1] = "id"
    /\ X = "AttrItems" => x.list # << >>

TokenAt(r, a, b, t, x) == b = a + 1 /\ r[b] = t /\ x.n = b

Span(r, a, b, X, x) == IF X \in Terminal THEN TokenAt(r, a, b, X, x) ELSE Derived(r, a, b, X, x)

LEMMA ThreeTokens ==
    ASSUME NEW S, NEW u \in S, NEW v \in S, NEW w \in S
    PROVE  /\ (<<u>> \o <<v>>) \o <<w>> = <<u, v, w>> /\ Append(<< >>, u) = <<u>>
           /\ \A s \in Seq(S) : Append(s, u) # << >>
<1>1. ASSUME NEW s \in Seq(S), NEW x \in S PROVE s \o <<x>> = Append(s, x)
  <2> DEFINE p == s \o <<x>>
             q == Append(s, x)
  <2>1. /\ p \in Seq(S) /\ Len(p) = Len(s) + 1 /\ (\A i \in 1..Len(s) : p[i] = s[i])
        /\ p[Len(s) + 1] = x
    <3>1. <<x>> \in Seq(S) /\ Len(<<x>>) = 1 /\ <<x>>[1] = x
      OBVIOUS
    <3> DEFINE t == <<x>>
    <3>2. t \in Seq(S) /\ Len(t) = 1 /\ t[1] = x
      BY <3>1
    <3> HIDE DEF t
    <3>3. /\ s \o t \in Seq(S) /\ Len(s \o t) = Len(s) + Len(t)
          /\ (\A i \in 1..Len(s) : (s \o t)[i] = s[i])
          /\ \A j \in 1..Len(t) : (s \o t)[Len(s) + j] = t[j]
      <4>1. t \in Seq(S)
        BY <3>2
      <4> QED  BY <4>1, ConcatFacts
    <3>4. 1 \in 1..Len(t)
      BY <3>2
    <3> QED  BY <3>2, <3>3, <3>4 DEF t
  <2>2. /\ q \in Seq(S) /\ Len(q) = Len(s) + 1 /\ (\A i \in 1..Len(s) : q[i] = s[i])
        /\ q[Len(s) + 1] = x
    BY AppendFacts
  <2>3. Len(s) \in Nat
    OBVIOUS
  <2> HIDE DEF p, q
  <2>4. \A i \in 1..Len(s) + 1 : i \in 1..Len(s) \/ i = Len(s) + 1
    BY <2>3
  <2>5. \A i \in 1..Len(s) + 1 : p[i] = q[i]
    BY <2>1, <2>2, <2>4
  <2>6. p = q
    BY <2>1, <2>2, <2>5
  <2> QED  BY <2>6 DEF p, q
<1>2. <<u>> \in Seq(S) /\ <<u, v>> \in Seq(S)
  OBVIOUS
<1>3. Append(<<u>>, v) = <<u, v>> /\ Append(<<u, v>>, w) = <<u, v, w>> /\ Append(<< >>, u) = <<u>>
  <2>1. Append(<<u>>, v) = <<u, v>>
    <3> DEFINE p == Append(<<u>>, v)
               q == <<u, v>>
    <3>1. /\ p \in Seq(S) /\ Len(p) = 2 /\ p[1] = u /\ p[2] = v
          /\ q \in Seq(S) /\ Len(q) = 2 /\ q[1] = u /\ q[2] = v
      OBVIOUS
    <3> HIDE DEF p, q
    <3>2. \A i \in 1..2 : i = 1 \/ i = 2
      OBVIOUS
    <3>3. \A i \in 1..2 : p[i] = q[i]
      BY <3>1, <3>2
    <3>4. p = q
      BY <3>1, <3>3
    <3> QED  BY <3>4 DEF p, q
  <2>2. Append(<<u, v>>, w) = <<u, v, w>>
    <3> DEFINE p == Append(<<u, v>>, w)
               q == <<u, v, w>>
    <3>1. /\ p \in Seq(S) /\ Len(p) = 3 /\ p[1] = u /\ p[2] = v /\ p[3] = w
          /\ q \in Seq(S) /\ Len(q) = 3 /\ q[1] = u /\ q[2] = v /\ q[3] = w
      OBVIOUS
    <3> HIDE DEF p, q
    <3>2. \A i \in 1..3 : i = 1 \/ i = 2 \/ i = 3
      OBVIOUS
    <3>3. \A i \in 1..3 : p[i] = q[i]
      BY <3>1, <3>2
    <3>4. p = q
      BY <3>1, <3>3
    <3> QED  BY <3>4 DEF p, q
  <2>3. Append(<< >>, u) = <<u>>
    OBVIOUS
  <2> QED  BY <2>1, <2>2, <2>3
<1>4. <<u>> \o <<v>> = Append(<<u>>, v)
  BY <1>1, <1>2
<1>5. <<u, v>> \o <<w>> = Append(<<u, v>>, w)
  BY <1>1, <1>2
<1>6. ASSUME NEW s \in Seq(S) PROVE Append(s, u) # << >>
  <2>1. Len(Append(s, u)) = Len(s) + 1 /\ Len(s) \in Nat
    BY AppendFacts
  <2>2. Len(Append(s, u)) # Len(<< >>)
    BY <2>1
  <2> QED  BY <2>2, Zenon
<1> QED  BY <1>3, <1>4, <1>5, <1>6

Silent == {";", ",", "]", "edge_attr_close"}
Spoken == {"id", "edgearrow", "edge_attr_open", "numeric_literal", "quoted_string"}

LEMMA TokenKinds ==
    /\ Silent \subseteq Terminal /\ Spoken \subseteq Terminal
    /\ ";" \in Silent /\ "," \in Silent /\ "]" \in Silent /\ "edge_attr_close" \in Silent
    /\ "id" \in Spoken /\ "edgearrow" \in Spoken /\ "edge_attr_open" \in Spoken
    /\ "numeric_literal" \in Spoken /\ "quoted_string" \in Spoken
BY TokenSets DEF Silent, Spoken

LEMMA LangFacts ==
    /\ Lang("WholeDoc") = WholeDoc /\ Lang("TopLevelDeclList") = TopLevelDeclList
    /\ Lang("TopLevelStmt") = TopLevelStmt /\ Lang("NodeDecl") = NodeDecl
    /\ Lang("EdgeDecl") = EdgeDecl /\ Lang("EdgeRHS") = EdgeRHS
    /\ Lang("OptSep") = OptSep /\ Lang("OptAttrSep") = OptAttrSep
    /\ Lang("AttrItems") = AttrItems /\ Lang("Attr") = Attr /\ Lang("AttrVal") = AttrVal
BY DEF Lang

LEMMA SaysFacts ==
    ASSUME NEW x
    PROVE  /\ Says("WholeDoc", x) = ItemsYield(x.items)
           /\ Says("TopLevelDeclList", x) = ItemsYield(x.items)
           /\ Says("TopLevelStmt", x) = ItemYield(x) /\ Says("NodeDecl", x) = ItemYield(x)
           /\ Says("EdgeDecl", x) = ItemYield(x) /\ Says("EdgeRHS", x) = StepYield(x)
           /\ Says("AttrItems", x) = AttrsYield(x.list) /\ Says("Attr", x) = AttrYield(x)
           /\ Says("AttrVal", x) = <<x.n>>
           /\ Says("OptSep", x) = << >> /\ Says("OptAttrSep", x) = << >>
BY DEF Says

(* Of the tokens of a text, the words are known, except that of an opening    *)
(* bracket, which depends on the token behind it.                            *)
LEMMA TokenFacts ==
    ASSUME NEW r \in Seq(Terminal), NEW a \in 0..Len(r), NEW b \in 0..Len(r), NEW t \in Terminal, NEW x, TokenAt(r, a, b, t, x)
    PROVE  /\ a < b /\ a <= b /\ b \in Nat \ {0} /\ b = a + 1 /\ r[b] = t /\ x.n = b
           /\ Reads(One(t), r, a, b)
<1>1. /\ a < b /\ a <= b /\ b \in Nat \ {0} /\ b = a + 1 /\ r[b] = t /\ x.n = b /\ b \in 1..Len(r)
      /\ b - 1 = a /\ a \in Nat
  BY DEF TokenAt
<1>2. Reads(One(t), r, a, b)
  <2>1. Reads(One(r[b]), r, b - 1, b)
    BY <1>1, ReadsOne
  <2> QED  BY <1>1, <2>1
<1> QED  BY <1>1, <1>2

LEMMA TokenWord ==
    ASSUME NEW r \in Seq(Terminal), NEW a \in 0..Len(r), NEW b \in 0..Len(r), NEW t \in Terminal, NEW x, TokenAt(r, a, b, t, x)
    PROVE  /\ t \in Silent => SaidIn(r, a, b) = << >>
           /\ t \in Spoken => SaidIn(r, a, b) = <<x.n>>
           /\ t = "=" => SaidIn(r, a, b) = <<-1>>
           /\ t = "[" => SaidIn(r, a, b) = IF r[b + 1] = "]" THEN << >> ELSE <<-2>>
<1>1. b \in Nat \ {0} /\ b = a + 1 /\ r[b] = t /\ x.n = b /\ a \in Nat /\ a <= a
  BY DEF TokenAt
<1>3. SaidIn(r, a, b) = Word(r, b)
  <2>1. SaidIn(r, a, a + 1) = SaidIn(r, a, a) \o Word(r, a + 1)
    BY <1>1, SaidInMore
  <2>2. SaidIn(r, a, a) = << >>
    BY <1>1, SaidInNone
  <2>3. Word(r, b) \in Seq(Int)
    BY <1>1, WordIn
  <2>4. SaidIn(r, a, b) = << >> \o Word(r, b)
    BY <1>1, <2>1, <2>2
  <2> DEFINE w == Word(r, b)
  <2>5. w \in Seq(Int) /\ SaidIn(r, a, b) = << >> \o w
    BY <2>3, <2>4
  <2> HIDE DEF w
  <2>6. << >> \o w = w
    BY <2>5
  <2> QED  BY <2>5, <2>6 DEF w
<1>4. t \in Silent => Word(r, b) = << >>
  BY <1>1 DEF Word, Silent
<1>5. t = "=" => Word(r, b) = <<-1>>
  BY <1>1 DEF Word
<1>6. t \in Spoken => Word(r, b) = <<b>>
  BY <1>1 DEF Word, Spoken
<1>7. t = "[" => Word(r, b) = IF r[b + 1] = "]" THEN << >> ELSE <<-2>>
  BY <1>1 DEF Word
<1> QED  BY <1>1, <1>3, <1>4, <1>5, <1>6, <1>7

(* Two neighbouring pieces of a text.                                        *)
LEMMA Neighbours ==
    ASSUME NEW r \in Seq(Terminal), NEW a \in 0..Len(r), NEW b \in 0..Len(r), NEW c \in 0..Len(r), a <= b, b <= c
    PROVE  /\ SaidIn(r, a, c) = SaidIn(r, a, b) \o SaidIn(r, b, c)
           /\ SaidIn(r, a, b) \in Seq(Int) /\ SaidIn(r, b, c) \in Seq(Int)
           /\ SaidIn(r, b, c) = << >> => SaidIn(r, a, c) = SaidIn(r, a, b)
           /\ \A A, B : Reads(A, r, a, b) /\ Reads(B, r, b, c) => Reads(Cat(A, B), r, a, c)
<1>1. a \in Nat /\ b \in Nat /\ c \in Nat
  OBVIOUS
<1>2. SaidIn(r, a, c) = SaidIn(r, a, b) \o SaidIn(r, b, c)
  BY <1>1, SaidInJoin
<1>3. SaidIn(r, a, b) \in Seq(Int) /\ SaidIn(r, b, c) \in Seq(Int)
  BY <1>1, SaidInType
<1>4. ASSUME SaidIn(r, b, c) = << >> PROVE SaidIn(r, a, c) = SaidIn(r, a, b)
  <2> DEFINE w == SaidIn(r, a, b)
  <2>1. w \in Seq(Int) /\ SaidIn(r, a, c) = w \o << >>
    BY <1>2, <1>3, <1>4
  <2> HIDE DEF w
  <2>2. w \o << >> = w
    BY <2>1
  <2> QED  BY <2>1, <2>2 DEF w
<1>5. ASSUME NEW A, NEW B, Reads(A, r, a, b), Reads(B, r, b, c) PROVE Reads(Cat(A, B), r, a, c)
  BY <1>5, ReadsCat
<1> QED  BY <1>2, <1>3, <1>4, <1>5

LEMMA NoSepSpan ==
    ASSUME NEW r \in Seq(Terminal), NEW a \in 0..Len(r)
    PROVE  /\ Derived(r, a, a, "OptSep", Nil) /\ Derived(r, a, a, "OptAttrSep", Nil)
           /\ Derived(r, a, a, "WholeDoc", NewGraph(Nil))
<1>1. Reads({<< >>}, r, a, a)
  BY ReadsNone
<1>2. Reads(OptSep, r, a, a) /\ Reads(OptAttrSep, r, a, a) /\ Reads(WholeDoc, r, a, a)
  BY <1>1, ReadsMore DEF OptSep, OptAttrSep, WholeDoc
<1>3. SaidIn(r, a, a) = << >>
  BY SaidInNone
<1>4. ItemsYield(NewGraph(Nil).items) = << >>
  <2>1. NewGraph(Nil).items = << >>
    BY DEF NewGraph
  <2> QED  BY <2>1, ItemYields
<1> QED  BY <1>2, <1>3, <1>4, LangFacts, SaysFacts DEF Derived

LEMMA SepSpan ==
    ASSUME NEW r \in Seq(Terminal), NEW a \in 0..Len(r), NEW b \in 0..Len(r), NEW x
    PROVE  /\ TokenAt(r, a, b, ";", x) => Derived(r, a, b, "OptSep", x)
           /\ TokenAt(r, a, b, ",", x) => Derived(r, a, b, "OptAttrSep", x)
<1>1. ASSUME TokenAt(r, a, b, ";", x) PROVE Derived(r, a, b, "OptSep", x)
  <2>1. a < b /\ a <= b /\ r[b] = ";" /\ Reads(One(";"), r, a, b) /\ SaidIn(r, a, b) = << >>
    BY <1>1, TokenFacts, TokenWord, TokenKinds, TokenSets
  <2>2. Reads(OptSep, r, a, b)
    BY <2>1, ReadsMore DEF OptSep
  <2> QED  BY <2>1, <2>2, LangFacts, SaysFacts DEF Derived
<1>2. ASSUME TokenAt(r, a, b, ",", x) PROVE Derived(r, a, b, "OptAttrSep", x)
  <2>1. a < b /\ a <= b /\ r[b] = "," /\ Reads(One(","), r, a, b) /\ SaidIn(r, a, b) = << >>
    BY <1>2, TokenFacts, TokenWord, TokenKinds, TokenSets
  <2>2. Reads(OptAttrSep, r, a, b)
    BY <2>1, ReadsMore DEF OptAttrSep
  <2> QED  BY <2>1, <2>2, LangFacts, SaysFacts DEF Derived
<1> QED  BY <1>1, <1>2

LEMMA ValSpan ==
    ASSUME NEW r \in Seq(Terminal), NEW a \in 0..Len(r), NEW b \in 0..Len(r), NEW t \in {"id", "numeric_literal", "quoted_string"}, NEW x, NEW v,
           TokenAt(r, a, b, t, x), v.n = x.n
    PROVE  Derived(r, a, b, "AttrVal", v)
<1>0. t \in Terminal /\ t \in Spoken
  BY TokenSets, TokenKinds
<1>3. a < b /\ a <= b /\ r[b] = t /\ Reads(One(t), r, a, b) /\ SaidIn(r, a, b) = <<x.n>>
  BY <1>0, TokenFacts, TokenWord
<1>1. /\ a < b /\ a <= b /\ r[b] = t /\ r[b] # "["
      /\ Reads(One(t), r, a, b) /\ SaidIn(r, a, b) = <<v.n>>
  BY <1>3
<1>2. Reads(AttrVal, r, a, b)
  BY <1>1, ReadsMore DEF AttrVal
<1> QED  BY <1>1, <1>2, LangFacts, SaysFacts DEF Derived

LEMMA AttrSpan ==
    ASSUME NEW r \in Seq(Terminal), NEW a \in 0..Len(r), NEW b \in 0..Len(r), NEW c \in 0..Len(r),
           NEW d \in 0..Len(r), NEW e \in 0..Len(r), NEW x, NEW y, NEW v, NEW z, NEW at,
           TokenAt(r, a, b, "id", x), TokenAt(r, b, c, "=", y),
           Derived(r, c, d, "AttrVal", v), Derived(r, d, e, "OptAttrSep", z),
           v.n \in Nat, at.key = x.n, at.value = v.n
    PROVE  Derived(r, a, e, "Attr", at)
<1>0. "id" \in Terminal /\ "id" \in Spoken /\ "=" \in Terminal
  BY TokenSets, TokenKinds
<1>10. a < b /\ r[b] = "id" /\ b = a + 1 /\ x.n = b /\ b \in Nat /\ Reads(One("id"), r, a, b)
  BY <1>0, TokenFacts
<1>11. SaidIn(r, a, b) = <<x.n>>
  BY <1>0, TokenWord
<1>1. /\ a < b /\ r[b] = "id" /\ b = a + 1 /\ x.n = b /\ b \in Nat
      /\ Reads(One("id"), r, a, b) /\ SaidIn(r, a, b) = <<x.n>>
  BY <1>10, <1>11
<1>12. b < c /\ Reads(One("="), r, b, c)
  BY <1>0, TokenFacts
<1>13. SaidIn(r, b, c) = <<-1>>
  BY <1>0, TokenWord
<1>2. /\ b < c /\ Reads(One("="), r, b, c) /\ SaidIn(r, b, c) = <<-1>>
  BY <1>12, <1>13
<1>3. /\ c < d /\ r[d] # "[" /\ Reads(AttrVal, r, c, d) /\ SaidIn(r, c, d) = <<v.n>>
  BY LangFacts, SaysFacts DEF Derived
<1>4. /\ d <= e /\ (d < e => r[e] # "[") /\ Reads(OptAttrSep, r, d, e) /\ SaidIn(r, d, e) = << >>
  BY LangFacts, SaysFacts DEF Derived
<1>5. a <= b /\ b <= c /\ c <= d /\ a <= c /\ a <= d /\ b <= d /\ b <= e /\ c <= e /\ a < e
  BY <1>1, <1>2, <1>3, <1>4
<1>6. Reads(Attr, r, a, e)
  <2>1. Reads(Cat(AttrVal, OptAttrSep), r, c, e)
    BY <1>3, <1>4, <1>5, Neighbours
  <2>2. Reads(Cat(One("="), Cat(AttrVal, OptAttrSep)), r, b, e)
    BY <1>2, <1>5, <2>1, Neighbours
  <2> QED  BY <1>1, <1>5, <2>2, Neighbours DEF Attr, Cat3
<1>7. SaidIn(r, a, e) = AttrYield(at)
  <2> DEFINE p == <<x.n>>
             m == <<-1>>
             q == <<v.n>>
  <2>1. SaidIn(r, a, b) = p /\ SaidIn(r, b, c) = m /\ SaidIn(r, c, d) = q
    BY <1>1, <1>2, <1>3
  <2>2. (p \o m) \o q = <<x.n, -1, v.n>>
    <3>1. x.n \in Int /\ -1 \in Int /\ v.n \in Int
      BY <1>1
    <3> QED  BY <3>1, ThreeTokens
  <2>3. AttrYield(at) = (p \o m) \o q
    BY <2>2 DEF AttrYield
  <2> HIDE DEF p, m, q
  <2>4. SaidIn(r, a, c) = p \o m
    BY <1>5, <2>1, Neighbours
  <2>5. SaidIn(r, a, d) = (p \o m) \o q
    <3>1. SaidIn(r, a, d) = SaidIn(r, a, c) \o SaidIn(r, c, d)
      BY <1>5, Neighbours
    <3> QED  BY <2>1, <2>4, <3>1
  <2>6. SaidIn(r, a, e) = SaidIn(r, a, d)
    BY <1>4, <1>5, Neighbours
  <2> QED  BY <2>3, <2>5, <2>6
<1>8. r[e] # "["
  BY <1>3, <1>4
<1> QED  BY <1>1, <1>5, <1>6, <1>7, <1>8, LangFacts, SaysFacts DEF Derived

LEMMA AttrItemsSpan ==
    ASSUME NEW r \in Seq(Terminal), NEW a \in 0..Len(r), NEW b \in 0..Len(r), NEW c \in 0..Len(r), NEW at \in AttrP, Derived(r, b, c, "Attr", at), a <= b
    PROVE  /\ a = b => Derived(r, a, c, "AttrItems", NewAttrs(at))
           /\ \A as \in AttrsP : Derived(r, a, b, "AttrItems", as) =>
                  Derived(r, a, c, "AttrItems", AddAttr(as, at))
<1>1. /\ b < c /\ r[c] # "[" /\ Reads(Attr, r, b, c) /\ SaidIn(r, b, c) = AttrYield(at)
      /\ r[b + 1] = "id"
  BY LangFacts, SaysFacts DEF Derived
<1>2. a < c /\ b <= c /\ a <= c
  BY <1>1
<1>3. ASSUME a = b PROVE Derived(r, a, c, "AttrItems", NewAttrs(at))
  <2>1. NewAttrs(at).list = <<at>>
    BY DEF NewAttrs, AttrP
  <2>2. NewAttrs(at).list # << >>
    BY <2>1
  <2>3. SaidIn(r, a, c) = AttrsYield(NewAttrs(at).list)
    BY <1>1, <1>3, <2>1, AttrYields
  <2>4. Reads(AttrItems, r, a, c)
    BY <1>1, <1>3, GrammarSets, ReadsPlus DEF AttrItems
  <2> QED  BY <1>1, <1>2, <1>3, <2>2, <2>3, <2>4, LangFacts, SaysFacts DEF Derived
<1>4. ASSUME NEW as \in AttrsP, Derived(r, a, b, "AttrItems", as)
      PROVE  Derived(r, a, c, "AttrItems", AddAttr(as, at))
  <2>0. as.list \in Seq(AttrP) /\ as.tag = "Attrs" /\ at.tag = "Attr"
    BY DEF AttrsP, AttrP
  <2>1. AddAttr(as, at).list = Append(as.list, at)
    BY <2>0 DEF AddAttr, AttrsP
  <2>2. Append(as.list, at) # << >>
    BY <2>0, ThreeTokens
  <2>3. /\ Reads(AttrItems, r, a, b) /\ SaidIn(r, a, b) = AttrsYield(as.list)
        /\ r[a + 1] = "id"
    BY <1>4, LangFacts, SaysFacts DEF Derived
  <2>4. SaidIn(r, a, c) = AttrsYield(Append(as.list, at))
    <3>1. SaidIn(r, a, c) = SaidIn(r, a, b) \o SaidIn(r, b, c)
      BY <1>2, Neighbours
    <3>2. AttrsYield(Append(as.list, at)) = AttrsYield(as.list) \o AttrYield(at)
      BY <2>0, AttrYields
    <3> QED  BY <1>1, <2>3, <3>1, <3>2
  <2>5. Reads(AttrItems, r, a, c)
    BY <1>1, <2>3, GrammarSets, ReadsPlus DEF AttrItems
  <2> QED  BY <1>1, <1>2, <2>1, <2>2, <2>3, <2>4, <2>5, LangFacts, SaysFacts DEF Derived
<1> QED  BY <1>3, <1>4

-----------------------------------------------------------------------------
(* What stands in brackets: a type, attributes, or both.                      *)

Content(r, a, b, ty, as) ==
    /\ a < b /\ r[a + 1] = "id" /\ r[b] # "["
    /\ ty \in Nat /\ as \in Seq(AttrP) /\ (ty # 0 \/ as # << >>)
    /\ SaidIn(r, a, b) = TypeYield(ty) \o AttrsYield(as)
    /\ Reads(TypeAndAttrs, r, a, b)

LEMMA ContentAttrs ==
    ASSUME NEW r \in Seq(Terminal), NEW a \in 0..Len(r), NEW b \in 0..Len(r), NEW as \in AttrsP,
           Derived(r, a, b, "AttrItems", as)
    PROVE  Content(r, a, b, 0, as.list)
<1>1. /\ a < b /\ r[b] # "[" /\ Reads(AttrItems, r, a, b) /\ SaidIn(r, a, b) = AttrsYield(as.list)
      /\ r[a + 1] = "id" /\ as.list # << >>
  BY LangFacts, SaysFacts DEF Derived
<1>2. as.list \in Seq(AttrP)
  BY DEF AttrsP
<1>3. Reads(TypeAndAttrs, r, a, b)
  BY <1>1, ReadsMore DEF TypeAndAttrs
<1>4. SaidIn(r, a, b) = TypeYield(0) \o AttrsYield(as.list)
  <2> DEFINE w == AttrsYield(as.list)
  <2>1. w \in Seq(Int) /\ SaidIn(r, a, b) = w /\ TypeYield(0) = << >>
    BY <1>1, <1>2, AttrYields, TypeYields
  <2>2. SaidIn(r, a, b) = << >> \o w
    <3> HIDE DEF w
    <3> QED  BY <2>1, ConcatAlgebra
  <2> QED  BY <2>1, <2>2
<1> QED  BY <1>1, <1>2, <1>3, <1>4 DEF Content

LEMMA ContentType ==
    ASSUME NEW r \in Seq(Terminal), NEW a \in 0..Len(r), NEW b \in 0..Len(r), NEW c \in 0..Len(r),
           NEW x, NEW z, TokenAt(r, a, b, "id", x), Derived(r, b, c, "OptSep", z)
    PROVE  /\ Content(r, a, c, x.n, << >>)
           /\ SaidIn(r, a, c) = TypeYield(x.n) /\ x.n \in Nat \ {0} /\ a < b /\ b <= c
           /\ r[a + 1] = "id" /\ r[c] # "["
           /\ Reads(One("id"), r, a, b) /\ Reads(OptSep, r, b, c)
<1>0. "id" \in Terminal /\ "id" \in Spoken
  BY TokenSets, TokenKinds
<1>1. a < b /\ r[b] = "id" /\ b = a + 1 /\ x.n = b /\ b \in Nat \ {0} /\ Reads(One("id"), r, a, b)
  BY <1>0, TokenFacts
<1>2. SaidIn(r, a, b) = <<x.n>>
  BY <1>0, TokenWord
<1>3. b <= c /\ (b < c => r[c] # "[") /\ Reads(OptSep, r, b, c) /\ SaidIn(r, b, c) = << >>
  BY LangFacts, SaysFacts DEF Derived
<1>4. a < c /\ a <= b /\ a <= c /\ c <= c
  BY <1>1, <1>3
<1>5. x.n \in Nat \ {0} /\ TypeYield(x.n) = <<x.n>>
  BY <1>1, TypeYields
<1>6. SaidIn(r, a, c) = TypeYield(x.n)
  <2>1. SaidIn(r, a, c) = SaidIn(r, a, b)
    BY <1>3, <1>4, Neighbours
  <2> QED  BY <1>2, <1>5, <2>1
<1>7. SaidIn(r, a, c) = TypeYield(x.n) \o AttrsYield(<< >>)
  <2> DEFINE w == TypeYield(x.n)
  <2>1. w \in Seq(Int) /\ SaidIn(r, a, c) = w /\ AttrsYield(<< >>) = << >>
    BY <1>5, <1>6, AttrYields, TypeYields
  <2>2. SaidIn(r, a, c) = w \o << >>
    <3> HIDE DEF w
    <3> QED  BY <2>1, ConcatAlgebra
  <2> QED  BY <2>1, <2>2
<1>8. Reads(TypeAndAttrs, r, a, c)
  <2>1. Reads({<< >>} \cup AttrItems, r, c, c)
    <3>1. Reads({<< >>}, r, c, c)
      BY ReadsNone
    <3> QED  BY <3>1, ReadsMore
  <2>2. Reads(Cat(OptSep, {<< >>} \cup AttrItems), r, b, c)
    BY <1>3, <1>4, <2>1, Neighbours
  <2>3. Reads(Cat(One("id"), Cat(OptSep, {<< >>} \cup AttrItems)), r, a, c)
    BY <1>1, <1>3, <1>4, <2>2, Neighbours
  <2> QED  BY <2>3, ReadsMore DEF TypeAndAttrs, Cat3
<1>9. r[c] # "["
  BY <1>1, <1>3
<1>10. << >> \in Seq(AttrP)
  OBVIOUS
<1> QED  BY <1>1, <1>3, <1>4, <1>5, <1>6, <1>7, <1>8, <1>9, <1>10 DEF Content

LEMMA ContentBoth ==
    ASSUME NEW r \in Seq(Terminal), NEW a \in 0..Len(r), NEW b \in 0..Len(r), NEW c \in 0..Len(r),
           NEW d \in 0..Len(r), NEW x, NEW z, NEW as \in AttrsP,
           TokenAt(r, a, b, "id", x), Derived(r, b, c, "OptSep", z),
           Derived(r, c, d, "AttrItems", as)
    PROVE  Content(r, a, d, x.n, as.list)
<1>1. /\ SaidIn(r, a, c) = TypeYield(x.n) /\ x.n \in Nat \ {0} /\ a < b /\ b <= c
      /\ r[a + 1] = "id" /\ Reads(One("id"), r, a, b) /\ Reads(OptSep, r, b, c)
  BY ContentType
<1>2. /\ c < d /\ r[d] # "[" /\ Reads(AttrItems, r, c, d) /\ SaidIn(r, c, d) = AttrsYield(as.list)
  BY LangFacts, SaysFacts DEF Derived
<1>3. a < d /\ a <= b /\ a <= c /\ c <= d /\ b <= d
  BY <1>1, <1>2
<1>4. as.list \in Seq(AttrP)
  BY DEF AttrsP
<1>5. SaidIn(r, a, d) = TypeYield(x.n) \o AttrsYield(as.list)
  <2>1. SaidIn(r, a, d) = SaidIn(r, a, c) \o SaidIn(r, c, d)
    BY <1>3, Neighbours
  <2> QED  BY <1>1, <1>2, <2>1
<1>6. Reads(TypeAndAttrs, r, a, d)
  <2>1. Reads({<< >>} \cup AttrItems, r, c, d)
    BY <1>2, ReadsMore
  <2>2. Reads(Cat(OptSep, {<< >>} \cup AttrItems), r, b, d)
    BY <1>1, <1>3, <2>1, Neighbours
  <2>3. Reads(Cat(One("id"), Cat(OptSep, {<< >>} \cup AttrItems)), r, a, d)
    BY <1>1, <1>3, <2>2, Neighbours
  <2> QED  BY <2>3, ReadsMore DEF TypeAndAttrs, Cat3
<1> QED  BY <1>1, <1>2, <1>3, <1>4, <1>5, <1>6 DEF Content

(* The tokens of a declaration in brackets, one by one.                      *)
LEMMA SpokenToken ==
    ASSUME NEW r \in Seq(Terminal), NEW a \in 0..Len(r), NEW b \in 0..Len(r), NEW t \in Spoken, NEW x,
           TokenAt(r, a, b, t, x)
    PROVE  /\ a < b /\ a <= b /\ b = a + 1 /\ r[b] = t /\ r[b] # "[" /\ x.n = b /\ x.n \in Nat
           /\ Reads(One(t), r, a, b) /\ SaidIn(r, a, b) = <<x.n>> /\ <<x.n>> \in Seq(Int)
<1>0. t \in Terminal
  BY TokenKinds
<1>1. /\ a < b /\ a <= b /\ b = a + 1 /\ r[b] = t /\ x.n = b /\ x.n \in Nat
      /\ Reads(One(t), r, a, b)
  BY <1>0, TokenFacts
<1>2. SaidIn(r, a, b) = <<x.n>>
  BY <1>0, TokenWord
<1>3. t # "["
  BY DEF Spoken
<1>4. <<x.n>> \in Seq(Int)
  BY <1>1
<1> QED  BY <1>1, <1>2, <1>3, <1>4

LEMMA SilentToken ==
    ASSUME NEW r \in Seq(Terminal), NEW a \in 0..Len(r), NEW b \in 0..Len(r), NEW t \in Silent, NEW x,
           TokenAt(r, a, b, t, x)
    PROVE  /\ a < b /\ a <= b /\ b = a + 1 /\ r[b] = t /\ r[b] # "["
           /\ Reads(One(t), r, a, b) /\ SaidIn(r, a, b) = << >>
<1>0. t \in Terminal
  BY TokenKinds
<1>1. /\ a < b /\ a <= b /\ b = a + 1 /\ r[b] = t /\ Reads(One(t), r, a, b)
  BY <1>0, TokenFacts
<1>2. SaidIn(r, a, b) = << >>
  BY <1>0, TokenWord
<1>3. t # "["
  BY DEF Silent
<1> QED  BY <1>1, <1>2, <1>3

LEMMA Bracket ==
    ASSUME NEW r \in Seq(Terminal), NEW a \in 0..Len(r), NEW b \in 0..Len(r), NEW x,
           TokenAt(r, a, b, "[", x)
    PROVE  /\ a < b /\ a <= b /\ b = a + 1 /\ Reads(One("["), r, a, b)
           /\ SaidIn(r, a, b) = IF r[b + 1] = "]" THEN << >> ELSE <<-2>>
<1>0. "[" \in Terminal
  BY TokenSets
<1>1. a < b /\ a <= b /\ b = a + 1 /\ Reads(One("["), r, a, b)
  BY <1>0, TokenFacts
<1>2. SaidIn(r, a, b) = IF r[b + 1] = "]" THEN << >> ELSE <<-2>>
  BY <1>0, TokenWord
<1> QED  BY <1>1, <1>2

LEMMA NodeSpan ==
    ASSUME NEW r \in Seq(Terminal), NEW a \in 0..Len(r), NEW b \in 0..Len(r), NEW c \in 0..Len(r),
           NEW d \in 0..Len(r), NEW e \in 0..Len(r), NEW x, NEW y, NEW z, NEW nd \in NodeP,
           TokenAt(r, a, b, "id", x), TokenAt(r, b, c, "[", y),
           Content(r, c, d, nd.type, nd.attrs), TokenAt(r, d, e, "]", z), nd.id = x.n
    PROVE  Derived(r, a, e, "NodeDecl", nd)
<1>0. "id" \in Spoken /\ "]" \in Silent
  BY TokenKinds
<1>1. a < b /\ Reads(One("id"), r, a, b) /\ SaidIn(r, a, b) = <<x.n>> /\ <<x.n>> \in Seq(Int)
  BY <1>0, SpokenToken
<1>3. /\ c < d /\ r[c + 1] = "id" /\ nd.type \in Nat /\ nd.attrs \in Seq(AttrP)
      /\ nd.type # 0 \/ nd.attrs # << >>
      /\ SaidIn(r, c, d) = TypeYield(nd.type) \o AttrsYield(nd.attrs)
      /\ Reads(TypeAndAttrs, r, c, d)
  BY DEF Content
<1>2. b < c /\ Reads(One("["), r, b, c) /\ SaidIn(r, b, c) = <<-2>> /\ <<-2>> \in Seq(Int)
  <2>1. "id" # "]"
    OBVIOUS
  <2> QED  BY <1>3, <2>1, Bracket
<1>4. d < e /\ r[e] # "[" /\ Reads(One("]"), r, d, e) /\ SaidIn(r, d, e) = << >>
  BY <1>0, SilentToken
<1>5. /\ a <= b /\ b <= c /\ c <= d /\ d <= e /\ a <= c /\ a <= d /\ b <= e /\ c <= e /\ a < e
      /\ a <= e
  BY <1>1, <1>2, <1>3, <1>4
<1>6. Reads(NodeDecl, r, a, e)
  <2>1. Reads(Cat(TypeAndAttrs, One("]")), r, c, e)
    BY <1>3, <1>4, <1>5, Neighbours
  <2>2. Reads(Cat(One("["), Cat(TypeAndAttrs, One("]"))), r, b, e)
    BY <1>2, <1>5, <2>1, Neighbours
  <2>3. Reads(Cat(One("id"), Cat(One("["), Cat(TypeAndAttrs, One("]")))), r, a, e)
    BY <1>1, <1>5, <2>2, Neighbours
  <2> QED  BY <2>3, ReadsMore DEF NodeDecl, Cat3
<1>7. SaidIn(r, a, e) = ItemYield(nd)
  <2> DEFINE p == <<x.n>>
             m == <<-2>>
             t == TypeYield(nd.type)
             w == AttrsYield(nd.attrs)
  <2>1. /\ SaidIn(r, a, b) = p /\ SaidIn(r, b, c) = m /\ SaidIn(r, c, d) = t \o w
        /\ p \in Seq(Int) /\ m \in Seq(Int) /\ t \in Seq(Int) /\ w \in Seq(Int)
    BY <1>1, <1>2, <1>3, TypeYields, AttrYields
  <2>2. ItemYield(nd) = ((p \o m) \o t) \o w
    <3>1. nd.tag = "Node" /\ ~(nd.type = 0 /\ nd.attrs = << >>)
      BY <1>3 DEF NodeP
    <3> QED  BY <3>1 DEF ItemYield
  <2> HIDE DEF p, m, t, w
  <2>3. SaidIn(r, a, c) = p \o m
    <3>1. SaidIn(r, a, c) = SaidIn(r, a, b) \o SaidIn(r, b, c)
      BY <1>5, Neighbours
    <3> QED  BY <2>1, <3>1
  <2>4. SaidIn(r, a, d) = (p \o m) \o (t \o w)
    <3>1. SaidIn(r, a, d) = SaidIn(r, a, c) \o SaidIn(r, c, d)
      BY <1>5, Neighbours
    <3> QED  BY <2>1, <2>3, <3>1
  <2>5. SaidIn(r, a, e) = SaidIn(r, a, d)
    BY <1>4, <1>5, Neighbours
  <2>6. (p \o m) \o (t \o w) = ((p \o m) \o t) \o w
    <3> DEFINE q == p \o m
    <3>1. q \in Seq(Int) /\ t \in Seq(Int) /\ w \in Seq(Int)
      BY <2>1, ConcatFacts
    <3> HIDE DEF q
    <3>2. (q \o t) \o w = q \o (t \o w)
      BY <3>1, Regrouped
    <3> QED  BY <3>2 DEF q
  <2> QED  BY <2>2, <2>4, <2>5, <2>6
<1> QED  BY <1>4, <1>5, <1>6, <1>7, LangFacts, SaysFacts DEF Derived

LEMMA BareNodeYield ==
    ASSUME NEW nd \in NodeP, nd.type = 0, nd.attrs = << >>
    PROVE  ItemYield(nd) = <<nd.id>>
<1> DEFINE p == <<nd.id>>
<1>1. p \in Seq(Int) /\ nd.tag = "Node"
  BY DEF NodeP
<1>2. ItemYield(nd) = ((p \o << >>) \o TypeYield(0)) \o AttrsYield(<< >>)
  BY <1>1 DEF ItemYield
<1>3. TypeYield(0) = << >> /\ AttrsYield(<< >>) = << >>
  BY TypeYields, AttrYields
<1> HIDE DEF p
<1>4. p \o << >> = p
  BY <1>1
<1> QED  BY <1>2, <1>3, <1>4 DEF p

LEMMA BareNodeSpan ==
    ASSUME NEW r \in Seq(Terminal), NEW a \in 0..Len(r), NEW b \in 0..Len(r), NEW x, NEW nd \in NodeP,
           TokenAt(r, a, b, "id", x), nd.id = x.n, nd.type = 0, nd.attrs = << >>
    PROVE  /\ Derived(r, a, b, "NodeDecl", nd)
           /\ \A c \in 0..Len(r), d \in 0..Len(r) : \A y, z :
                  TokenAt(r, b, c, "[", y) /\ TokenAt(r, c, d, "]", z) => Derived(r, a, d, "NodeDecl", nd)
<1>0. "id" \in Spoken /\ "]" \in Silent
  BY TokenKinds
<1>1. a < b /\ a <= b /\ r[b] # "[" /\ Reads(One("id"), r, a, b) /\ SaidIn(r, a, b) = <<x.n>>
  BY <1>0, SpokenToken
<1>2. SaidIn(r, a, b) = ItemYield(nd)
  BY <1>1, BareNodeYield
<1>3. Derived(r, a, b, "NodeDecl", nd)
  <2>1. Reads(NodeDecl, r, a, b)
    BY <1>1, ReadsMore DEF NodeDecl
  <2> QED  BY <1>1, <1>2, <2>1, LangFacts, SaysFacts DEF Derived
<1>4. ASSUME NEW c \in 0..Len(r), NEW d \in 0..Len(r), NEW y, NEW z,
             TokenAt(r, b, c, "[", y), TokenAt(r, c, d, "]", z)
      PROVE  Derived(r, a, d, "NodeDecl", nd)
  <2>1. /\ c < d /\ d = c + 1 /\ r[d] = "]" /\ r[d] # "["
        /\ Reads(One("]"), r, c, d) /\ SaidIn(r, c, d) = << >>
    BY <1>0, <1>4, SilentToken
  <2>2. b < c /\ Reads(One("["), r, b, c) /\ SaidIn(r, b, c) = << >>
    BY <1>4, <2>1, Bracket
  <2>3. a <= c /\ b <= c /\ c <= d /\ b <= d /\ a < d /\ a <= d /\ c <= c
    BY <1>1, <2>1, <2>2
  <2>4. SaidIn(r, a, d) = SaidIn(r, a, b)
    <3>1. SaidIn(r, a, c) = SaidIn(r, a, b)
      BY <1>1, <2>2, <2>3, Neighbours
    <3>2. SaidIn(r, a, d) = SaidIn(r, a, c)
      BY <2>1, <2>3, Neighbours
    <3> QED  BY <3>1, <3>2
  <2>5. Reads(NodeDecl, r, a, d)
    <3>1. Reads(TypeAndAttrs, r, c, c)
      BY ReadsNone, ReadsMore DEF TypeAndAttrs
    <3>2. Reads(Cat(TypeAndAttrs, One("]")), r, c, d)
      BY <2>1, <2>3, <3>1, Neighbours
    <3>3. Reads(Cat(One("["), Cat(TypeAndAttrs, One("]"))), r, b, d)
      BY <2>2, <2>3, <3>2, Neighbours
    <3>4. Reads(Cat(One("id"), Cat(One("["), Cat(TypeAndAttrs, One("]")))), r, a, d)
      BY <1>1, <2>3, <3>3, Neighbours
    <3> QED  BY <3>4, ReadsMore DEF NodeDecl, Cat3
  <2> QED  BY <1>2, <2>1, <2>3, <2>4, <2>5, LangFacts, SaysFacts DEF Derived
<1> QED  BY <1>3, <1>4

(* A step of a chain.                                                        *)
LEMMA StepSpan ==
    ASSUME NEW r \in Seq(Terminal), NEW a \in 0..Len(r), NEW b \in 0..Len(r), NEW c \in 0..Len(r),
           NEW d \in 0..Len(r), NEW e \in 0..Len(r), NEW x, NEW y, NEW z, NEW st \in StepP,
           TokenAt(r, a, b, "edge_attr_open", x), Content(r, b, c, st.type, st.attrs),
           TokenAt(r, c, d, "edge_attr_close", y), TokenAt(r, d, e, "id", z),
           st.pos = x.n, st.to = z.n
    PROVE  Derived(r, a, e, "EdgeRHS", st)
<1>0. "id" \in Spoken /\ "edge_attr_open" \in Spoken /\ "edge_attr_close" \in Silent
  BY TokenKinds
<1>1. /\ a < b /\ Reads(One("edge_attr_open"), r, a, b) /\ SaidIn(r, a, b) = <<x.n>>
      /\ <<x.n>> \in Seq(Int)
  BY <1>0, SpokenToken
<1>2. /\ b < c /\ st.type \in Nat /\ st.attrs \in Seq(AttrP)
      /\ SaidIn(r, b, c) = TypeYield(st.type) \o AttrsYield(st.attrs)
      /\ Reads(TypeAndAttrs, r, b, c)
  BY DEF Content
<1>3. c < d /\ Reads(One("edge_attr_close"), r, c, d) /\ SaidIn(r, c, d) = << >>
  BY <1>0, SilentToken
<1>4. /\ d < e /\ r[e] # "[" /\ Reads(One("id"), r, d, e) /\ SaidIn(r, d, e) = <<z.n>>
      /\ <<z.n>> \in Seq(Int)
  BY <1>0, SpokenToken
<1>5. /\ a <= b /\ b <= c /\ c <= d /\ d <= e /\ a <= c /\ a <= d /\ b <= d /\ a < e /\ a <= e
  BY <1>1, <1>2, <1>3, <1>4
<1>6. Reads(EdgeRHS, r, a, e)
  <2>1. Reads(Cat(TypeAndAttrs, One("edge_attr_close")), r, b, d)
    BY <1>2, <1>3, <1>5, Neighbours
  <2>2. Reads(Cat(One("edge_attr_open"), Cat(TypeAndAttrs, One("edge_attr_close"))), r, a, d)
    BY <1>1, <1>5, <2>1, Neighbours
  <2>3. Reads(One("edgearrow") \cup
                  Cat3(One("edge_attr_open"), TypeAndAttrs, One("edge_attr_close")), r, a, d)
    BY <2>2, ReadsMore DEF Cat3
  <2> QED  BY <1>4, <1>5, <2>3, Neighbours DEF EdgeRHS
<1>7. SaidIn(r, a, e) = StepYield(st)
  <2> DEFINE p == <<x.n>>
             q == <<z.n>>
             t == TypeYield(st.type)
             w == AttrsYield(st.attrs)
  <2>1. /\ SaidIn(r, a, b) = p /\ SaidIn(r, b, c) = t \o w /\ SaidIn(r, d, e) = q
        /\ p \in Seq(Int) /\ q \in Seq(Int) /\ t \in Seq(Int) /\ w \in Seq(Int)
    BY <1>1, <1>2, <1>4, TypeYields, AttrYields
  <2>2. StepYield(st) = ((p \o t) \o w) \o q
    BY DEF StepYield
  <2> HIDE DEF p, q, t, w
  <2>3. SaidIn(r, a, c) = p \o (t \o w)
    <3>1. SaidIn(r, a, c) = SaidIn(r, a, b) \o SaidIn(r, b, c)
      BY <1>5, Neighbours
    <3> QED  BY <2>1, <3>1
  <2>4. SaidIn(r, a, d) = SaidIn(r, a, c)
    BY <1>3, <1>5, Neighbours
  <2>5. SaidIn(r, a, e) = SaidIn(r, a, d) \o SaidIn(r, d, e)
    BY <1>5, Neighbours
  <2>6. p \o (t \o w) = (p \o t) \o w
    <3>1. p \in Seq(Int) /\ t \in Seq(Int) /\ w \in Seq(Int)
      BY <2>1
    <3>2. (p \o t) \o w = p \o (t \o w)
      BY <3>1, Regrouped
    <3> QED  BY <3>2
  <2>7. SaidIn(r, a, e) = ((p \o t) \o w) \o q
    BY <2>1, <2>3, <2>4, <2>5, <2>6
  <2> QED  BY <2>2, <2>7
<1> QED  BY <1>4, <1>5, <1>6, <1>7, LangFacts, SaysFacts DEF Derived

LEMMA BareStepYield ==
    ASSUME NEW st \in StepP, st.type = 0, st.attrs = << >>
    PROVE  StepYield(st) = <<st.pos>> \o <<st.to>>
<1> DEFINE p == <<st.pos>>
           q == <<st.to>>
<1>1. p \in Seq(Int) /\ q \in Seq(Int)
  BY DEF StepP
<1>2. StepYield(st) = ((p \o TypeYield(0)) \o AttrsYield(<< >>)) \o q
  BY DEF StepYield
<1>3. TypeYield(0) = << >> /\ AttrsYield(<< >>) = << >>
  BY TypeYields, AttrYields
<1> HIDE DEF p, q
<1>4. p \o << >> = p
  BY <1>1
<1> QED  BY <1>2, <1>3, <1>4 DEF p, q

LEMMA BareStepSpan ==
    ASSUME NEW r \in Seq(Terminal), NEW a \in 0..Len(r), NEW b \in 0..Len(r), NEW c \in 0..Len(r),
           NEW x, NEW z, NEW st \in StepP,
           st.type = 0, st.attrs = << >>, st.pos = x.n, st.to = z.n, TokenAt(r, b, c, "id", z)
    PROVE  /\ TokenAt(r, a, b, "edgearrow", x) => Derived(r, a, c, "EdgeRHS", st)
           /\ \A d \in 0..Len(r) : \A y :
                  TokenAt(r, a, d, "edge_attr_open", x) /\ TokenAt(r, d, b, "edge_attr_close", y) =>
                      Derived(r, a, c, "EdgeRHS", st)
<1> DEFINE arrows == One("edgearrow") \cup
                         Cat3(One("edge_attr_open"), TypeAndAttrs, One("edge_attr_close"))
<1>0. "id" \in Spoken /\ "edgearrow" \in Spoken /\ "edge_attr_open" \in Spoken /\ "edge_attr_close" \in Silent
  BY TokenKinds
<1>1. b < c /\ b <= c /\ r[c] # "[" /\ Reads(One("id"), r, b, c) /\ SaidIn(r, b, c) = <<z.n>>
  BY <1>0, SpokenToken
<1>2. ASSUME a < b, SaidIn(r, a, b) = <<x.n>>, Reads(arrows, r, a, b)
      PROVE  Derived(r, a, c, "EdgeRHS", st)
  <2>1. a <= b /\ a < c /\ a <= c
    BY <1>1, <1>2
  <2>2. Reads(EdgeRHS, r, a, c)
    BY <1>1, <1>2, <2>1, Neighbours DEF EdgeRHS
  <2>3. SaidIn(r, a, c) = StepYield(st)
    <3>1. SaidIn(r, a, c) = SaidIn(r, a, b) \o SaidIn(r, b, c)
      BY <1>1, <2>1, Neighbours
    <3> QED  BY <1>1, <1>2, <3>1, BareStepYield
  <2> QED  BY <1>1, <2>1, <2>2, <2>3, LangFacts, SaysFacts DEF Derived
<1>3. ASSUME TokenAt(r, a, b, "edgearrow", x) PROVE Derived(r, a, c, "EdgeRHS", st)
  <2>1. a < b /\ Reads(One("edgearrow"), r, a, b) /\ SaidIn(r, a, b) = <<x.n>>
    BY <1>0, <1>3, SpokenToken
  <2>2. Reads(arrows, r, a, b)
    BY <2>1, ReadsMore
  <2> QED  BY <1>2, <2>1, <2>2
<1>4. ASSUME NEW d \in 0..Len(r), NEW y,
             TokenAt(r, a, d, "edge_attr_open", x), TokenAt(r, d, b, "edge_attr_close", y)
      PROVE  Derived(r, a, c, "EdgeRHS", st)
  <2>1. a < d /\ Reads(One("edge_attr_open"), r, a, d) /\ SaidIn(r, a, d) = <<x.n>>
    BY <1>0, <1>4, SpokenToken
  <2>2. d < b /\ Reads(One("edge_attr_close"), r, d, b) /\ SaidIn(r, d, b) = << >>
    BY <1>0, <1>4, SilentToken
  <2>3. a <= d /\ d <= b /\ a < b /\ a <= b /\ d <= d
    BY <2>1, <2>2
  <2>4. SaidIn(r, a, b) = SaidIn(r, a, d)
    BY <2>2, <2>3, Neighbours
  <2>5. Reads(arrows, r, a, b)
    <3>1. Reads(TypeAndAttrs, r, d, d)
      BY ReadsNone, ReadsMore DEF TypeAndAttrs
    <3>2. Reads(Cat(TypeAndAttrs, One("edge_attr_close")), r, d, b)
      BY <2>2, <2>3, <3>1, Neighbours
    <3>3. Reads(Cat(One("edge_attr_open"), Cat(TypeAndAttrs, One("edge_attr_close"))), r, a, b)
      BY <2>1, <2>3, <3>2, Neighbours
    <3> QED  BY <3>3, ReadsMore DEF Cat3
  <2> HIDE DEF arrows
  <2> QED  BY <1>2, <2>1, <2>3, <2>4, <2>5
<1> QED  BY <1>3, <1>4

(* A chain, with the steps that have been read of it.                         *)
LEMMA ChainYield ==
    ASSUME NEW ch \in ChainP
    PROVE  ItemYield(ch) = <<ch.from>> \o StepsYield(ch.steps)
<1>1. ch.tag # "Node"
  BY DEF ChainP
<1> QED  BY <1>1 DEF ItemYield, StepsYield

LEMMA NewChainSpan ==
    ASSUME NEW r \in Seq(Terminal), NEW a \in 0..Len(r), NEW b \in 0..Len(r), NEW c \in 0..Len(r),
           NEW x \in TokenP, NEW st \in StepP,
           TokenAt(r, a, b, "id", x), Derived(r, b, c, "EdgeRHS", st)
    PROVE  Derived(r, a, c, "EdgeDecl", NewEdgeChain(x, st))
<1> DEFINE ch == NewEdgeChain(x, st)
<1>1. ch \in ChainP
  BY ChainKinds
<1>2. ch.from = x.n /\ ch.steps = <<st>>
  BY DEF NewEdgeChain, StepP, TokenP, IsTok
<1> HIDE DEF ch
<1>3. /\ a < b /\ a <= b /\ b = a + 1 /\ r[b] = "id" /\ Reads(One("id"), r, a, b)
      /\ SaidIn(r, a, b) = <<x.n>>
  <2>1. "id" \in Spoken
    BY TokenKinds
  <2> QED  BY <2>1, SpokenToken
<1>4. b < c /\ r[c] # "[" /\ Reads(EdgeRHS, r, b, c) /\ SaidIn(r, b, c) = StepYield(st)
  BY LangFacts, SaysFacts DEF Derived
<1>5. b <= c /\ a < c /\ a <= c /\ b <= b
  BY <1>3, <1>4
<1>6. Reads(Plus(EdgeRHS), r, b, c)
  BY <1>4, <1>5, GrammarSets, ReadsPlus
<1>7. Reads(EdgeDecl, r, a, c)
  BY <1>3, <1>5, <1>6, Neighbours DEF EdgeDecl
<1>8. SaidIn(r, a, c) = ItemYield(ch)
  <2>1. SaidIn(r, a, c) = SaidIn(r, a, b) \o SaidIn(r, b, c)
    BY <1>3, <1>5, Neighbours
  <2>2. ItemYield(ch) = <<x.n>> \o StepsYield(<<st>>)
    BY <1>1, <1>2, ChainYield
  <2>3. StepsYield(<<st>>) = StepYield(st)
    BY StepYields
  <2> QED  BY <1>3, <1>4, <2>1, <2>2, <2>3
<1>9. Derived(r, a, c, "EdgeDecl", ch)
  BY <1>3, <1>4, <1>5, <1>6, <1>7, <1>8, LangFacts, SaysFacts DEF Derived
<1> QED  BY <1>9 DEF ch

LEMMA LongerChainSpan ==
    ASSUME NEW r \in Seq(Terminal), NEW a \in 0..Len(r), NEW b \in 0..Len(r), NEW c \in 0..Len(r),
           NEW old \in ChainP, NEW st \in StepP,
           Derived(r, a, b, "EdgeDecl", old), Derived(r, b, c, "EdgeRHS", st)
    PROVE  Derived(r, a, c, "EdgeDecl", ExtendEdgeChain(old, st))
<1> DEFINE ch == ExtendEdgeChain(old, st)
<1>1. ch \in ChainP
  BY ChainKinds
<1>2. ch.from = old.from /\ ch.steps = Append(old.steps, st) /\ old.steps \in Seq(StepP)
      /\ old.from \in Nat
  BY DEF ExtendEdgeChain, StepP, ChainP
<1> HIDE DEF ch
<1>3. /\ a < b /\ a <= b /\ r[a + 1] = "id" /\ Reads(Plus(EdgeRHS), r, a + 1, b)
      /\ SaidIn(r, a, b) = ItemYield(old)
  BY LangFacts, SaysFacts DEF Derived
<1>4. b < c /\ r[c] # "[" /\ Reads(EdgeRHS, r, b, c) /\ SaidIn(r, b, c) = StepYield(st)
  BY LangFacts, SaysFacts DEF Derived
<1>5. b <= c /\ a < c /\ a <= c
  BY <1>3, <1>4
<1> DEFINE i == a + 1
<1>6. i \in 0..Len(r) /\ i \in 1..Len(r) /\ i <= b /\ a <= i /\ i <= c /\ i - 1 = a
  BY <1>3, <1>4
<1>7. r[i] = "id" /\ Reads(Plus(EdgeRHS), r, i, b)
  BY <1>3
<1> HIDE DEF i
<1>8. Reads(Plus(EdgeRHS), r, i, c)
  BY <1>4, <1>6, <1>7, GrammarSets, ReadsPlus
<1>9. Reads(EdgeDecl, r, a, c)
  <2>1. Reads(One("id"), r, a, i)
    BY <1>6, <1>7, ReadsOne
  <2> QED  BY <1>6, <1>8, <2>1, Neighbours DEF EdgeDecl
<1>10. SaidIn(r, a, c) = ItemYield(ch)
  <2> DEFINE p == <<old.from>>
             s == StepsYield(old.steps)
             w == StepYield(st)
  <2>1. p \in Seq(Int) /\ s \in Seq(Int) /\ w \in Seq(Int)
    BY <1>2, StepYields
  <2>2. SaidIn(r, a, b) = p \o s /\ SaidIn(r, b, c) = w
    BY <1>3, <1>4, ChainYield
  <2>3. ItemYield(ch) = p \o (s \o w)
    <3>1. ItemYield(ch) = p \o StepsYield(Append(old.steps, st))
      BY <1>1, <1>2, ChainYield
    <3>2. StepsYield(Append(old.steps, st)) = s \o w
      BY <1>2, StepYields
    <3> QED  BY <3>1, <3>2
  <2> HIDE DEF p, s, w
  <2>4. SaidIn(r, a, c) = SaidIn(r, a, b) \o SaidIn(r, b, c)
    BY <1>3, <1>5, Neighbours
  <2>5. (p \o s) \o w = p \o (s \o w)
    BY <2>1, Regrouped
  <2> QED  BY <2>2, <2>3, <2>4, <2>5
<1>11. Reads(Plus(EdgeRHS), r, a + 1, c)
  BY <1>8 DEF i
<1>12. Derived(r, a, c, "EdgeDecl", ch)
  BY <1>3, <1>4, <1>5, <1>9, <1>10, <1>11, LangFacts, SaysFacts DEF Derived
<1> QED  BY <1>12 DEF ch

(* A statement, and the statements of a document.                            *)
LEMMA StmtSpan ==
    ASSUME NEW r \in Seq(Terminal), NEW a \in 0..Len(r), NEW b \in 0..Len(r), NEW c \in 0..Len(r),
           NEW it, NEW z, NEW A \in {"EdgeDecl", "NodeDecl"},
           Derived(r, a, b, A, it), Derived(r, b, c, "OptSep", z)
    PROVE  Derived(r, a, c, "TopLevelStmt", it)
<1>1. /\ a < b /\ a <= b /\ r[b] # "[" /\ Reads(EdgeDecl \cup NodeDecl, r, a, b)
      /\ SaidIn(r, a, b) = ItemYield(it)
  <2>1. CASE A = "EdgeDecl"
    <3>1. a < b /\ a <= b /\ r[b] # "[" /\ Reads(EdgeDecl, r, a, b) /\ SaidIn(r, a, b) = ItemYield(it)
      BY <2>1, LangFacts, SaysFacts DEF Derived
    <3> QED  BY <3>1, ReadsMore
  <2>2. CASE A = "NodeDecl"
    <3>1. a < b /\ a <= b /\ r[b] # "[" /\ Reads(NodeDecl, r, a, b) /\ SaidIn(r, a, b) = ItemYield(it)
      BY <2>2, LangFacts, SaysFacts DEF Derived
    <3> QED  BY <3>1, ReadsMore
  <2> QED  BY <2>1, <2>2
<1>2. b <= c /\ (b < c => r[c] # "[") /\ Reads(OptSep, r, b, c) /\ SaidIn(r, b, c) = << >>
  BY LangFacts, SaysFacts DEF Derived
<1>3. a < c /\ a <= c /\ r[c] # "["
  BY <1>1, <1>2
<1>4. Reads(TopLevelStmt, r, a, c)
  BY <1>1, <1>2, Neighbours DEF TopLevelStmt
<1>5. SaidIn(r, a, c) = SaidIn(r, a, b)
  BY <1>1, <1>2, Neighbours
<1> QED  BY <1>1, <1>3, <1>4, <1>5, LangFacts, SaysFacts DEF Derived

LEMMA ListSpan ==
    ASSUME NEW r \in Seq(Terminal), NEW a \in 0..Len(r), NEW b \in 0..Len(r), NEW c \in 0..Len(r),
           NEW it \in Item, Derived(r, b, c, "TopLevelStmt", it), a <= b
    PROVE  /\ a = b => Derived(r, a, c, "TopLevelDeclList", NewGraph(it))
           /\ \A g \in GraphP : Derived(r, a, b, "TopLevelDeclList", g) =>
                  Derived(r, a, c, "TopLevelDeclList", AppendGraphItem(g, it))
<1>1. b < c /\ r[c] # "[" /\ Reads(TopLevelStmt, r, b, c) /\ SaidIn(r, b, c) = ItemYield(it)
  BY LangFacts, SaysFacts DEF Derived
<1>2. a < c /\ b <= c /\ a <= c
  BY <1>1
<1>3. it # Nil /\ it.tag \in {"Node", "EdgeChain"}
  BY NilFacts DEF Item
<1>4. ASSUME a = b PROVE Derived(r, a, c, "TopLevelDeclList", NewGraph(it))
  <2>1. NewGraph(it).items = <<it>>
    BY <1>3 DEF NewGraph
  <2>2. ItemsYield(<<it>>) = ItemYield(it)
    BY ItemYields
  <2>3. Reads(TopLevelDeclList, r, a, c)
    BY <1>1, <1>4, GrammarSets, ReadsPlus DEF TopLevelDeclList
  <2> QED  BY <1>1, <1>2, <1>4, <2>1, <2>2, <2>3, LangFacts, SaysFacts DEF Derived
<1>5. ASSUME NEW g \in GraphP, Derived(r, a, b, "TopLevelDeclList", g)
      PROVE  Derived(r, a, c, "TopLevelDeclList", AppendGraphItem(g, it))
  <2>1. g.items \in Seq(Item) /\ AppendGraphItem(g, it).items = Append(g.items, it)
    BY <1>3 DEF AppendGraphItem, GraphP, Item
  <2>2. /\ Reads(TopLevelDeclList, r, a, b) /\ SaidIn(r, a, b) = ItemsYield(g.items)
    BY <1>5, LangFacts, SaysFacts DEF Derived
  <2>3. SaidIn(r, a, c) = ItemsYield(Append(g.items, it))
    <3>1. SaidIn(r, a, c) = SaidIn(r, a, b) \o SaidIn(r, b, c)
      BY <1>2, Neighbours
    <3>2. ItemsYield(Append(g.items, it)) = ItemsYield(g.items) \o ItemYield(it)
      BY <2>1, ItemYields
    <3> QED  BY <1>1, <2>2, <3>1, <3>2
  <2>4. Reads(TopLevelDeclList, r, a, c)
    BY <1>1, <2>2, GrammarSets, ReadsPlus DEF TopLevelDeclList
  <2> QED  BY <1>1, <1>2, <2>1, <2>3, <2>4, LangFacts, SaysFacts DEF Derived
<1> QED  BY <1>4, <1>5

LEMMA DocSpan ==
    ASSUME NEW r \in Seq(Terminal), NEW a \in 0..Len(r), NEW b \in 0..Len(r), NEW g,
           Derived(r, a, b, "TopLevelDeclList", g)
    PROVE  Derived(r, a, b, "WholeDoc", g)
<1>1. /\ a < b /\ a <= b /\ r[b] # "[" /\ Reads(TopLevelDeclList, r, a, b)
      /\ SaidIn(r, a, b) = ItemsYield(g.items)
  BY LangFacts, SaysFacts DEF Derived
<1>2. Reads(WholeDoc, r, a, b)
  BY <1>1, ReadsMore DEF WholeDoc
<1> QED  BY <1>1, <1>2, LangFacts, SaysFacts DEF Derived

-----------------------------------------------------------------------------
(* The symbols in the other places of the productions.                        *)
LEMMA OtherSymbols ==
    ASSUME NEW s
    PROVE  /\ (Has(s, 6, 1) => Enters(s) = ";")
           /\ (Has(s, 24, 1) => Enters(s) = ",")
           /\ (Has(s, 7, 2) => Enters(s) = "[")
           /\ (Has(s, 7, 4) => Enters(s) = "]")
           /\ (Has(s, 8, 2) => Enters(s) = "[")
           /\ (Has(s, 8, 4) => Enters(s) = "OptSep")
           /\ (Has(s, 8, 6) => Enters(s) = "]")
           /\ (Has(s, 9, 2) => Enters(s) = "[")
           /\ (Has(s, 9, 4) => Enters(s) = "OptSep")
           /\ (Has(s, 9, 5) => Enters(s) = "]")
           /\ (Has(s, 10, 2) => Enters(s) = "[")
           /\ (Has(s, 10, 3) => Enters(s) = "]")
           /\ (Has(s, 13, 2) => Enters(s) = "edge_attr_close")
           /\ (Has(s, 14, 3) => Enters(s) = "edge_attr_close")
           /\ (Has(s, 15, 3) => Enters(s) = "OptSep")
           /\ (Has(s, 15, 4) => Enters(s) = "edge_attr_close")
           /\ (Has(s, 16, 3) => Enters(s) = "OptSep")
           /\ (Has(s, 16, 5) => Enters(s) = "edge_attr_close")
           /\ (Has(s, 19, 2) => Enters(s) = "OptSep")
           /\ (Has(s, 20, 2) => Enters(s) = "OptSep")
           /\ (Has(s, 25, 2) => Enters(s) = "=")
           /\ (Has(s, 25, 4) => Enters(s) = "OptAttrSep")
<1>1. /\ (Has(s, 6, 1) => s \in {9, 26, 32})
      /\ (Has(s, 24, 1) => s \in {53, 57})
      /\ (Has(s, 7, 2) => s = 10)
      /\ (Has(s, 7, 4) => s = 29)
      /\ (Has(s, 8, 2) => s = 10)
      /\ (Has(s, 8, 4) => s = 25)
  BY DEF Has
<1>2. /\ (Has(s, 8, 6) => s = 51)
      /\ (Has(s, 9, 2) => s = 10)
      /\ (Has(s, 9, 4) => s = 25)
      /\ (Has(s, 9, 5) => s = 39)
      /\ (Has(s, 10, 2) => s = 10)
      /\ (Has(s, 10, 3) => s = 18)
  BY DEF Has
<1>3. /\ (Has(s, 13, 2) => s = 23)
      /\ (Has(s, 14, 3) => s = 35)
      /\ (Has(s, 15, 3) => s = 31)
      /\ (Has(s, 15, 4) => s = 45)
      /\ (Has(s, 16, 3) => s = 31)
      /\ (Has(s, 16, 5) => s = 54)
  BY DEF Has
<1>4. /\ (Has(s, 19, 2) => s = 14)
      /\ (Has(s, 20, 2) => s = 8)
      /\ (Has(s, 25, 2) => s \in {27, 33})
      /\ (Has(s, 25, 4) => s \in {52, 56})
  BY DEF Has
<1>5. s \in {9, 26, 32} => Enters(s) = ";"
  <2>1. Enters(9) = ";" /\ Enters(26) = ";" /\ Enters(32) = ";"
    BY DEF Enters
  <2> QED  BY <2>1
<1>6. s \in {53, 57} => Enters(s) = ","
  <2>1. Enters(53) = "," /\ Enters(57) = ","
    BY DEF Enters
  <2> QED  BY <2>1
<1>7. s = 10 => Enters(s) = "["
  <2>1. Enters(10) = "["
    BY DEF Enters
  <2> QED  BY <2>1
<1>8. s \in {18, 29, 39, 51} => Enters(s) = "]"
  <2>1. Enters(18) = "]" /\ Enters(29) = "]" /\ Enters(39) = "]" /\ Enters(51) = "]"
    BY DEF Enters
  <2> QED  BY <2>1
<1>9. s \in {8, 14, 25, 31} => Enters(s) = "OptSep"
  <2>1. Enters(8) = "OptSep" /\ Enters(14) = "OptSep" /\ Enters(25) = "OptSep" /\ Enters(31) = "OptSep"
    BY DEF Enters
  <2> QED  BY <2>1
<1>10. s \in {23, 35, 45, 54} => Enters(s) = "edge_attr_close"
  <2>1. Enters(23) = "edge_attr_close" /\ Enters(35) = "edge_attr_close" /\ Enters(45) = "edge_attr_close" /\ Enters(54) = "edge_attr_close"
    BY DEF Enters
  <2> QED  BY <2>1
<1>11. s \in {27, 33} => Enters(s) = "="
  <2>1. Enters(27) = "=" /\ Enters(33) = "="
    BY DEF Enters
  <2> QED  BY <2>1
<1>12. s \in {52, 56} => Enters(s) = "OptAttrSep"
  <2>1. Enters(52) = "OptAttrSep" /\ Enters(56) = "OptAttrSep"
    BY DEF Enters
  <2> QED  BY <2>1
<1>13. /\ (Has(s, 6, 1) => Enters(s) = ";")
       /\ (Has(s, 24, 1) => Enters(s) = ",")
       /\ (Has(s, 7, 2) => Enters(s) = "[")
       /\ (Has(s, 7, 4) => Enters(s) = "]")
       /\ (Has(s, 8, 2) => Enters(s) = "[")
       /\ (Has(s, 8, 4) => Enters(s) = "OptSep")
  BY <1>1, <1>5, <1>6, <1>7, <1>8, <1>9
<1>14. /\ (Has(s, 8, 6) => Enters(s) = "]")
       /\ (Has(s, 9, 2) => Enters(s) = "[")
       /\ (Has(s, 9, 4) => Enters(s) = "OptSep")
       /\ (Has(s, 9, 5) => Enters(s) = "]")
       /\ (Has(s, 10, 2) => Enters(s) = "[")
       /\ (Has(s, 10, 3) => Enters(s) = "]")
  BY <1>2, <1>8, <1>7, <1>9
<1>15. /\ (Has(s, 13, 2) => Enters(s) = "edge_attr_close")
       /\ (Has(s, 14, 3) => Enters(s) = "edge_attr_close")
       /\ (Has(s, 15, 3) => Enters(s) = "OptSep")
       /\ (Has(s, 15, 4) => Enters(s) = "edge_attr_close")
       /\ (Has(s, 16, 3) => Enters(s) = "OptSep")
       /\ (Has(s, 16, 5) => Enters(s) = "edge_attr_close")
  BY <1>3, <1>10, <1>9
<1>16. /\ (Has(s, 19, 2) => Enters(s) = "OptSep")
       /\ (Has(s, 20, 2) => Enters(s) = "OptSep")
       /\ (Has(s, 25, 2) => Enters(s) = "=")
       /\ (Has(s, 25, 4) => Enters(s) = "OptAttrSep")
  BY <1>4, <1>9, <1>11, <1>12
<1> QED  BY <1>13, <1>14, <1>15, <1>16

LEMMA SpanIs ==
    ASSUME NEW r, NEW a, NEW b, NEW x
    PROVE  /\ \A t \in Terminal : Span(r, a, b, t, x) <=> TokenAt(r, a, b, t, x)
           /\ \A A \in {"WholeDoc", "TopLevelDeclList", "TopLevelStmt", "NodeDecl", "EdgeDecl", "EdgeRHS",
                        "OptSep", "OptAttrSep", "AttrItems", "Attr", "AttrVal"} :
                  Span(r, a, b, A, x) <=> Derived(r, a, b, A, x)
<1>1. \A t \in Terminal : t \notin {"WholeDoc", "TopLevelDeclList", "TopLevelStmt", "NodeDecl",
        "EdgeDecl", "EdgeRHS", "OptSep", "OptAttrSep", "AttrItems", "Attr", "AttrVal"}
  BY DEF Terminal
<1> QED  BY <1>1 DEF Span

LEMMA ProductFields ==
    /\ Str(0).n = 0 /\ Str(0) \in StrP /\ AttrsOf(Nil) = << >>
    /\ \A as \in AttrsP : AttrsOf(as) = as.list /\ as.list \in Seq(AttrP)
    /\ \A id \in TokenP, ty \in TokenP \cup StrP, attrs \in {Nil} \cup AttrsP :
          LET nd == NewNode(id, ty, attrs)
          IN  nd \in NodeP /\ nd.id = id.n /\ nd.type = ty.n /\ nd.attrs = AttrsOf(attrs)
    /\ \A k \in TokenP, v \in TokenP \cup StrP :
          NewAttr(k, v).key = k.n /\ NewAttr(k, v).value = v.n /\ v.n \in Nat
    /\ \A tok \in TokenP : Unquote(tok).n = tok.n
<1>1. Str(0).n = 0 /\ Str(0) \in StrP
  BY DEF Str, StrP
<1>2. AttrsOf(Nil) = << >> /\ \A as \in AttrsP : AttrsOf(as) = as.list /\ as.list \in Seq(AttrP)
  BY NilFacts DEF AttrsOf
<1>3. ASSUME NEW id \in TokenP, NEW ty \in TokenP \cup StrP, NEW attrs \in {Nil} \cup AttrsP
      PROVE  LET nd == NewNode(id, ty, attrs)
             IN  nd \in NodeP /\ nd.id = id.n /\ nd.type = ty.n /\ nd.attrs = AttrsOf(attrs)
  <2>1. IsTok(id) /\ IsStr(ty) /\ IsAttrs(attrs)
    BY NilFacts DEF IsTok, IsStr, IsAttrs, TokenP, StrP
  <2> QED  BY <2>1, NewNodeKind DEF NewNode
<1>5. ASSUME NEW k \in TokenP, NEW v \in TokenP \cup StrP
      PROVE  NewAttr(k, v).key = k.n /\ NewAttr(k, v).value = v.n /\ v.n \in Nat
  BY DEF NewAttr, IsTok, IsStr, TokenP, StrP
<1>6. ASSUME NEW tok \in TokenP PROVE Unquote(tok).n = tok.n
  BY DEF Unquote, Str, IsTok, TokenP
<1> QED  BY <1>1, <1>2, <1>3, <1>5, <1>6

LEMMA StepFields ==
    ASSUME NEW arrow \in TokenP, NEW to \in TokenP, NEW ty \in TokenP \cup StrP, NEW attrs \in {Nil} \cup AttrsP
    PROVE  LET made == NewEdgeStep(arrow, to, ty, attrs)
           IN  /\ made \in StepP /\ made.pos = arrow.n /\ made.to = to.n
               /\ made.type = ty.n /\ made.attrs = AttrsOf(attrs)
<1>1. IsTok(arrow) /\ IsTok(to) /\ IsStr(ty) /\ IsAttrs(attrs)
  BY NilFacts DEF IsTok, IsStr, IsAttrs, TokenP, StrP
<1> QED  BY <1>1, NewEdgeStepKind DEF NewEdgeStep

(* Every production makes what its left side stands for of what its right     *)
(* side stands for.                                                          *)
LEMMA SpanMade ==
    ASSUME NEW r \in Seq(Terminal), NEW p \in 1..28, NEW X, NEW st, NEW e,
           \A j \in 0..Length(p) : e[j] \in 0..Len(r),
           \A j \in 1..Length(p) : /\ Has(st[j], p, j) /\ X[j] \in Kind(Enters(st[j]))
                                    /\ Span(r, e[j - 1], e[j], Enters(st[j]), X[j])
    PROVE  Span(r, e[0], e[Length(p)], Left(p), ReduceFunc(p, X))
<1>1. CASE p = 1
  <2> DEFINE made == NewGraph(Nil)
  <2>1. ReduceFunc(p, X) = made /\ Left(p) = "WholeDoc" /\ Length(p) = 0
    BY <1>1, Productions DEF ReduceFunc
  <2>2. e[0] \in 0..Len(r)
    BY <2>1
  <2>3. Derived(r, e[0], e[0], "WholeDoc", made)
    BY <2>2, NoSepSpan
  <2> QED  BY <2>1, <2>3, SpanIs
<1>2. CASE p = 2
  <2> DEFINE made == X[1]
  <2>1. ReduceFunc(p, X) = made /\ Left(p) = "WholeDoc" /\ Length(p) = 1
    BY <1>2, Productions DEF ReduceFunc
  <2>2. /\ e[0] \in 0..Len(r) /\ e[1] \in 0..Len(r)
    BY <2>1
  <2>3. /\ Has(st[1], 2, 1) /\ X[1] \in Kind(Enters(st[1]))
        /\ Span(r, e[0], e[1], Enters(st[1]), X[1])
    BY <1>2, <2>1
  <2>4. /\ X[1] \in Kind("TopLevelDeclList") /\ Span(r, e[0], e[1], "TopLevelDeclList", X[1])
    BY <2>3, Symbols
  <2>5. /\ Derived(r, e[0], e[1], "TopLevelDeclList", X[1]) /\ X[1] \in GraphP
    BY <2>4, SpanIs, KindFacts, TokenSets
  <2>6. Derived(r, e[0], e[1], "WholeDoc", made)
    BY <2>2, <2>5, DocSpan
  <2> QED  BY <2>1, <2>6, SpanIs
<1>3. CASE p = 3
  <2> DEFINE made == NewGraph(X[1])
  <2>1. ReduceFunc(p, X) = made /\ Left(p) = "TopLevelDeclList" /\ Length(p) = 1
    BY <1>3, Productions DEF ReduceFunc
  <2>2. /\ e[0] \in 0..Len(r) /\ e[1] \in 0..Len(r)
    BY <2>1
  <2>3. /\ Has(st[1], 3, 1) /\ X[1] \in Kind(Enters(st[1]))
        /\ Span(r, e[0], e[1], Enters(st[1]), X[1])
    BY <1>3, <2>1
  <2>4. /\ X[1] \in Kind("TopLevelStmt") /\ Span(r, e[0], e[1], "TopLevelStmt", X[1])
    BY <2>3, Symbols
  <2>5. /\ Derived(r, e[0], e[1], "TopLevelStmt", X[1]) /\ X[1] \in NodeP \cup ChainP
    BY <2>4, SpanIs, KindFacts, TokenSets
  <2>6. X[1] \in Item /\ e[0] <= e[0]
    BY <2>2, <2>5 DEF Item
  <2>7. Derived(r, e[0], e[1], "TopLevelDeclList", made)
    BY <2>2, <2>5, <2>6, ListSpan
  <2> QED  BY <2>1, <2>7, SpanIs
<1>4. CASE p = 4
  <2> DEFINE made == AppendGraphItem(X[1], X[2])
  <2>1. ReduceFunc(p, X) = made /\ Left(p) = "TopLevelDeclList" /\ Length(p) = 2
    BY <1>4, Productions DEF ReduceFunc
  <2>2. /\ e[0] \in 0..Len(r) /\ e[1] \in 0..Len(r) /\ e[2] \in 0..Len(r)
    BY <2>1
  <2>3. /\ Has(st[1], 4, 1) /\ X[1] \in Kind(Enters(st[1]))
        /\ Span(r, e[0], e[1], Enters(st[1]), X[1])
        /\ Has(st[2], 4, 2) /\ X[2] \in Kind(Enters(st[2]))
        /\ Span(r, e[1], e[2], Enters(st[2]), X[2])
    BY <1>4, <2>1
  <2>4. /\ X[1] \in Kind("TopLevelDeclList") /\ Span(r, e[0], e[1], "TopLevelDeclList", X[1])
        /\ X[2] \in Kind("TopLevelStmt") /\ Span(r, e[1], e[2], "TopLevelStmt", X[2])
    BY <2>3, Symbols
  <2>5. /\ Derived(r, e[0], e[1], "TopLevelDeclList", X[1]) /\ X[1] \in GraphP
        /\ Derived(r, e[1], e[2], "TopLevelStmt", X[2]) /\ X[2] \in NodeP \cup ChainP
    BY <2>4, SpanIs, KindFacts, TokenSets
  <2>6. X[2] \in Item /\ e[0] <= e[1]
    BY <2>5 DEF Item, Derived
  <2>7. Derived(r, e[0], e[2], "TopLevelDeclList", made)
    BY <2>2, <2>5, <2>6, ListSpan
  <2> QED  BY <2>1, <2>7, SpanIs
<1>5. CASE p = 5
  <2> DEFINE made == Nil
  <2>1. ReduceFunc(p, X) = made /\ Left(p) = "OptSep" /\ Length(p) = 0
    BY <1>5, Productions DEF ReduceFunc
  <2>2. e[0] \in 0..Len(r)
    BY <2>1
  <2>3. Derived(r, e[0], e[0], "OptSep", made)
    BY <2>2, NoSepSpan
  <2> QED  BY <2>1, <2>3, SpanIs
<1>6. CASE p = 6
  <2> DEFINE made == X[1]
  <2>1. ReduceFunc(p, X) = made /\ Left(p) = "OptSep" /\ Length(p) = 1
    BY <1>6, Productions DEF ReduceFunc
  <2>2. /\ e[0] \in 0..Len(r) /\ e[1] \in 0..Len(r)
    BY <2>1
  <2>3. /\ Has(st[1], 6, 1) /\ X[1] \in Kind(Enters(st[1]))
        /\ Span(r, e[0], e[1], Enters(st[1]), X[1])
    BY <1>6, <2>1
  <2>4. /\ X[1] \in Kind(";") /\ Span(r, e[0], e[1], ";", X[1])
    BY <2>3, OtherSymbols
  <2>5. /\ TokenAt(r, e[0], e[1], ";", X[1]) /\ X[1] \in TokenP
    BY <2>4, SpanIs, KindFacts, TokenSets
  <2>6. Derived(r, e[0], e[1], "OptSep", made)
    BY <2>2, <2>5, SepSpan
  <2> QED  BY <2>1, <2>6, SpanIs
<1>7. CASE p = 7
  <2> DEFINE made == NewNode(X[1], Str(0), X[3])
  <2>1. ReduceFunc(p, X) = made /\ Left(p) = "NodeDecl" /\ Length(p) = 4
    BY <1>7, Productions DEF ReduceFunc
  <2>2. /\ e[0] \in 0..Len(r) /\ e[1] \in 0..Len(r) /\ e[2] \in 0..Len(r) /\ e[3] \in 0..Len(r) /\ e[4] \in 0..Len(r)
    BY <2>1
  <2>3. /\ Has(st[1], 7, 1) /\ X[1] \in Kind(Enters(st[1]))
        /\ Span(r, e[0], e[1], Enters(st[1]), X[1])
        /\ Has(st[2], 7, 2) /\ X[2] \in Kind(Enters(st[2]))
        /\ Span(r, e[1], e[2], Enters(st[2]), X[2])
        /\ Has(st[3], 7, 3) /\ X[3] \in Kind(Enters(st[3]))
        /\ Span(r, e[2], e[3], Enters(st[3]), X[3])
        /\ Has(st[4], 7, 4) /\ X[4] \in Kind(Enters(st[4]))
        /\ Span(r, e[3], e[4], Enters(st[4]), X[4])
    BY <1>7, <2>1
  <2>4. /\ X[1] \in Kind("id") /\ Span(r, e[0], e[1], "id", X[1])
        /\ X[2] \in Kind("[") /\ Span(r, e[1], e[2], "[", X[2])
        /\ X[3] \in Kind("AttrItems") /\ Span(r, e[2], e[3], "AttrItems", X[3])
        /\ X[4] \in Kind("]") /\ Span(r, e[3], e[4], "]", X[4])
    <3>1. Enters(st[1]) = "id"
      BY <2>3, Symbols
    <3>2. Enters(st[2]) = "["
      BY <2>3, OtherSymbols
    <3>3. Enters(st[3]) = "AttrItems"
      BY <2>3, Symbols
    <3>4. Enters(st[4]) = "]"
      BY <2>3, OtherSymbols
    <3> QED  BY <2>3, <3>1, <3>2, <3>3, <3>4
  <2>5. /\ TokenAt(r, e[0], e[1], "id", X[1]) /\ X[1] \in TokenP
        /\ TokenAt(r, e[1], e[2], "[", X[2]) /\ X[2] \in TokenP
        /\ Derived(r, e[2], e[3], "AttrItems", X[3]) /\ X[3] \in AttrsP
        /\ TokenAt(r, e[3], e[4], "]", X[4]) /\ X[4] \in TokenP
    BY <2>4, SpanIs, KindFacts, TokenSets
  <2>6. made \in NodeP /\ made.id = X[1].n /\ made.type = 0 /\ made.attrs = X[3].list
    BY <2>5, ProductFields
  <2> HIDE DEF made
  <2>7. Content(r, e[2], e[3], made.type, made.attrs)
    BY <2>2, <2>5, <2>6, ContentAttrs
  <2>8. Derived(r, e[0], e[4], "NodeDecl", made)
    BY <2>2, <2>5, <2>6, <2>7, NodeSpan
  <2> QED  BY <2>1, <2>8, SpanIs
<1>8. CASE p = 8
  <2> DEFINE made == NewNode(X[1], X[3], X[5])
  <2>1. ReduceFunc(p, X) = made /\ Left(p) = "NodeDecl" /\ Length(p) = 6
    BY <1>8, Productions DEF ReduceFunc
  <2>2. /\ e[0] \in 0..Len(r) /\ e[1] \in 0..Len(r) /\ e[2] \in 0..Len(r) /\ e[3] \in 0..Len(r) /\ e[4] \in 0..Len(r) /\ e[5] \in 0..Len(r) /\ e[6] \in 0..Len(r)
    BY <2>1
  <2>3. /\ Has(st[1], 8, 1) /\ X[1] \in Kind(Enters(st[1]))
        /\ Span(r, e[0], e[1], Enters(st[1]), X[1])
        /\ Has(st[2], 8, 2) /\ X[2] \in Kind(Enters(st[2]))
        /\ Span(r, e[1], e[2], Enters(st[2]), X[2])
        /\ Has(st[3], 8, 3) /\ X[3] \in Kind(Enters(st[3]))
        /\ Span(r, e[2], e[3], Enters(st[3]), X[3])
        /\ Has(st[4], 8, 4) /\ X[4] \in Kind(Enters(st[4]))
        /\ Span(r, e[3], e[4], Enters(st[4]), X[4])
        /\ Has(st[5], 8, 5) /\ X[5] \in Kind(Enters(st[5]))
        /\ Span(r, e[4], e[5], Enters(st[5]), X[5])
        /\ Has(st[6], 8, 6) /\ X[6] \in Kind(Enters(st[6]))
        /\ Span(r, e[5], e[6], Enters(st[6]), X[6])
    BY <1>8, <2>1
  <2>4. /\ X[1] \in Kind("id") /\ Span(r, e[0], e[1], "id", X[1])
        /\ X[2] \in Kind("[") /\ Span(r, e[1], e[2], "[", X[2])
        /\ X[3] \in Kind("id") /\ Span(r, e[2], e[3], "id", X[3])
        /\ X[4] \in Kind("OptSep") /\ Span(r, e[3], e[4], "OptSep", X[4])
        /\ X[5] \in Kind("AttrItems") /\ Span(r, e[4], e[5], "AttrItems", X[5])
        /\ X[6] \in Kind("]") /\ Span(r, e[5], e[6], "]", X[6])
    <3>1. Enters(st[1]) = "id"
      BY <2>3, Symbols
    <3>2. Enters(st[2]) = "["
      BY <2>3, OtherSymbols
    <3>3. Enters(st[3]) = "id"
      BY <2>3, Symbols
    <3>4. Enters(st[4]) = "OptSep"
      BY <2>3, OtherSymbols
    <3>5. Enters(st[5]) = "AttrItems"
      BY <2>3, Symbols
    <3>6. Enters(st[6]) = "]"
      BY <2>3, OtherSymbols
    <3> QED  BY <2>3, <3>1, <3>2, <3>3, <3>4, <3>5, <3>6
  <2>5. /\ TokenAt(r, e[0], e[1], "id", X[1]) /\ X[1] \in TokenP
        /\ TokenAt(r, e[1], e[2], "[", X[2]) /\ X[2] \in TokenP
        /\ TokenAt(r, e[2], e[3], "id", X[3]) /\ X[3] \in TokenP
        /\ Derived(r, e[3], e[4], "OptSep", X[4])
        /\ Derived(r, e[4], e[5], "AttrItems", X[5]) /\ X[5] \in AttrsP
        /\ TokenAt(r, e[5], e[6], "]", X[6]) /\ X[6] \in TokenP
    BY <2>4, SpanIs, KindFacts, TokenSets
  <2>6. made \in NodeP /\ made.id = X[1].n /\ made.type = X[3].n /\ made.attrs = X[5].list
    BY <2>5, ProductFields
  <2> HIDE DEF made
  <2>7. Content(r, e[2], e[5], made.type, made.attrs)
    BY <2>2, <2>5, <2>6, ContentBoth
  <2>8. Derived(r, e[0], e[6], "NodeDecl", made)
    BY <2>2, <2>5, <2>6, <2>7, NodeSpan
  <2> QED  BY <2>1, <2>8, SpanIs
<1>9. CASE p = 9
  <2> DEFINE made == NewNode(X[1], X[3], Nil)
  <2>1. ReduceFunc(p, X) = made /\ Left(p) = "NodeDecl" /\ Length(p) = 5
    BY <1>9, Productions DEF ReduceFunc
  <2>2. /\ e[0] \in 0..Len(r) /\ e[1] \in 0..Len(r) /\ e[2] \in 0..Len(r) /\ e[3] \in 0..Len(r) /\ e[4] \in 0..Len(r) /\ e[5] \in 0..Len(r)
    BY <2>1
  <2>3. /\ Has(st[1], 9, 1) /\ X[1] \in Kind(Enters(st[1]))
        /\ Span(r, e[0], e[1], Enters(st[1]), X[1])
        /\ Has(st[2], 9, 2) /\ X[2] \in Kind(Enters(st[2]))
        /\ Span(r, e[1], e[2], Enters(st[2]), X[2])
        /\ Has(st[3], 9, 3) /\ X[3] \in Kind(Enters(st[3]))
        /\ Span(r, e[2], e[3], Enters(st[3]), X[3])
        /\ Has(st[4], 9, 4) /\ X[4] \in Kind(Enters(st[4]))
        /\ Span(r, e[3], e[4], Enters(st[4]), X[4])
        /\ Has(st[5], 9, 5) /\ X[5] \in Kind(Enters(st[5]))
        /\ Span(r, e[4], e[5], Enters(st[5]), X[5])
    BY <1>9, <2>1
  <2>4. /\ X[1] \in Kind("id") /\ Span(r, e[0], e[1], "id", X[1])
        /\ X[2] \in Kind("[") /\ Span(r, e[1], e[2], "[", X[2])
        /\ X[3] \in Kind("id") /\ Span(r, e[2], e[3], "id", X[3])
        /\ X[4] \in Kind("OptSep") /\ Span(r, e[3], e[4], "OptSep", X[4])
        /\ X[5] \in Kind("]") /\ Span(r, e[4], e[5], "]", X[5])
    <3>1. Enters(st[1]) = "id"
      BY <2>3, Symbols
    <3>2. Enters(st[2]) = "["
      BY <2>3, OtherSymbols
    <3>3. Enters(st[3]) = "id"
      BY <2>3, Symbols
    <3>4. Enters(st[4]) = "OptSep"
      BY <2>3, OtherSymbols
    <3>5. Enters(st[5]) = "]"
      BY <2>3, OtherSymbols
    <3> QED  BY <2>3, <3>1, <3>2, <3>3, <3>4, <3>5
  <2>5. /\ TokenAt(r, e[0], e[1], "id", X[1]) /\ X[1] \in TokenP
        /\ TokenAt(r, e[1], e[2], "[", X[2]) /\ X[2] \in TokenP
        /\ TokenAt(r, e[2], e[3], "id", X[3]) /\ X[3] \in TokenP
        /\ Derived(r, e[3], e[4], "OptSep", X[4])
        /\ TokenAt(r, e[4], e[5], "]", X[5]) /\ X[5] \in TokenP
    BY <2>4, SpanIs, KindFacts, TokenSets
  <2>6. made \in NodeP /\ made.id = X[1].n /\ made.type = X[3].n /\ made.attrs = << >>
    BY <2>5, ProductFields
  <2> HIDE DEF made
  <2>7. Content(r, e[2], e[4], made.type, made.attrs)
    BY <2>2, <2>5, <2>6, ContentType
  <2>8. Derived(r, e[0], e[5], "NodeDecl", made)
    BY <2>2, <2>5, <2>6, <2>7, NodeSpan
  <2> QED  BY <2>1, <2>8, SpanIs
<1>10. CASE p = 10
  <2> DEFINE made == NewNode(X[1], Str(0), Nil)
  <2>1. ReduceFunc(p, X) = made /\ Left(p) = "NodeDecl" /\ Length(p) = 3
    BY <1>10, Productions DEF ReduceFunc
  <2>2. /\ e[0] \in 0..Len(r) /\ e[1] \in 0..Len(r) /\ e[2] \in 0..Len(r) /\ e[3] \in 0..Len(r)
    BY <2>1
  <2>3. /\ Has(st[1], 10, 1) /\ X[1] \in Kind(Enters(st[1]))
        /\ Span(r, e[0], e[1], Enters(st[1]), X[1])
        /\ Has(st[2], 10, 2) /\ X[2] \in Kind(Enters(st[2]))
        /\ Span(r, e[1], e[2], Enters(st[2]), X[2])
        /\ Has(st[3], 10, 3) /\ X[3] \in Kind(Enters(st[3]))
        /\ Span(r, e[2], e[3], Enters(st[3]), X[3])
    BY <1>10, <2>1
  <2>4. /\ X[1] \in Kind("id") /\ Span(r, e[0], e[1], "id", X[1])
        /\ X[2] \in Kind("[") /\ Span(r, e[1], e[2], "[", X[2])
        /\ X[3] \in Kind("]") /\ Span(r, e[2], e[3], "]", X[3])
    <3>1. Enters(st[1]) = "id"
      BY <2>3, Symbols
    <3>2. Enters(st[2]) = "["
      BY <2>3, OtherSymbols
    <3>3. Enters(st[3]) = "]"
      BY <2>3, OtherSymbols
    <3> QED  BY <2>3, <3>1, <3>2, <3>3
  <2>5. /\ TokenAt(r, e[0], e[1], "id", X[1]) /\ X[1] \in TokenP
        /\ TokenAt(r, e[1], e[2], "[", X[2]) /\ X[2] \in TokenP
        /\ TokenAt(r, e[2], e[3], "]", X[3]) /\ X[3] \in TokenP
    BY <2>4, SpanIs, KindFacts, TokenSets
  <2>6. made \in NodeP /\ made.id = X[1].n /\ made.type = 0 /\ made.attrs = << >>
    BY <2>5, ProductFields
  <2> HIDE DEF made
  <2>7. Derived(r, e[0], e[3], "NodeDecl", made)
    BY <2>2, <2>5, <2>6, BareNodeSpan
  <2> QED  BY <2>1, <2>7, SpanIs
<1>11. CASE p = 11
  <2> DEFINE made == NewNode(X[1], Str(0), Nil)
  <2>1. ReduceFunc(p, X) = made /\ Left(p) = "NodeDecl" /\ Length(p) = 1
    BY <1>11, Productions DEF ReduceFunc
  <2>2. /\ e[0] \in 0..Len(r) /\ e[1] \in 0..Len(r)
    BY <2>1
  <2>3. /\ Has(st[1], 11, 1) /\ X[1] \in Kind(Enters(st[1]))
        /\ Span(r, e[0], e[1], Enters(st[1]), X[1])
    BY <1>11, <2>1
  <2>4. /\ X[1] \in Kind("id") /\ Span(r, e[0], e[1], "id", X[1])
    BY <2>3, Symbols
  <2>5. /\ TokenAt(r, e[0], e[1], "id", X[1]) /\ X[1] \in TokenP
    BY <2>4, SpanIs, KindFacts, TokenSets
  <2>6. made \in NodeP /\ made.id = X[1].n /\ made.type = 0 /\ made.attrs = << >>
    BY <2>5, ProductFields
  <2> HIDE DEF made
  <2>7. Derived(r, e[0], e[1], "NodeDecl", made)
    BY <2>2, <2>5, <2>6, BareNodeSpan
  <2> QED  BY <2>1, <2>7, SpanIs
<1>12. CASE p = 12
  <2> DEFINE made == NewEdgeStep(X[1], X[2], Str(0), Nil)
  <2>1. ReduceFunc(p, X) = made /\ Left(p) = "EdgeRHS" /\ Length(p) = 2
    BY <1>12, Productions DEF ReduceFunc
  <2>2. /\ e[0] \in 0..Len(r) /\ e[1] \in 0..Len(r) /\ e[2] \in 0..Len(r)
    BY <2>1
  <2>3. /\ Has(st[1], 12, 1) /\ X[1] \in Kind(Enters(st[1]))
        /\ Span(r, e[0], e[1], Enters(st[1]), X[1])
        /\ Has(st[2], 12, 2) /\ X[2] \in Kind(Enters(st[2]))
        /\ Span(r, e[1], e[2], Enters(st[2]), X[2])
    BY <1>12, <2>1
  <2>4. /\ X[1] \in Kind("edgearrow") /\ Span(r, e[0], e[1], "edgearrow", X[1])
        /\ X[2] \in Kind("id") /\ Span(r, e[1], e[2], "id", X[2])
    BY <2>3, Symbols
  <2>5. /\ TokenAt(r, e[0], e[1], "edgearrow", X[1]) /\ X[1] \in TokenP
        /\ TokenAt(r, e[1], e[2], "id", X[2]) /\ X[2] \in TokenP
    BY <2>4, SpanIs, KindFacts, TokenSets
  <2>6. /\ X[1] \in TokenP /\ X[2] \in TokenP /\ Str(0) \in TokenP \cup StrP
        /\ Nil \in {Nil} \cup AttrsP /\ AttrsOf(Nil) = << >>
    BY <2>5, ProductFields
  <2>7. /\ made \in StepP /\ made.pos = X[1].n /\ made.to = X[2].n /\ made.type = Str(0).n
        /\ made.attrs = AttrsOf(Nil)
    BY <2>6, StepFields
  <2>8. made \in StepP /\ made.pos = X[1].n /\ made.to = X[2].n /\ made.type = 0
        /\ made.attrs = << >>
    BY <2>6, <2>7, ProductFields
  <2> HIDE DEF made
  <2>9. Derived(r, e[0], e[2], "EdgeRHS", made)
    BY <2>2, <2>5, <2>8, BareStepSpan
  <2> QED  BY <2>1, <2>9, SpanIs
<1>13. CASE p = 13
  <2> DEFINE made == NewEdgeStep(X[1], X[3], Str(0), Nil)
  <2>1. ReduceFunc(p, X) = made /\ Left(p) = "EdgeRHS" /\ Length(p) = 3
    BY <1>13, Productions DEF ReduceFunc
  <2>2. /\ e[0] \in 0..Len(r) /\ e[1] \in 0..Len(r) /\ e[2] \in 0..Len(r) /\ e[3] \in 0..Len(r)
    BY <2>1
  <2>3. /\ Has(st[1], 13, 1) /\ X[1] \in Kind(Enters(st[1]))
        /\ Span(r, e[0], e[1], Enters(st[1]), X[1])
        /\ Has(st[2], 13, 2) /\ X[2] \in Kind(Enters(st[2]))
        /\ Span(r, e[1], e[2], Enters(st[2]), X[2])
        /\ Has(st[3], 13, 3) /\ X[3] \in Kind(Enters(st[3]))
        /\ Span(r, e[2], e[3], Enters(st[3]), X[3])
    BY <1>13, <2>1
  <2>4. /\ X[1] \in Kind("edge_attr_open") /\ Span(r, e[0], e[1], "edge_attr_open", X[1])
        /\ X[2] \in Kind("edge_attr_close") /\ Span(r, e[1], e[2], "edge_attr_close", X[2])
        /\ X[3] \in Kind("id") /\ Span(r, e[2], e[3], "id", X[3])
    <3>1. Enters(st[1]) = "edge_attr_open"
      BY <2>3, Symbols
    <3>2. Enters(st[2]) = "edge_attr_close"
      BY <2>3, OtherSymbols
    <3>3. Enters(st[3]) = "id"
      BY <2>3, Symbols
    <3> QED  BY <2>3, <3>1, <3>2, <3>3
  <2>5. /\ TokenAt(r, e[0], e[1], "edge_attr_open", X[1]) /\ X[1] \in TokenP
        /\ TokenAt(r, e[1], e[2], "edge_attr_close", X[2]) /\ X[2] \in TokenP
        /\ TokenAt(r, e[2], e[3], "id", X[3]) /\ X[3] \in TokenP
    BY <2>4, SpanIs, KindFacts, TokenSets
  <2>6. /\ X[1] \in TokenP /\ X[3] \in TokenP /\ Str(0) \in TokenP \cup StrP
        /\ Nil \in {Nil} \cup AttrsP /\ AttrsOf(Nil) = << >>
    BY <2>5, ProductFields
  <2>7. /\ made \in StepP /\ made.pos = X[1].n /\ made.to = X[3].n /\ made.type = Str(0).n
        /\ made.attrs = AttrsOf(Nil)
    BY <2>6, StepFields
  <2>8. made \in StepP /\ made.pos = X[1].n /\ made.to = X[3].n /\ made.type = 0
        /\ made.attrs = << >>
    BY <2>6, <2>7, ProductFields
  <2> HIDE DEF made
  <2>9. Derived(r, e[0], e[3], "EdgeRHS", made)
    BY <2>2, <2>5, <2>8, BareStepSpan
  <2> QED  BY <2>1, <2>9, SpanIs
<1>14. CASE p = 14
  <2> DEFINE made == NewEdgeStep(X[1], X[4], Str(0), X[2])
  <2>1. ReduceFunc(p, X) = made /\ Left(p) = "EdgeRHS" /\ Length(p) = 4
    BY <1>14, Productions DEF ReduceFunc
  <2>2. /\ e[0] \in 0..Len(r) /\ e[1] \in 0..Len(r) /\ e[2] \in 0..Len(r) /\ e[3] \in 0..Len(r) /\ e[4] \in 0..Len(r)
    BY <2>1
  <2>3. /\ Has(st[1], 14, 1) /\ X[1] \in Kind(Enters(st[1]))
        /\ Span(r, e[0], e[1], Enters(st[1]), X[1])
        /\ Has(st[2], 14, 2) /\ X[2] \in Kind(Enters(st[2]))
        /\ Span(r, e[1], e[2], Enters(st[2]), X[2])
        /\ Has(st[3], 14, 3) /\ X[3] \in Kind(Enters(st[3]))
        /\ Span(r, e[2], e[3], Enters(st[3]), X[3])
        /\ Has(st[4], 14, 4) /\ X[4] \in Kind(Enters(st[4]))
        /\ Span(r, e[3], e[4], Enters(st[4]), X[4])
    BY <1>14, <2>1
  <2>4. /\ X[1] \in Kind("edge_attr_open") /\ Span(r, e[0], e[1], "edge_attr_open", X[1])
        /\ X[2] \in Kind("AttrItems") /\ Span(r, e[1], e[2], "AttrItems", X[2])
        /\ X[3] \in Kind("edge_attr_close") /\ Span(r, e[2], e[3], "edge_attr_close", X[3])
        /\ X[4] \in Kind("id") /\ Span(r, e[3], e[4], "id", X[4])
    <3>1. Enters(st[1]) = "edge_attr_open"
      BY <2>3, Symbols
    <3>2. Enters(st[2]) = "AttrItems"
      BY <2>3, Symbols
    <3>3. Enters(st[3]) = "edge_attr_close"
      BY <2>3, OtherSymbols
    <3>4. Enters(st[4]) = "id"
      BY <2>3, Symbols
    <3> QED  BY <2>3, <3>1, <3>2, <3>3, <3>4
  <2>5. /\ TokenAt(r, e[0], e[1], "edge_attr_open", X[1]) /\ X[1] \in TokenP
        /\ Derived(r, e[1], e[2], "AttrItems", X[2]) /\ X[2] \in AttrsP
        /\ TokenAt(r, e[2], e[3], "edge_attr_close", X[3]) /\ X[3] \in TokenP
        /\ TokenAt(r, e[3], e[4], "id", X[4]) /\ X[4] \in TokenP
    BY <2>4, SpanIs, KindFacts, TokenSets
  <2>6. /\ X[1] \in TokenP /\ X[4] \in TokenP /\ Str(0) \in TokenP \cup StrP
        /\ X[2] \in {Nil} \cup AttrsP /\ AttrsOf(X[2]) = X[2].list
    BY <2>5, ProductFields
  <2>7. /\ made \in StepP /\ made.pos = X[1].n /\ made.to = X[4].n /\ made.type = Str(0).n
        /\ made.attrs = AttrsOf(X[2])
    BY <2>6, StepFields
  <2>8. made \in StepP /\ made.pos = X[1].n /\ made.to = X[4].n /\ made.type = 0
        /\ made.attrs = X[2].list
    BY <2>6, <2>7, ProductFields
  <2> HIDE DEF made
  <2>9. Content(r, e[1], e[2], made.type, made.attrs)
    BY <2>2, <2>5, <2>8, ContentAttrs
  <2>10. Derived(r, e[0], e[4], "EdgeRHS", made)
    BY <2>2, <2>5, <2>8, <2>9, StepSpan
  <2> QED  BY <2>1, <2>10, SpanIs
<1>15. CASE p = 15
  <2> DEFINE made == NewEdgeStep(X[1], X[5], X[2], Nil)
  <2>1. ReduceFunc(p, X) = made /\ Left(p) = "EdgeRHS" /\ Length(p) = 5
    BY <1>15, Productions DEF ReduceFunc
  <2>2. /\ e[0] \in 0..Len(r) /\ e[1] \in 0..Len(r) /\ e[2] \in 0..Len(r) /\ e[3] \in 0..Len(r) /\ e[4] \in 0..Len(r) /\ e[5] \in 0..Len(r)
    BY <2>1
  <2>3. /\ Has(st[1], 15, 1) /\ X[1] \in Kind(Enters(st[1]))
        /\ Span(r, e[0], e[1], Enters(st[1]), X[1])
        /\ Has(st[2], 15, 2) /\ X[2] \in Kind(Enters(st[2]))
        /\ Span(r, e[1], e[2], Enters(st[2]), X[2])
        /\ Has(st[3], 15, 3) /\ X[3] \in Kind(Enters(st[3]))
        /\ Span(r, e[2], e[3], Enters(st[3]), X[3])
        /\ Has(st[4], 15, 4) /\ X[4] \in Kind(Enters(st[4]))
        /\ Span(r, e[3], e[4], Enters(st[4]), X[4])
        /\ Has(st[5], 15, 5) /\ X[5] \in Kind(Enters(st[5]))
        /\ Span(r, e[4], e[5], Enters(st[5]), X[5])
    BY <1>15, <2>1
  <2>4. /\ X[1] \in Kind("edge_attr_open") /\ Span(r, e[0], e[1], "edge_attr_open", X[1])
        /\ X[2] \in Kind("id") /\ Span(r, e[1], e[2], "id", X[2])
        /\ X[3] \in Kind("OptSep") /\ Span(r, e[2], e[3], "OptSep", X[3])
        /\ X[4] \in Kind("edge_attr_close") /\ Span(r, e[3], e[4], "edge_attr_close", X[4])
        /\ X[5] \in Kind("id") /\ Span(r, e[4], e[5], "id", X[5])
    <3>1. Enters(st[1]) = "edge_attr_open"
      BY <2>3, Symbols
    <3>2. Enters(st[2]) = "id"
      BY <2>3, Symbols
    <3>3. Enters(st[3]) = "OptSep"
      BY <2>3, OtherSymbols
    <3>4. Enters(st[4]) = "edge_attr_close"
      BY <2>3, OtherSymbols
    <3>5. Enters(st[5]) = "id"
      BY <2>3, Symbols
    <3> QED  BY <2>3, <3>1, <3>2, <3>3, <3>4, <3>5
  <2>5. /\ TokenAt(r, e[0], e[1], "edge_attr_open", X[1]) /\ X[1] \in TokenP
        /\ TokenAt(r, e[1], e[2], "id", X[2]) /\ X[2] \in TokenP
        /\ Derived(r, e[2], e[3], "OptSep", X[3])
        /\ TokenAt(r, e[3], e[4], "edge_attr_close", X[4]) /\ X[4] \in TokenP
        /\ TokenAt(r, e[4], e[5], "id", X[5]) /\ X[5] \in TokenP
    BY <2>4, SpanIs, KindFacts, TokenSets
  <2>6. /\ X[1] \in TokenP /\ X[5] \in TokenP /\ X[2] \in TokenP \cup StrP
        /\ Nil \in {Nil} \cup AttrsP /\ AttrsOf(Nil) = << >>
    BY <2>5, ProductFields
  <2>7. /\ made \in StepP /\ made.pos = X[1].n /\ made.to = X[5].n /\ made.type = X[2].n
        /\ made.attrs = AttrsOf(Nil)
    BY <2>6, StepFields
  <2>8. made \in StepP /\ made.pos = X[1].n /\ made.to = X[5].n /\ made.type = X[2].n
        /\ made.attrs = << >>
    BY <2>6, <2>7
  <2> HIDE DEF made
  <2>9. Content(r, e[1], e[3], made.type, made.attrs)
    BY <2>2, <2>5, <2>8, ContentType
  <2>10. Derived(r, e[0], e[5], "EdgeRHS", made)
    BY <2>2, <2>5, <2>8, <2>9, StepSpan
  <2> QED  BY <2>1, <2>10, SpanIs
<1>16. CASE p = 16
  <2> DEFINE made == NewEdgeStep(X[1], X[6], X[2], X[4])
  <2>1. ReduceFunc(p, X) = made /\ Left(p) = "EdgeRHS" /\ Length(p) = 6
    BY <1>16, Productions DEF ReduceFunc
  <2>2. /\ e[0] \in 0..Len(r) /\ e[1] \in 0..Len(r) /\ e[2] \in 0..Len(r) /\ e[3] \in 0..Len(r) /\ e[4] \in 0..Len(r) /\ e[5] \in 0..Len(r) /\ e[6] \in 0..Len(r)
    BY <2>1
  <2>3. /\ Has(st[1], 16, 1) /\ X[1] \in Kind(Enters(st[1]))
        /\ Span(r, e[0], e[1], Enters(st[1]), X[1])
        /\ Has(st[2], 16, 2) /\ X[2] \in Kind(Enters(st[2]))
        /\ Span(r, e[1], e[2], Enters(st[2]), X[2])
        /\ Has(st[3], 16, 3) /\ X[3] \in Kind(Enters(st[3]))
        /\ Span(r, e[2], e[3], Enters(st[3]), X[3])
        /\ Has(st[4], 16, 4) /\ X[4] \in Kind(Enters(st[4]))
        /\ Span(r, e[3], e[4], Enters(st[4]), X[4])
        /\ Has(st[5], 16, 5) /\ X[5] \in Kind(Enters(st[5]))
        /\ Span(r, e[4], e[5], Enters(st[5]), X[5])
        /\ Has(st[6], 16, 6) /\ X[6] \in Kind(Enters(st[6]))
        /\ Span(r, e[5], e[6], Enters(st[6]), X[6])
    BY <1>16, <2>1
  <2>4. /\ X[1] \in Kind("edge_attr_open") /\ Span(r, e[0], e[1], "edge_attr_open", X[1])
        /\ X[2] \in Kind("id") /\ Span(r, e[1], e[2], "id", X[2])
        /\ X[3] \in Kind("OptSep") /\ Span(r, e[2], e[3], "OptSep", X[3])
        /\ X[4] \in Kind("AttrItems") /\ Span(r, e[3], e[4], "AttrItems", X[4])
        /\ X[5] \in Kind("edge_attr_close") /\ Span(r, e[4], e[5], "edge_attr_close", X[5])
        /\ X[6] \in Kind("id") /\ Span(r, e[5], e[6], "id", X[6])
    <3>1. Enters(st[1]) = "edge_attr_open"
      BY <2>3, Symbols
    <3>2. Enters(st[2]) = "id"
      BY <2>3, Symbols
    <3>3. Enters(st[3]) = "OptSep"
      BY <2>3, OtherSymbols
    <3>4. Enters(st[4]) = "AttrItems"
      BY <2>3, Symbols
    <3>5. Enters(st[5]) = "edge_attr_close"
      BY <2>3, OtherSymbols
    <3>6. Enters(st[6]) = "id"
      BY <2>3, Symbols
    <3> QED  BY <2>3, <3>1, <3>2, <3>3, <3>4, <3>5, <3>6
  <2>5. /\ TokenAt(r, e[0], e[1], "edge_attr_open", X[1]) /\ X[1] \in TokenP
        /\ TokenAt(r, e[1], e[2], "id", X[2]) /\ X[2] \in TokenP
        /\ Derived(r, e[2], e[3], "OptSep", X[3])
        /\ Derived(r, e[3], e[4], "AttrItems", X[4]) /\ X[4] \in AttrsP
        /\ TokenAt(r, e[4], e[5], "edge_attr_close", X[5]) /\ X[5] \in TokenP
        /\ TokenAt(r, e[5], e[6], "id", X[6]) /\ X[6] \in TokenP
    BY <2>4, SpanIs, KindFacts, TokenSets
  <2>6. /\ X[1] \in TokenP /\ X[6] \in TokenP /\ X[2] \in TokenP \cup StrP
        /\ X[4] \in {Nil} \cup AttrsP /\ AttrsOf(X[4]) = X[4].list
    BY <2>5, ProductFields
  <2>7. /\ made \in StepP /\ made.pos = X[1].n /\ made.to = X[6].n /\ made.type = X[2].n
        /\ made.attrs = AttrsOf(X[4])
    BY <2>6, StepFields
  <2>8. made \in StepP /\ made.pos = X[1].n /\ made.to = X[6].n /\ made.type = X[2].n
        /\ made.attrs = X[4].list
    BY <2>6, <2>7
  <2> HIDE DEF made
  <2>9. Content(r, e[1], e[4], made.type, made.attrs)
    BY <2>2, <2>5, <2>8, ContentBoth
  <2>10. Derived(r, e[0], e[6], "EdgeRHS", made)
    BY <2>2, <2>5, <2>8, <2>9, StepSpan
  <2> QED  BY <2>1, <2>10, SpanIs
<1>17. CASE p = 17
  <2> DEFINE made == NewEdgeChain(X[1], X[2])
  <2>1. ReduceFunc(p, X) = made /\ Left(p) = "EdgeDecl" /\ Length(p) = 2
    BY <1>17, Productions DEF ReduceFunc
  <2>2. /\ e[0] \in 0..Len(r) /\ e[1] \in 0..Len(r) /\ e[2] \in 0..Len(r)
    BY <2>1
  <2>3. /\ Has(st[1], 17, 1) /\ X[1] \in Kind(Enters(st[1]))
        /\ Span(r, e[0], e[1], Enters(st[1]), X[1])
        /\ Has(st[2], 17, 2) /\ X[2] \in Kind(Enters(st[2]))
        /\ Span(r, e[1], e[2], Enters(st[2]), X[2])
    BY <1>17, <2>1
  <2>4. /\ X[1] \in Kind("id") /\ Span(r, e[0], e[1], "id", X[1])
        /\ X[2] \in Kind("EdgeRHS") /\ Span(r, e[1], e[2], "EdgeRHS", X[2])
    BY <2>3, Symbols
  <2>5. /\ TokenAt(r, e[0], e[1], "id", X[1]) /\ X[1] \in TokenP
        /\ Derived(r, e[1], e[2], "EdgeRHS", X[2]) /\ X[2] \in StepP
    BY <2>4, SpanIs, KindFacts, TokenSets
  <2>6. Derived(r, e[0], e[2], "EdgeDecl", made)
    BY <2>2, <2>5, NewChainSpan
  <2> QED  BY <2>1, <2>6, SpanIs
<1>18. CASE p = 18
  <2> DEFINE made == ExtendEdgeChain(X[1], X[2])
  <2>1. ReduceFunc(p, X) = made /\ Left(p) = "EdgeDecl" /\ Length(p) = 2
    BY <1>18, Productions DEF ReduceFunc
  <2>2. /\ e[0] \in 0..Len(r) /\ e[1] \in 0..Len(r) /\ e[2] \in 0..Len(r)
    BY <2>1
  <2>3. /\ Has(st[1], 18, 1) /\ X[1] \in Kind(Enters(st[1]))
        /\ Span(r, e[0], e[1], Enters(st[1]), X[1])
        /\ Has(st[2], 18, 2) /\ X[2] \in Kind(Enters(st[2]))
        /\ Span(r, e[1], e[2], Enters(st[2]), X[2])
    BY <1>18, <2>1
  <2>4. /\ X[1] \in Kind("EdgeDecl") /\ Span(r, e[0], e[1], "EdgeDecl", X[1])
        /\ X[2] \in Kind("EdgeRHS") /\ Span(r, e[1], e[2], "EdgeRHS", X[2])
    BY <2>3, Symbols
  <2>5. /\ Derived(r, e[0], e[1], "EdgeDecl", X[1]) /\ X[1] \in ChainP
        /\ Derived(r, e[1], e[2], "EdgeRHS", X[2]) /\ X[2] \in StepP
    BY <2>4, SpanIs, KindFacts, TokenSets
  <2>6. Derived(r, e[0], e[2], "EdgeDecl", made)
    BY <2>2, <2>5, LongerChainSpan
  <2> QED  BY <2>1, <2>6, SpanIs
<1>19. CASE p = 19
  <2> DEFINE made == X[1]
  <2>1. ReduceFunc(p, X) = made /\ Left(p) = "TopLevelStmt" /\ Length(p) = 2
    BY <1>19, Productions DEF ReduceFunc
  <2>2. /\ e[0] \in 0..Len(r) /\ e[1] \in 0..Len(r) /\ e[2] \in 0..Len(r)
    BY <2>1
  <2>3. /\ Has(st[1], 19, 1) /\ X[1] \in Kind(Enters(st[1]))
        /\ Span(r, e[0], e[1], Enters(st[1]), X[1])
        /\ Has(st[2], 19, 2) /\ X[2] \in Kind(Enters(st[2]))
        /\ Span(r, e[1], e[2], Enters(st[2]), X[2])
    BY <1>19, <2>1
  <2>4. /\ X[1] \in Kind("EdgeDecl") /\ Span(r, e[0], e[1], "EdgeDecl", X[1])
        /\ X[2] \in Kind("OptSep") /\ Span(r, e[1], e[2], "OptSep", X[2])
    BY <2>3, OtherSymbols, Symbols
  <2>5. /\ Derived(r, e[0], e[1], "EdgeDecl", X[1]) /\ X[1] \in ChainP
        /\ Derived(r, e[1], e[2], "OptSep", X[2])
    BY <2>4, SpanIs, KindFacts, TokenSets
  <2>6. Derived(r, e[0], e[2], "TopLevelStmt", made)
    BY <2>2, <2>5, StmtSpan
  <2> QED  BY <2>1, <2>6, SpanIs
<1>20. CASE p = 20
  <2> DEFINE made == X[1]
  <2>1. ReduceFunc(p, X) = made /\ Left(p) = "TopLevelStmt" /\ Length(p) = 2
    BY <1>20, Productions DEF ReduceFunc
  <2>2. /\ e[0] \in 0..Len(r) /\ e[1] \in 0..Len(r) /\ e[2] \in 0..Len(r)
    BY <2>1
  <2>3. /\ Has(st[1], 20, 1) /\ X[1] \in Kind(Enters(st[1]))
        /\ Span(r, e[0], e[1], Enters(st[1]), X[1])
        /\ Has(st[2], 20, 2) /\ X[2] \in Kind(Enters(st[2]))
        /\ Span(r, e[1], e[2], Enters(st[2]), X[2])
    BY <1>20, <2>1
  <2>4. /\ X[1] \in Kind("NodeDecl") /\ Span(r, e[0], e[1], "NodeDecl", X[1])
        /\ X[2] \in Kind("OptSep") /\ Span(r, e[1], e[2], "OptSep", X[2])
    BY <2>3, OtherSymbols, Symbols
  <2>5. /\ Derived(r, e[0], e[1], "NodeDecl", X[1]) /\ X[1] \in NodeP
        /\ Derived(r, e[1], e[2], "OptSep", X[2])
    BY <2>4, SpanIs, KindFacts, TokenSets
  <2>6. Derived(r, e[0], e[2], "TopLevelStmt", made)
    BY <2>2, <2>5, StmtSpan
  <2> QED  BY <2>1, <2>6, SpanIs
<1>21. CASE p = 21
  <2> DEFINE made == NewAttrs(X[1])
  <2>1. ReduceFunc(p, X) = made /\ Left(p) = "AttrItems" /\ Length(p) = 1
    BY <1>21, Productions DEF ReduceFunc
  <2>2. /\ e[0] \in 0..Len(r) /\ e[1] \in 0..Len(r)
    BY <2>1
  <2>3. /\ Has(st[1], 21, 1) /\ X[1] \in Kind(Enters(st[1]))
        /\ Span(r, e[0], e[1], Enters(st[1]), X[1])
    BY <1>21, <2>1
  <2>4. /\ X[1] \in Kind("Attr") /\ Span(r, e[0], e[1], "Attr", X[1])
    BY <2>3, Symbols
  <2>5. /\ Derived(r, e[0], e[1], "Attr", X[1]) /\ X[1] \in AttrP
    BY <2>4, SpanIs, KindFacts, TokenSets
  <2>6. e[0] <= e[0]
    BY <2>2
  <2>7. Derived(r, e[0], e[1], "AttrItems", made)
    BY <2>2, <2>5, <2>6, AttrItemsSpan
  <2> QED  BY <2>1, <2>7, SpanIs
<1>22. CASE p = 22
  <2> DEFINE made == AddAttr(X[1], X[2])
  <2>1. ReduceFunc(p, X) = made /\ Left(p) = "AttrItems" /\ Length(p) = 2
    BY <1>22, Productions DEF ReduceFunc
  <2>2. /\ e[0] \in 0..Len(r) /\ e[1] \in 0..Len(r) /\ e[2] \in 0..Len(r)
    BY <2>1
  <2>3. /\ Has(st[1], 22, 1) /\ X[1] \in Kind(Enters(st[1]))
        /\ Span(r, e[0], e[1], Enters(st[1]), X[1])
        /\ Has(st[2], 22, 2) /\ X[2] \in Kind(Enters(st[2]))
        /\ Span(r, e[1], e[2], Enters(st[2]), X[2])
    BY <1>22, <2>1
  <2>4. /\ X[1] \in Kind("AttrItems") /\ Span(r, e[0], e[1], "AttrItems", X[1])
        /\ X[2] \in Kind("Attr") /\ Span(r, e[1], e[2], "Attr", X[2])
    BY <2>3, Symbols
  <2>5. /\ Derived(r, e[0], e[1], "AttrItems", X[1]) /\ X[1] \in AttrsP
        /\ Derived(r, e[1], e[2], "Attr", X[2]) /\ X[2] \in AttrP
    BY <2>4, SpanIs, KindFacts, TokenSets
  <2>6. e[0] <= e[1]
    BY <2>5 DEF Derived
  <2>7. Derived(r, e[0], e[2], "AttrItems", made)
    BY <2>2, <2>5, <2>6, AttrItemsSpan
  <2> QED  BY <2>1, <2>7, SpanIs
<1>23. CASE p = 23
  <2> DEFINE made == Nil
  <2>1. ReduceFunc(p, X) = made /\ Left(p) = "OptAttrSep" /\ Length(p) = 0
    BY <1>23, Productions DEF ReduceFunc
  <2>2. e[0] \in 0..Len(r)
    BY <2>1
  <2>3. Derived(r, e[0], e[0], "OptAttrSep", made)
    BY <2>2, NoSepSpan
  <2> QED  BY <2>1, <2>3, SpanIs
<1>24. CASE p = 24
  <2> DEFINE made == X[1]
  <2>1. ReduceFunc(p, X) = made /\ Left(p) = "OptAttrSep" /\ Length(p) = 1
    BY <1>24, Productions DEF ReduceFunc
  <2>2. /\ e[0] \in 0..Len(r) /\ e[1] \in 0..Len(r)
    BY <2>1
  <2>3. /\ Has(st[1], 24, 1) /\ X[1] \in Kind(Enters(st[1]))
        /\ Span(r, e[0], e[1], Enters(st[1]), X[1])
    BY <1>24, <2>1
  <2>4. /\ X[1] \in Kind(",") /\ Span(r, e[0], e[1], ",", X[1])
    BY <2>3, OtherSymbols
  <2>5. /\ TokenAt(r, e[0], e[1], ",", X[1]) /\ X[1] \in TokenP
    BY <2>4, SpanIs, KindFacts, TokenSets
  <2>6. Derived(r, e[0], e[1], "OptAttrSep", made)
    BY <2>2, <2>5, SepSpan
  <2> QED  BY <2>1, <2>6, SpanIs
<1>25. CASE p = 25
  <2> DEFINE made == NewAttr(X[1], X[3])
  <2>1. ReduceFunc(p, X) = made /\ Left(p) = "Attr" /\ Length(p) = 4
    BY <1>25, Productions DEF ReduceFunc
  <2>2. /\ e[0] \in 0..Len(r) /\ e[1] \in 0..Len(r) /\ e[2] \in 0..Len(r) /\ e[3] \in 0..Len(r) /\ e[4] \in 0..Len(r)
    BY <2>1
  <2>3. /\ Has(st[1], 25, 1) /\ X[1] \in Kind(Enters(st[1]))
        /\ Span(r, e[0], e[1], Enters(st[1]), X[1])
        /\ Has(st[2], 25, 2) /\ X[2] \in Kind(Enters(st[2]))
        /\ Span(r, e[1], e[2], Enters(st[2]), X[2])
        /\ Has(st[3], 25, 3) /\ X[3] \in Kind(Enters(st[3]))
        /\ Span(r, e[2], e[3], Enters(st[3]), X[3])
        /\ Has(st[4], 25, 4) /\ X[4] \in Kind(Enters(st[4]))
        /\ Span(r, e[3], e[4], Enters(st[4]), X[4])
    BY <1>25, <2>1
  <2>4. /\ X[1] \in Kind("id") /\ Span(r, e[0], e[1], "id", X[1])
        /\ X[2] \in Kind("=") /\ Span(r, e[1], e[2], "=", X[2])
        /\ X[3] \in Kind("AttrVal") /\ Span(r, e[2], e[3], "AttrVal", X[3])
        /\ X[4] \in Kind("OptAttrSep") /\ Span(r, e[3], e[4], "OptAttrSep", X[4])
    <3>1. Enters(st[1]) = "id"
      BY <2>3, Symbols
    <3>2. Enters(st[2]) = "="
      BY <2>3, OtherSymbols
    <3>3. Enters(st[3]) = "AttrVal"
      BY <2>3, Symbols
    <3>4. Enters(st[4]) = "OptAttrSep"
      BY <2>3, OtherSymbols
    <3> QED  BY <2>3, <3>1, <3>2, <3>3, <3>4
  <2>5. /\ TokenAt(r, e[0], e[1], "id", X[1]) /\ X[1] \in TokenP
        /\ TokenAt(r, e[1], e[2], "=", X[2]) /\ X[2] \in TokenP
        /\ Derived(r, e[2], e[3], "AttrVal", X[3]) /\ X[3] \in TokenP \cup StrP
        /\ Derived(r, e[3], e[4], "OptAttrSep", X[4])
    BY <2>4, SpanIs, KindFacts, TokenSets
  <2>6. made.key = X[1].n /\ made.value = X[3].n /\ X[3].n \in Nat
    BY <2>5, ProductFields
  <2> HIDE DEF made
  <2>7. Derived(r, e[0], e[4], "Attr", made)
    BY <2>2, <2>5, <2>6, AttrSpan
  <2> QED  BY <2>1, <2>7, SpanIs
<1>26. CASE p = 26
  <2> DEFINE made == X[1]
  <2>1. ReduceFunc(p, X) = made /\ Left(p) = "AttrVal" /\ Length(p) = 1
    BY <1>26, Productions DEF ReduceFunc
  <2>2. /\ e[0] \in 0..Len(r) /\ e[1] \in 0..Len(r)
    BY <2>1
  <2>3. /\ Has(st[1], 26, 1) /\ X[1] \in Kind(Enters(st[1]))
        /\ Span(r, e[0], e[1], Enters(st[1]), X[1])
    BY <1>26, <2>1
  <2>4. /\ X[1] \in Kind("id") /\ Span(r, e[0], e[1], "id", X[1])
    BY <2>3, Symbols
  <2>5. /\ TokenAt(r, e[0], e[1], "id", X[1]) /\ X[1] \in TokenP
    BY <2>4, SpanIs, KindFacts, TokenSets
  <2>6. Derived(r, e[0], e[1], "AttrVal", made)
    BY <2>2, <2>5, ValSpan
  <2> QED  BY <2>1, <2>6, SpanIs
<1>27. CASE p = 27
  <2> DEFINE made == X[1]
  <2>1. ReduceFunc(p, X) = made /\ Left(p) = "AttrVal" /\ Length(p) = 1
    BY <1>27, Productions DEF ReduceFunc
  <2>2. /\ e[0] \in 0..Len(r) /\ e[1] \in 0..Len(r)
    BY <2>1
  <2>3. /\ Has(st[1], 27, 1) /\ X[1] \in Kind(Enters(st[1]))
        /\ Span(r, e[0], e[1], Enters(st[1]), X[1])
    BY <1>27, <2>1
  <2>4. /\ X[1] \in Kind("numeric_literal") /\ Span(r, e[0], e[1], "numeric_literal", X[1])
    BY <2>3, Symbols
  <2>5. /\ TokenAt(r, e[0], e[1], "numeric_literal", X[1]) /\ X[1] \in TokenP
    BY <2>4, SpanIs, KindFacts, TokenSets
  <2>6. Derived(r, e[0], e[1], "AttrVal", made)
    BY <2>2, <2>5, ValSpan
  <2> QED  BY <2>1, <2>6, SpanIs
<1>28. CASE p = 28
  <2> DEFINE made == Unquote(X[1])
  <2>1. ReduceFunc(p, X) = made /\ Left(p) = "AttrVal" /\ Length(p) = 1
    BY <1>28, Productions DEF ReduceFunc
  <2>2. /\ e[0] \in 0..Len(r) /\ e[1] \in 0..Len(r)
    BY <2>1
  <2>3. /\ Has(st[1], 28, 1) /\ X[1] \in Kind(Enters(st[1]))
        /\ Span(r, e[0], e[1], Enters(st[1]), X[1])
    BY <1>28, <2>1
  <2>4. /\ X[1] \in Kind("quoted_string") /\ Span(r, e[0], e[1], "quoted_string", X[1])
    BY <2>3, Symbols
  <2>5. /\ TokenAt(r, e[0], e[1], "quoted_string", X[1]) /\ X[1] \in TokenP
    BY <2>4, SpanIs, KindFacts, TokenSets
  <2>6. made.n = X[1].n
    BY <2>5, ProductFields
  <2> HIDE DEF made
  <2>7. Derived(r, e[0], e[1], "AttrVal", made)
    BY <2>2, <2>5, <2>6, ValSpan
  <2> QED  BY <2>1, <2>7, SpanIs
<1> QED  BY <1>1, <1>2, <1>3, <1>4, <1>5, <1>6, <1>7, <1>8, <1>9, <1>10, <1>11, <1>12,
            <1>13, <1>14, <1>15, <1>16, <1>17, <1>18, <1>19, <1>20, <1>21,
            <1>22, <1>23, <1>24, <1>25, <1>26, <1>27, <1>28

-----------------------------------------------------------------------------
(* The spans of a text remain when it grows.                                  *)
LEMMA SpanGrows ==
    ASSUME NEW r \in Seq(Terminal), NEW t \in Terminal, NEW a \in 0..Len(r), NEW b \in 0..Len(r),
           NEW X, NEW x, Span(r, a, b, X, x)
    PROVE  Span(Append(r, t), a, b, X, x)
<1> DEFINE r2 == Append(r, t)
<1>1. Len(r) \in Nat /\ \A i \in 1..Len(r) : r2[i] = r[i]
  BY AppendFacts
<1>2. \A i \in 0..Len(r) : SubSeq(r2, i + 1, b) = SubSeq(r, i + 1, b)
  <2> SUFFICES ASSUME NEW i \in 0..Len(r) PROVE SubSeq(r2, i + 1, b) = SubSeq(r, i + 1, b)
    OBVIOUS
  <2>1. r2 \in Seq(Terminal) /\ Len(r2) = Len(r) + 1
    BY AppendFacts
  <2> HIDE DEF r2
  <2> DEFINE u == SubSeq(r2, i + 1, b)
             v == SubSeq(r, i + 1, b)
             K == IF i <= b THEN b - i ELSE 0
  <2>2. /\ u \in Seq(Terminal) /\ Len(u) = K /\ \A j \in 1..K : u[j] = r2[i + j]
    BY <2>1
  <2>3. /\ v \in Seq(Terminal) /\ Len(v) = K /\ \A j \in 1..K : v[j] = r[i + j]
    OBVIOUS
  <2>4. \A j \in 1..K : i + j \in 1..Len(r)
    OBVIOUS
  <2> HIDE DEF u, v, K
  <2>5. \A j \in 1..K : u[j] = v[j]
    BY <1>1, <2>2, <2>3, <2>4
  <2>6. u = v
    BY <2>2, <2>3, <2>5
  <2> QED  BY <2>6 DEF u, v
<1>3. CASE X \in Terminal
  <2>1. b = a + 1 /\ r[b] = X /\ x.n = b
    BY <1>3 DEF Span, TokenAt
  <2>2. r2[b] = X
    BY <1>1, <2>1
  <2> QED  BY <1>3, <2>1, <2>2 DEF Span, TokenAt
<1>4. CASE X \notin Terminal
  <2>1. Derived(r, a, b, X, x)
    BY <1>4 DEF Span
  <2>2. a < b => r2[b] # "[" /\ r2[a + 1] = r[a + 1] /\ a + 1 \in 0..Len(r)
    BY <1>1, <2>1 DEF Derived
  <2>3. SaidIn(r2, a, b) = SaidIn(r, a, b)
    <3>1. ASSUME NEW n \in a + 1..b PROVE Word(r2, n) = Word(r, n)
      <4>1. n \in 1..Len(r) /\ r2[n] = r[n]
        BY <1>1
      <4>2. CASE r[n] = "["
        <5>1. n # b
          BY <2>1, <4>2 DEF Derived
        <5>2. n + 1 \in 1..Len(r)
          BY <1>1, <4>1, <5>1
        <5>3. r2[n + 1] = r[n + 1]
          BY <1>1, <5>2
        <5> HIDE DEF r2
        <5> QED  BY <4>1, <5>3 DEF Word
      <4>3. CASE r[n] # "["
        <5> HIDE DEF r2
        <5> QED  BY <4>1, <4>3 DEF Word
      <4> QED  BY <4>2, <4>3
    <3> QED  BY <3>1, SaidInSame
  <2>4. \A A : \A i \in 0..Len(r) : Reads(A, r, i, b) => Reads(A, r2, i, b)
    BY <1>2 DEF Reads
  <2> HIDE DEF r2
  <2>5. Derived(r2, a, b, X, x)
    <3>1. /\ a <= b /\ (X \notin {"OptSep", "OptAttrSep", "WholeDoc"} => a < b)
          /\ SaidIn(r2, a, b) = Says(X, x)
          /\ Reads(Lang(X), r2, a, b)
      BY <2>1, <2>3, <2>4 DEF Derived
    <3>2. X = "EdgeDecl" => Reads(Plus(EdgeRHS), r2, a + 1, b)
      BY <2>1, <2>2, <2>4 DEF Derived
    <3>3. /\ X \in {"Attr", "AttrItems", "EdgeDecl"} => r2[a + 1] = "id"
          /\ X = "AttrItems" => x.list # << >>
      BY <2>1, <2>2 DEF Derived
    <3> QED  BY <2>2, <3>1, <3>2, <3>3 DEF Derived
  <2> QED  BY <1>4, <2>5 DEF Span, r2
<1> QED  BY <1>3, <1>4

(* The stack cuts what has been read into the parts that its products stand   *)
(* for.                                                                      *)
Cut(s, r, c) ==
    /\ c \in [1..Len(s) -> 0..Len(r)] /\ c[1] = 0 /\ c[Len(s)] = Len(r)
    /\ \A d \in 2..Len(s) : Span(r, c[d - 1], c[d], Enters(s[d].state), s[d].product)

ReadInv ==
    /\ \E c : Cut(stack, read, c)
    /\ nextToken # NoToken => nextToken.n = Len(read) + 1
    /\ nextToken = NoToken => read = << >>

LEMMA RealToken == \A tok \in TokenP : tok # NoToken
<1>1. NoToken.type = "none" /\ "none" \notin Terminal
  BY DEF NoToken, Tok, Terminal
<1>2. \A tok \in TokenP : tok.type \in Terminal
  BY DEF TokenP
<1> QED  BY <1>1, <1>2

LEMMA InitRead == ParserInit => ReadInv
<1> SUFFICES ASSUME ParserInit PROVE ReadInv
  OBVIOUS
<1> DEFINE c == [d \in 1..1 |-> 0]
<1>1. Len(stack) = 1 /\ read = << >> /\ Len(read) = 0 /\ nextToken = NoToken
  BY DEF ParserInit
<1>2. c \in [1..1 -> 0..0] /\ c[1] = 0 /\ \A d \in 2..1 : FALSE
  OBVIOUS
<1> HIDE DEF c
<1>3. Cut(stack, read, c)
  BY <1>1, <1>2 DEF Cut
<1> QED  BY <1>1, <1>3 DEF ReadInv

LEMMA FirstTokenReads ==
    ASSUME ReadInv, NEW tok \in TokenP, tok.n = 1, FirstToken(tok)
    PROVE  ReadInv'
<1>1. nextToken = NoToken /\ nextToken' = tok /\ stack' = stack /\ read' = read
  BY DEF FirstToken
<1>2. read = << >> /\ Len(read) = 0 /\ \E c : Cut(stack, read, c)
  BY <1>1 DEF ReadInv
<1>3. tok # NoToken
  BY RealToken
<1> QED  BY <1>1, <1>2, <1>3 DEF ReadInv

LEMMA ShiftTokenReads ==
    ASSUME ParserInv, ReadInv, NEW tok \in TokenP, tok.n = Len(read) + 2, ShiftToken(tok)
    PROVE  ReadInv'
<1> DEFINE top == [state |-> Arg, product |-> nextToken]
           t == nextToken.type
<1>1. HasAction("shift") /\ nextToken' = tok /\ stack' = Append(stack, top) /\ read' = Append(read, t)
  BY DEF ShiftToken
<1>2. t \in Terminal /\ nextToken \in TokenP /\ Leads(Top, t, Arg)
  BY <1>1, Acts
<1>3. Enters(top.state) = t /\ top.product = nextToken
  BY <1>2 DEF Leads
<1>4. nextToken # NoToken /\ tok # NoToken
  BY <1>2, RealToken
<1>5. read \in Seq(Terminal) /\ StackOK(stack) /\ Len(stack) \in Nat \ {0}
  BY TopFacts DEF ParserInv
<1> HIDE DEF top, t
<1> DEFINE K == Len(stack)
           N == Len(read)
<1>6. K \in Nat \ {0} /\ N \in Nat /\ nextToken.n = N + 1
  BY <1>4, <1>5 DEF ReadInv
<1>7. PICK c : Cut(stack, read, c)
  BY DEF ReadInv
<1>8. /\ Len(stack') = K + 1 /\ (\A d \in 1..K : stack'[d] = stack[d]) /\ stack'[K + 1] = top
  <2>1. \E S : stack \in Seq(S) /\ top \in S
    <3>1. stack \in Seq(Element \cup {top}) /\ top \in Element \cup {top}
      BY <1>5 DEF StackOK
    <3> QED  BY <3>1
  <2> QED  BY <1>1, <2>1, AppendFacts
<1>9. /\ Len(read') = N + 1 /\ read' \in Seq(Terminal) /\ read'[N + 1] = t
  BY <1>1, <1>2, <1>5, AppendFacts
<1> HIDE DEF K, N
<1> DEFINE c2 == [d \in 1..K + 1 |-> IF d = K + 1 THEN N + 1 ELSE c[d]]
<1>10. /\ c \in [1..K -> 0..N] /\ c[1] = 0 /\ c[K] = N
       /\ \A d \in 2..K : Span(read, c[d - 1], c[d], Enters(stack[d].state), stack[d].product)
  BY <1>7 DEF Cut, K, N
<1>11. /\ c2 \in [1..K + 1 -> 0..N + 1] /\ c2[K + 1] = N + 1 /\ \A d \in 1..K : c2[d] = c[d]
  BY <1>6, <1>10
<1> HIDE DEF c2
<1>12. c2[1] = 0
  BY <1>6, <1>10, <1>11
<1>13. ASSUME NEW d \in 2..K + 1
       PROVE  Span(read', c2[d - 1], c2[d], Enters(stack'[d].state), stack'[d].product)
  <2>1. CASE d = K + 1
    <3>1. d - 1 = K /\ K \in 1..K
      BY <1>6, <2>1
    <3>2. c2[d - 1] = N /\ c2[d] = N + 1 /\ stack'[d] = top
      BY <1>8, <1>10, <1>11, <2>1, <3>1
    <3>3. Span(read', N, N + 1, t, nextToken)
      BY <1>2, <1>6, <1>9 DEF Span, TokenAt
    <3> QED  BY <1>3, <3>2, <3>3
  <2>2. CASE d # K + 1
    <3>1. d \in 2..K /\ d \in 1..K /\ d - 1 \in 1..K
      BY <1>6, <2>2
    <3>2. c2[d - 1] = c[d - 1] /\ c2[d] = c[d] /\ stack'[d] = stack[d]
      BY <1>8, <1>11, <3>1
    <3>3. Span(read, c[d - 1], c[d], Enters(stack[d].state), stack[d].product)
      BY <1>10, <3>1
    <3>4. c[d - 1] \in 0..Len(read) /\ c[d] \in 0..Len(read)
      BY <1>10, <3>1 DEF N
    <3>5. Span(read', c[d - 1], c[d], Enters(stack[d].state), stack[d].product)
      BY <1>1, <1>2, <1>5, <3>3, <3>4, SpanGrows
    <3> QED  BY <3>2, <3>5
  <2> QED  BY <2>1, <2>2
<1>14. Cut(stack', read', c2)
  BY <1>8, <1>9, <1>11, <1>12, <1>13 DEF Cut
<1>15. nextToken'.n = Len(read') + 1
  BY <1>1, <1>6, <1>9 DEF N
<1>16. nextToken' # NoToken
  BY <1>1, <1>4
<1> QED  BY <1>14, <1>15, <1>16 DEF ReadInv

(* A reduction takes the last parts off the stack, and puts the whole of them *)
(* in their place.                                                           *)
LEMMA CutReduced ==
    ASSUME NEW s \in Seq(Element), NEW r, NEW c, Cut(s, r, c), Len(r) \in Nat,
           NEW len \in 1..Len(s), NEW top \in Element,
           Span(r, c[len], c[Len(s)], Enters(top.state), top.product)
    PROVE  \E c2 : Cut(Append(SubSeq(s, 1, len), top), r, c2)
<1> DEFINE s2 == Append(SubSeq(s, 1, len), top)
           c2 == [d \in 1..len + 1 |-> IF d = len + 1 THEN c[Len(s)] ELSE c[d]]
           N  == Len(r)
<1>1. /\ Len(s2) = len + 1 /\ (\A d \in 1..len : s2[d] = s[d]) /\ s2[len + 1] = top
  <2> DEFINE u == SubSeq(s, 1, len)
  <2>1. u \in Seq(Element) /\ Len(u) = len /\ \A d \in 1..len : u[d] = s[d]
    OBVIOUS
  <2> HIDE DEF u
  <2>2. /\ Len(Append(u, top)) = len + 1 /\ (\A d \in 1..len : Append(u, top)[d] = u[d])
        /\ Append(u, top)[len + 1] = top
    BY <2>1, AppendFacts
  <2>3. s2 = Append(u, top)
    BY DEF u
  <2> HIDE DEF s2
  <2> QED  BY <2>1, <2>2, <2>3
<1>2. /\ c \in [1..Len(s) -> 0..N] /\ c[1] = 0 /\ c[Len(s)] = N
      /\ \A d \in 2..Len(s) : Span(r, c[d - 1], c[d], Enters(s[d].state), s[d].product)
  BY DEF Cut
<1>3. Len(s) \in 1..Len(s) /\ len \in Nat \ {0}
  OBVIOUS
<1>4. /\ c2 \in [1..len + 1 -> 0..N] /\ c2[len + 1] = N /\ \A d \in 1..len : c2[d] = c[d]
  <2>1. N \in Nat /\ N \in 0..N
    OBVIOUS
  <2> HIDE DEF N
  <2>7. \A d \in 1..len : d \in 1..Len(s) /\ d # len + 1
    BY <1>3
  <2>2. \A d \in 1..len : c[d] \in 0..N /\ d # len + 1
    <3>1. \A d \in 1..Len(s) : c[d] \in 0..N
      BY <1>2
    <3> QED  BY <2>7, <3>1
  <2>3. \A d \in 1..len + 1 : d \in 1..len \/ d = len + 1
    BY <1>3
  <2>4. c[Len(s)] = N
    BY <1>2
  <2>5. \A d \in 1..len + 1 : (IF d = len + 1 THEN c[Len(s)] ELSE c[d]) \in 0..N
    BY <2>1, <2>2, <2>3, <2>4
  <2>6. len + 1 \in 1..len + 1 /\ \A d \in 1..len : d \in 1..len + 1
    BY <1>3
  <2> QED  BY <2>2, <2>4, <2>5, <2>6
<1> HIDE DEF c2, s2, N
<1>5. c2[1] = 0
  BY <1>2, <1>3, <1>4
<1>6. ASSUME NEW d \in 2..len + 1
      PROVE  Span(r, c2[d - 1], c2[d], Enters(s2[d].state), s2[d].product)
  <2>1. CASE d = len + 1
    <3>1. d - 1 = len /\ len \in 1..len
      BY <1>3, <2>1
    <3>2. c2[d - 1] = c[len] /\ c2[d] = c[Len(s)] /\ s2[d] = top
      BY <1>1, <1>2, <1>4, <2>1, <3>1
    <3> QED  BY <3>2
  <2>2. CASE d # len + 1
    <3>1. d \in 2..Len(s) /\ d \in 1..len /\ d - 1 \in 1..len
      BY <1>3, <2>2
    <3>2. c2[d - 1] = c[d - 1] /\ c2[d] = c[d] /\ s2[d] = s[d]
      BY <1>1, <1>4, <3>1
    <3> QED  BY <1>2, <3>1, <3>2
  <2> QED  BY <2>1, <2>2
<1>7. Cut(s2, r, c2)
  BY <1>1, <1>4, <1>5, <1>6 DEF Cut, N
<1> QED  BY <1>7 DEF s2

LEMMA ReduceProdReads ==
    ASSUME ParserInv, ReadInv, ReduceProd
    PROVE  ReadInv'
<1> DEFINE p     == Arg
           n     == ProdTab[Arg][2]
           len   == Len(stack) - n
           X     == [j \in 1..n |-> stack[len + j].product]
           st    == [j \in 1..n |-> stack[len + j].state]
           below == stack[len].state
           made  == ReduceFunc(Arg, X)
           A     == ProdTab[Arg][1]
           top   == [state |-> GotoTab[below][A], product |-> made]
<1>1. /\ HasAction("reduce") /\ res = "parsing" /\ nextToken' = nextToken /\ read' = read
      /\ made = Failed \/ stack' = Append(SubSeq(stack, 1, len), top)
  BY DEF ReduceProd
<1>2. p \in 1..28 /\ CanReduce(Top, p) /\ n = Length(p) /\ A = Left(p)
  BY <1>1, Acts DEF CanReduce, Length, Left
<1>3. StackOK(stack) /\ Len(stack) \in Nat \ {0} /\ stack \in Seq(Element) /\ read \in Seq(Terminal)
  BY TopFacts DEF ParserInv, StackOK
<1>4. /\ len \in 1..Len(stack) /\ Awaited(below, Left(p)) /\ n \in 0..6
      /\ \A j \in 1..n : /\ Has(st[j], p, j) /\ X[j] \in Kind(Enters(st[j]))
                          /\ len + j \in 1..Len(stack)
  <2>1. CASE n = 0
    <3>1. len = Len(stack) /\ Awaited(Top, Left(p))
      BY <1>2, <1>3, <2>1 DEF CanReduce
    <3> QED  BY <1>3, <2>1, <3>1 DEF Top
  <2>2. CASE n # 0
    <3>1. Has(stack[Len(stack)].state, p, n)
      BY <1>2, <2>2 DEF CanReduce, Top
    <3>2. n \in 1..6
      BY <3>1, HasFacts, Zenon
    <3> HIDE DEF n, p
    <3>3. /\ Len(stack) - n \in 1..Len(stack) /\ Awaited(stack[Len(stack) - n].state, Left(p))
          /\ \A j \in 1..n : /\ Len(stack) - n + j \in 1..Len(stack)
                              /\ Has(stack[Len(stack) - n + j].state, p, j)
                              /\ stack[Len(stack) - n + j].product \in
                                    Kind(Enters(stack[Len(stack) - n + j].state))
      BY <1>3, <3>1, <3>2, Handle
    <3>4. \A j \in 1..n : /\ st[j] = stack[Len(stack) - n + j].state
                          /\ X[j] = stack[Len(stack) - n + j].product
      OBVIOUS
    <3> HIDE DEF st, X
    <3>5. \A j \in 1..n : Has(st[j], p, j) /\ X[j] \in Kind(Enters(st[j]))
      BY <3>3, <3>4
    <3> QED  BY <3>2, <3>3, <3>5
  <2> QED  BY <2>1, <2>2
<1>5. made \in Kind(Left(p))
  <2> HIDE DEF X, st, n, p
  <2>1. made = ReduceFunc(p, X)
    BY DEF p
  <2> QED  BY <1>2, <1>4, <2>1, ReduceKinds
<1>6. made # Failed
  <2>1. \A x \in Product : x # Failed
    BY DEF Product, Failed, TokenP, StrP, AttrP, AttrsP, NodeP, StepP, ChainP, GraphP, Nil
  <2> QED  BY <1>5, <2>1, KindIn
<1>7. Leads(below, A, GotoTab[below][A])
  BY <1>2, <1>4, GotoFacts
<1>8. top.state = GotoTab[below][A] /\ top.product = made
  OBVIOUS
<1>9. Enters(top.state) = A /\ top \in Element
  <2> DEFINE to == GotoTab[below][A]
  <2>1. to \in 0..58 /\ Enters(to) = A
    <3>1. Leads(below, A, to)
      BY <1>7
    <3> HIDE DEF to, A, below
    <3> QED  BY <3>1 DEF Leads
  <2>2. made \in Product
    BY <1>5, KindIn
  <2> QED  BY <2>1, <2>2 DEF Element
<1>10. PICK c : Cut(stack, read, c)
  BY DEF ReadInv
<1> DEFINE e == [j \in 0..n |-> c[len + j]]
<1>12. \A j \in 1..n : st[j] = stack[len + j].state /\ X[j] = stack[len + j].product
  OBVIOUS
<1>13. len + n = Len(stack) /\ len + 0 = len
  <2>1. Len(stack) \in Nat /\ n \in Nat
    BY <1>3, <1>4
  <2> DEFINE K == Len(stack)
  <2> HIDE DEF K, n
  <2>2. (K - n) + n = K /\ (K - n) + 0 = K - n
    BY <2>1 DEF K
  <2> QED  BY <2>2 DEF K
<1>11. \A j \in 0..n : e[j] = c[len + j] /\ len + j \in 1..Len(stack)
  <2>1. \A j \in 0..n : e[j] = c[len + j]
    OBVIOUS
  <2> HIDE DEF e, len, n
  <2>2. \A j \in 0..n : len + j \in 1..Len(stack)
    BY <1>3, <1>4, <1>13
  <2> QED  BY <2>1, <2>2
<1>14. stack' = Append(SubSeq(stack, 1, len), top)
  BY <1>1, <1>6
<1>20. made = ReduceFunc(p, X)
  OBVIOUS
<1> HIDE DEF top, made, len, e, st, X, A, n, p
<1>15. c \in [1..Len(stack) -> 0..Len(read)]
       /\ \A d \in 2..Len(stack) : Span(read, c[d - 1], c[d], Enters(stack[d].state), stack[d].product)
  BY <1>10 DEF Cut
<1>16. \A j \in 0..n : e[j] \in 0..Len(read)
  BY <1>11, <1>15
<1>17. ASSUME NEW j \in 1..n PROVE Span(read, e[j - 1], e[j], Enters(st[j]), X[j])
  <2>1. j \in 0..n /\ j - 1 \in 0..n /\ (len + j) - 1 = len + (j - 1) /\ len + j \in 2..Len(stack)
    BY <1>4, <1>11
  <2>2. e[j - 1] = c[(len + j) - 1] /\ e[j] = c[len + j]
    BY <1>11, <2>1
  <2> QED  BY <1>12, <1>15, <2>1, <2>2
<1>18. Span(read, e[0], e[n], Left(p), ReduceFunc(p, X))
  BY <1>2, <1>3, <1>4, <1>16, <1>17, SpanMade
<1>19. Span(read, c[len], c[Len(stack)], Enters(top.state), top.product)
  <2>1. e[0] = c[len] /\ e[n] = c[Len(stack)]
    BY <1>4, <1>11, <1>13
  <2> QED  BY <1>2, <1>8, <1>9, <1>18, <1>20, <2>1
<1>21. \E c2 : Cut(stack', read, c2)
  <2>1. Len(read) \in Nat
    BY <1>3
  <2> QED  BY <1>3, <1>4, <1>9, <1>10, <1>14, <1>19, <2>1, CutReduced
<1> QED  BY <1>1, <1>21 DEF ReadInv

(* What the whole of a document says is what the AST of it says.              *)
LEMMA WholeRead == ASSUME ParserInv, ReadInv, res = "accepted"
                   PROVE  Yield(Graph) = Said /\ (Len(read) <= MaxTokens => read \in WholeDoc)
<1>1. StackOK(stack) /\ Len(stack) \in Nat \ {0} /\ read \in Seq(Terminal) /\ Top = 1
  BY TopFacts DEF ParserInv
<1>2. Len(stack) = 2
  <2>1. ParserTypeOK
    BY InvTypeOK
  <2> QED  BY <2>1 DEF ParserTypeOK
<1>3. PICK c : Cut(stack, read, c)
  BY DEF ReadInv
<1>4. Span(read, 0, Len(read), "WholeDoc", Graph)
  <2>1. c[1] = 0 /\ c[2] = Len(read) /\ Span(read, c[2 - 1], c[2], Enters(stack[2].state), stack[2].product)
    BY <1>2, <1>3 DEF Cut
  <2>2. stack[2].state = 1 /\ stack[2].product = Graph
    BY <1>1, <1>2 DEF Top, Graph
  <2>3. 2 - 1 = 1 /\ Enters(1) = "WholeDoc"
    BY DEF Enters
  <2> QED  BY <2>1, <2>2, <2>3
<1>5. Derived(read, 0, Len(read), "WholeDoc", Graph)
  BY <1>4, SpanIs
<1>6. SaidIn(read, 0, Len(read)) = ItemsYield(Graph.items) /\ Reads(WholeDoc, read, 0, Len(read))
  BY <1>5, LangFacts, SaysFacts DEF Derived
<1>7. SaidIn(read, 0, Len(read)) = Said
  <2>1. Len(read) - 0 = Len(read) /\ \A j \in 1..Len(read) : 0 + j = j
    BY <1>1
  <2>2. [j \in 1..Len(read) - 0 |-> Word(read, 0 + j)] = [j \in 1..Len(read) |-> Word(read, j)]
    BY <2>1
  <2> QED  BY <2>2 DEF SaidIn, Said
<1>8. Yield(Graph) = ItemsYield(Graph.items)
  BY DEF Yield, ItemsYield
<1>9. SubSeq(read, 0 + 1, Len(read)) = read /\ Len(read) - 0 = Len(read)
  BY <1>1
<1> QED  BY <1>6, <1>7, <1>8, <1>9 DEF Reads

-----------------------------------------------------------------------------
(* Both for every sequence of tokens, of any length.                          *)
ReadingInv == PipelineInv /\ ReadInv

LEMMA ScannedPlace == ASSUME NEW n, NEW tok \in Scanned(n) PROVE tok.n = n
BY DEF Scanned, Tok

LEMMA InitReading == PipelineInit => ReadingInv
BY InitPipeline, InitRead DEF PipelineInit, ReadingInv

LEMMA ReadingSteps == ReadingInv /\ [PipelineNext]_allVars => ReadingInv'
<1> SUFFICES ASSUME ReadingInv, [PipelineNext]_allVars PROVE ReadInv'
  BY PipelineSteps DEF ReadingInv
<1>1. ParserInv /\ ReadInv /\ ScanInv
  BY DEF ReadingInv, PipelineInv
<1>2. ASSUME UNCHANGED <<stack, nextToken, read>> PROVE ReadInv'
  BY <1>1, <1>2 DEF ReadInv
<1>3. CASE Scan \/ UNCHANGED allVars
  BY <1>2, <1>3 DEF Scan, allVars, parserVars
<1>4. CASE Parse
  <2>1. Len(read) \in Nat
    <3>1. read \in Seq(Terminal)
      BY <1>1 DEF ParserInv
    <3> QED  BY <3>1
  <2>2. ASSUME NEW tok \in Scanned(1), FirstToken(tok) PROVE ReadInv'
    BY <1>1, <2>2, ScannedFacts, ScannedPlace, FirstTokenReads
  <2>3. ASSUME NEW tok \in Scanned(Len(read) + 2), ShiftToken(tok) PROVE ReadInv'
    <3>1. tok \in TokenP /\ tok.n = Len(read) + 2
      BY <1>1, <2>1, ScannedFacts, ScannedPlace
    <3> QED  BY <1>1, <2>3, <3>1, ShiftTokenReads
  <2>4. ASSUME ReduceProd PROVE ReadInv'
    BY <1>1, <2>4, ReduceProdReads
  <2>5. ASSUME AcceptDoc \/ Reject PROVE ReadInv'
    BY <1>2, <2>5 DEF AcceptDoc, Reject
  <2> QED  BY <1>4, <2>2, <2>3, <2>4, <2>5 DEF Parse
<1> QED  BY <1>3, <1>4 DEF PipelineNext

LEMMA ReadingInvHolds == PipelineSpec => []ReadingInv
<1> QED  BY InitReading, ReadingSteps, PTL DEF PipelineSpec

(* For every text and for tokens of any other kind, in any number: the AST    *)
(* that Parse returns has every id, type, key, value and arrow of the text,   *)
(* in their order, and each where the text has it.                            *)
THEOREM AstsAreWhole == PipelineSpec => []AstIsWhole
<1>1. ReadingInv => AstIsWhole
  BY WholeRead DEF ReadingInv, PipelineInv, AstIsWhole
<1> QED  BY <1>1, ReadingInvHolds, PTL

(* For every text and for tokens of any other kind: what the tables accept is *)
(* a sentence of the grammar that they were generated from.                   *)
THEOREM OnlyDocsAreAccepted == PipelineSpec => []AcceptsOnlyDocs
<1>1. ReadingInv => AcceptsOnlyDocs
  BY WholeRead DEF ReadingInv, PipelineInv, AcceptsOnlyDocs
<1> QED  BY <1>1, ReadingInvHolds, PTL
=============================================================================
