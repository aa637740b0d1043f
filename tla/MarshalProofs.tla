--------------------------- MODULE MarshalProofs ----------------------------
(***************************************************************************)
(* Proofs about Marshal and the Build in it, for documents of every length  *)
(* over every set of ids, types, keys and values: a document becomes the    *)
(* graph that it means or is refused for its first fault, and what           *)
(* MarshalText writes of any graph gives the same graph when it is read     *)
(* back, and is then written the same way again, up to edges that only the   *)
(* pointers of deleted nodes tell from others or from loops.                 *)
(***************************************************************************)
EXTENDS Marshal, OperatorProofs

-----------------------------------------------------------------------------
(* Places in a text, and their order.                                        *)

TextPlace == Nat \X Nat \X Nat

LEMMA EarlierOrder ==
    /\ \A p \in TextPlace : ~ Earlier(p, p)
    /\ \A p, q \in TextPlace : Earlier(p, q) \/ Earlier(q, p) \/ p = q
    /\ \A p, q \in TextPlace : Earlier(p, q) => ~ Earlier(q, p)
    /\ \A p, q, r \in TextPlace : Earlier(p, q) /\ Earlier(q, r) => Earlier(p, r)
<1>1. ASSUME NEW p \in TextPlace
      PROVE  /\ p[1] \in Nat /\ p[2] \in Nat /\ p[3] \in Nat
             /\ p = <<p[1], p[2], p[3]>>
  BY DEF TextPlace
<1>2. \A p \in TextPlace : ~ Earlier(p, p)
  BY <1>1 DEF Earlier
<1>3. ASSUME NEW p \in TextPlace, NEW q \in TextPlace
      PROVE  Earlier(p, q) \/ Earlier(q, p) \/ p = q
  <2>1. CASE p[1] = q[1] /\ p[2] = q[2] /\ p[3] = q[3]
    BY <1>1, <2>1
  <2>2. CASE ~ (p[1] = q[1] /\ p[2] = q[2] /\ p[3] = q[3])
    BY <1>1, <2>2 DEF Earlier
  <2> QED  BY <2>1, <2>2
<1>4. ASSUME NEW p \in TextPlace, NEW q \in TextPlace, Earlier(p, q)
      PROVE  ~ Earlier(q, p)
  BY <1>1, <1>4 DEF Earlier
<1>5. ASSUME NEW p \in TextPlace, NEW q \in TextPlace, NEW r \in TextPlace,
             Earlier(p, q), Earlier(q, r)
      PROVE  Earlier(p, r)
  BY <1>1, <1>5 DEF Earlier
<1> QED  BY <1>2, <1>3, <1>4, <1>5

(* What lies at places, one at each.                                         *)
Placed(S) ==
    /\ \A m \in S : m.at \in TextPlace
    /\ \A m, n \in S : m.at = n.at => m = n

LEMMA PlacedSubset ==
    ASSUME NEW S, NEW U, S \subseteq U, Placed(U)
    PROVE  Placed(S)
BY DEF Placed

(* The order of places has no endless descent.                               *)
LEMMA FirstPlaceExists ==
    ASSUME NEW P \in SUBSET TextPlace, P # {}
    PROVE  \E p \in P : \A q \in P : ~ Earlier(q, p)
<1>1. \A p \in P : p[1] \in Nat /\ p[2] \in Nat /\ p[3] \in Nat
  BY DEF TextPlace
<1> DEFINE A == {p[1] : p \in P}
<1>2. PICK a \in A : \A x \in A : a <= x
  <2>1. A \in SUBSET Nat /\ A # {}
    BY <1>1
  <2> HIDE DEF A
  <2> QED  BY <2>1, LeastNatural
<1> DEFINE B == {p[2] : p \in {p \in P : p[1] = a}}
<1>3. PICK b \in B : \A x \in B : b <= x
  <2>1. B \in SUBSET Nat /\ B # {}
    BY <1>1, <1>2
  <2> HIDE DEF B
  <2> QED  BY <2>1, LeastNatural
<1> DEFINE C == {p[3] : p \in {p \in P : p[1] = a /\ p[2] = b}}
<1>4. PICK c \in C : \A x \in C : c <= x
  <2>1. C \in SUBSET Nat /\ C # {}
    BY <1>1, <1>3
  <2> HIDE DEF C
  <2> QED  BY <2>1, LeastNatural
<1>5. PICK p \in P : p[1] = a /\ p[2] = b /\ p[3] = c
  BY <1>4
<1>6. ASSUME NEW q \in P
      PROVE  ~ Earlier(q, p)
  <2>1. a <= q[1] /\ (q[1] = a => b <= q[2]) /\ (q[1] = a /\ q[2] = b => c <= q[3])
    BY <1>2, <1>3, <1>4
  <2> QED  BY <1>1, <1>5, <2>1 DEF Earlier
<1> QED  BY <1>6

LEMMA LeastFacts ==
    ASSUME NEW S, Placed(S), S # {}
    PROVE  /\ Least(S) \in S
           /\ \A n \in S : n = Least(S) \/ Earlier(Least(S).at, n.at)
<1>1. \E m \in S : \A n \in S : ~ Earlier(n.at, m.at)
  <2> DEFINE P == {m.at : m \in S}
  <2>1. P \in SUBSET TextPlace /\ P # {}
    BY DEF Placed
  <2>2. PICK p \in P : \A q \in P : ~ Earlier(q, p)
    <3> HIDE DEF P
    <3> QED  BY <2>1, FirstPlaceExists
  <2> QED  BY <2>2
<1>2. Least(S) \in S /\ \A n \in S : ~ Earlier(n.at, Least(S).at)
  BY <1>1, Zenon DEF Least
<1> QED  BY <1>2, EarlierOrder DEF Placed

LEMMA LeastIs ==
    ASSUME NEW S, Placed(S), NEW m \in S, \A n \in S : ~ Earlier(n.at, m.at)
    PROVE  Least(S) = m
BY LeastFacts

LEMMA GreatestIs ==
    ASSUME NEW S, Placed(S), NEW m \in S, \A n \in S : ~ Earlier(m.at, n.at)
    PROVE  Greatest(S) = m
<1>1. Greatest(S) \in S /\ \A n \in S : ~ Earlier(Greatest(S).at, n.at)
  BY Zenon DEF Greatest
<1> QED  BY <1>1, EarlierOrder DEF Placed

(* What comes later changes nothing about what is first.                     *)
LEMMA LeastStays ==
    ASSUME NEW U, Placed(U), NEW S, S \subseteq U, S # {},
           \A n \in S, m \in U \ S : Earlier(n.at, m.at)
    PROVE  Least(U) = Least(S)
<1>1. Least(S) \in S /\ \A n \in S : n = Least(S) \/ Earlier(Least(S).at, n.at)
  BY PlacedSubset, LeastFacts
<1>2. PICK m : m = Least(S)
  OBVIOUS
<1>3. \A n \in U : ~ Earlier(n.at, m.at)
  <2> SUFFICES ASSUME NEW n \in U PROVE ~ Earlier(n.at, m.at)
    OBVIOUS
  <2>1. n.at \in TextPlace /\ m.at \in TextPlace
    BY <1>1, <1>2 DEF Placed
  <2>2. n = m \/ Earlier(m.at, n.at)
    BY <1>1, <1>2
  <2> QED  BY <2>1, <2>2, EarlierOrder
<1> QED  BY <1>1, <1>2, <1>3, LeastIs

-----------------------------------------------------------------------------
(* Lists in an order.                                                        *)

(* An order has one list of the elements of a set.                           *)
LEMMA OneSortedList ==
    ASSUME NEW T, NEW s \in Seq(T), NEW t \in Seq(T), ToSet(s) = ToSet(t),
           NEW R, \A x, y \in T : ~ (<<x, y>> \in R /\ <<y, x>> \in R),
           \A i, j \in 1..Len(s) : i < j => <<s[i], s[j]>> \in R,
           \A i, j \in 1..Len(t) : i < j => <<t[i], t[j]>> \in R
    PROVE  s = t
<1>0. Len(s) \in Nat /\ Len(t) \in Nat
  OBVIOUS
<1>1. /\ \A i \in 1..Len(s) : s[i] \in T /\ \E j \in 1..Len(t) : t[j] = s[i]
      /\ \A j \in 1..Len(t) : t[j] \in T /\ \E i \in 1..Len(s) : s[i] = t[j]
  <2>1. /\ \A i \in 1..Len(s) : s[i] \in ToSet(s) /\ s[i] \in T
        /\ \A x \in ToSet(s) : \E i \in 1..Len(s) : s[i] = x
    BY ToSetOfSeq
  <2>2. /\ \A i \in 1..Len(t) : t[i] \in ToSet(t) /\ t[i] \in T
        /\ \A x \in ToSet(t) : \E i \in 1..Len(t) : t[i] = x
    BY ToSetOfSeq
  <2> QED  BY <2>1, <2>2
<1>2. /\ \A i, j \in 1..Len(s) : s[i] = s[j] => i = j
      /\ \A i, j \in 1..Len(t) : t[i] = t[j] => i = j
  <2>1. \A x \in T : <<x, x>> \notin R
    OBVIOUS
  <2>2. ASSUME NEW i \in 1..Len(s), NEW j \in 1..Len(s), s[i] = s[j], i # j
        PROVE  FALSE
    <3>1. i < j \/ j < i
      BY <2>2
    <3>2. <<s[i], s[i]>> \in R
      BY <2>2, <3>1
    <3> QED  BY <1>1, <2>1, <3>2
  <2>3. ASSUME NEW i \in 1..Len(t), NEW j \in 1..Len(t), t[i] = t[j], i # j
        PROVE  FALSE
    <3>1. i < j \/ j < i
      BY <2>3
    <3>2. <<t[i], t[i]>> \in R
      BY <2>3, <3>1
    <3> QED  BY <1>1, <2>1, <3>2
  <2> QED  BY <2>2, <2>3
<1> DEFINE AgreeTo(n) == \A i \in 1..n : i <= Len(s) /\ i <= Len(t) => s[i] = t[i]
           K == {n \in Nat : AgreeTo(n)}
<1>3. 0 \in K
  OBVIOUS
<1>4. ASSUME NEW n \in Nat, n \in K
      PROVE  n + 1 \in K
  <2> DEFINE m == n + 1
  <2>1. SUFFICES ASSUME m <= Len(s), m <= Len(t) PROVE s[m] = t[m]
    BY <1>4
  <2>2. m \in 1..Len(s) /\ m \in 1..Len(t)
    BY <1>0, <2>1
  <2>3. \A i \in 1..Len(s) : i < m => i \in 1..Len(t) /\ s[i] = t[i]
    BY <1>0, <1>4, <2>1
  <2>4. \A i \in 1..Len(t) : i < m => i \in 1..Len(s) /\ s[i] = t[i]
    BY <1>0, <1>4, <2>1
  <2> HIDE DEF m
  <2>5. PICK j \in 1..Len(t) : t[j] = s[m]
    BY <1>1, <2>2
  <2>6. PICK i \in 1..Len(s) : s[i] = t[m]
    BY <1>1, <2>2
  <2>7. ~ (j < m) /\ ~ (i < m)
    BY <1>0, <1>2, <2>2, <2>3, <2>4, <2>5, <2>6
  <2>8. ~ (m < j /\ m < i)
    <3>1. m < j /\ m < i => <<t[m], s[m]>> \in R /\ <<s[m], t[m]>> \in R
      BY <2>2, <2>5, <2>6
    <3> QED  BY <1>1, <2>2, <3>1
  <2>9. m = j \/ m = i
    BY <1>0, <2>2, <2>7, <2>8
  <2> QED  BY <2>5, <2>6, <2>9
<1>5. \A n \in Nat : n \in K
  <2> HIDE DEF K
  <2> QED  BY <1>3, <1>4, NaturalsReached
<1>6. \A i \in 1..Len(s) : i <= Len(t) => s[i] = t[i]
  BY <1>0, <1>5
<1>7. ~ (Len(s) < Len(t))
  <2> SUFFICES ASSUME Len(s) < Len(t) PROVE FALSE
    OBVIOUS
  <2>1. Len(s) + 1 \in 1..Len(t)
    BY <1>0
  <2>2. PICK i \in 1..Len(s) : s[i] = t[Len(s) + 1]
    BY <1>1, <2>1
  <2>3. i \in 1..Len(t) /\ t[i] = t[Len(s) + 1] /\ i # Len(s) + 1
    BY <1>0, <1>6, <2>2
  <2> QED  BY <1>2, <2>1, <2>3
<1>8. ~ (Len(t) < Len(s))
  <2> SUFFICES ASSUME Len(t) < Len(s) PROVE FALSE
    OBVIOUS
  <2>1. Len(t) + 1 \in 1..Len(s)
    BY <1>0
  <2>2. PICK j \in 1..Len(t) : t[j] = s[Len(t) + 1]
    BY <1>1, <2>1
  <2>3. j \in 1..Len(s) /\ s[j] = s[Len(t) + 1] /\ j # Len(t) + 1
    BY <1>0, <1>6, <2>2
  <2> QED  BY <1>2, <2>1, <2>3
<1>9. Len(s) = Len(t) /\ \A i \in 1..Len(s) : s[i] = t[i]
  BY <1>0, <1>6, <1>7, <1>8
<1> QED  BY <1>9

LEMMA InOrderUnique ==
    ASSUME NEW T, NEW s \in Seq(T), NEW t \in Seq(T), NEW S, NEW place,
           \A x \in S : place[x] \in TextPlace,
           InOrder(s, S, place), InOrder(t, S, place)
    PROVE  s = t
<1> DEFINE R == {p \in S \X S : Earlier(place[p[1]], place[p[2]])}
<1>1. \A x, y \in S : ~ (<<x, y>> \in R /\ <<y, x>> \in R)
  BY EarlierOrder
<1>2. ToSet(s) = S /\ ToSet(t) = S /\ s \in Seq(S) /\ t \in Seq(S)
  <2>1. ToSet(s) = S /\ ToSet(t) = S
    BY DEF InOrder
  <2>2. /\ \A i \in 1..Len(s) : s[i] \in S
        /\ \A i \in 1..Len(t) : t[i] \in S
    BY <2>1, ToSetOfSeq
  <2> QED  BY <2>1, <2>2
<1>3. /\ \A i, j \in 1..Len(s) : i < j => <<s[i], s[j]>> \in R
      /\ \A i, j \in 1..Len(t) : i < j => <<t[i], t[j]>> \in R
  BY <1>2 DEF InOrder
<1> HIDE DEF R
<1> QED  BY <1>1, <1>2, <1>3, OneSortedList

LEMMA InOrderInjective ==
    ASSUME NEW T, NEW s \in Seq(T), NEW S, NEW place,
           \A x \in S : place[x] \in TextPlace, InOrder(s, S, place)
    PROVE  \A i, j \in 1..Len(s) : s[i] = s[j] => i = j
<1> SUFFICES ASSUME NEW i \in 1..Len(s), NEW j \in 1..Len(s), s[i] = s[j], i # j
             PROVE  FALSE
  OBVIOUS
<1>1. s[i] \in S
  BY ToSetOfSeq DEF InOrder
<1>2. i < j \/ j < i
  OBVIOUS
<1>3. Earlier(place[s[i]], place[s[i]])
  BY <1>2 DEF InOrder
<1> QED  BY <1>1, <1>3, EarlierOrder

LEMMA InOrderSame ==
    ASSUME NEW T, NEW s \in Seq(T), NEW S, NEW place, InOrder(s, S, place),
           NEW place2, \A y \in S : place2[y] = place[y]
    PROVE  InOrder(s, S, place2)
<1>1. ToSet(s) = S /\ \A i \in 1..Len(s) : s[i] \in S
  BY ToSetOfSeq DEF InOrder
<1> QED  BY <1>1 DEF InOrder

(* What comes later goes to the end.                                         *)
LEMMA InOrderAppend ==
    ASSUME NEW T, NEW s \in Seq(T), NEW S, NEW place, InOrder(s, S, place),
           NEW x \in T, x \notin S, \A y \in S : Earlier(place[y], place[x])
    PROVE  InOrder(Append(s, x), S \cup {x}, place)
<1>1. ToSet(s) = S /\ (\A i \in 1..Len(s) : s[i] \in S) /\ Len(s) \in Nat
  BY ToSetOfSeq DEF InOrder
<1> DEFINE t == Append(s, x)
<1>2. /\ Len(t) = Len(s) + 1
      /\ \A j \in 1..Len(s) : t[j] = s[j]
      /\ t[Len(s) + 1] = x /\ ToSet(t) = S \cup {x}
  BY <1>1, AppendFacts
<1> HIDE DEF t
<1>3. ASSUME NEW i \in 1..Len(t), NEW j \in 1..Len(t), i < j
      PROVE  Earlier(place[t[i]], place[t[j]])
  <2>1. i \in 1..Len(s) /\ t[i] = s[i] /\ s[i] \in S
    BY <1>1, <1>2, <1>3
  <2>2. CASE j \in 1..Len(s)
    BY <1>2, <1>3, <2>1, <2>2 DEF InOrder
  <2>3. CASE j = Len(s) + 1
    BY <1>2, <2>1, <2>3
  <2> QED  BY <1>1, <1>2, <2>2, <2>3
<1> QED  BY <1>2, <1>3 DEF InOrder, t

-----------------------------------------------------------------------------
(* Attributes.                                                               *)

DistinctKeys(P) == \A i, j \in 1..Len(P) : P[i].key = P[j].key => i = j

LEMMA PairFacts ==
    ASSUME NEW P \in Seq(Pair), NEW i \in 1..Len(P)
    PROVE  /\ P[i] \in Pair /\ P[i].key \in Key /\ P[i].value \in Value
           /\ P[i] = [key |-> P[i].key, value |-> P[i].value]
<1>1. P[i] \in Pair
  OBVIOUS
<1> QED  BY <1>1 DEF Pair

LEMMA KeyListFacts ==
    ASSUME NEW P \in Seq(Pair)
    PROVE  /\ KeyList(P) \in Seq(Key) /\ Len(KeyList(P)) = Len(P)
           /\ \A i \in 1..Len(P) : KeyList(P)[i] = P[i].key
           /\ ToSet(KeyList(P)) = {P[i].key : i \in 1..Len(P)}
<1>1. \A i \in 1..Len(P) : P[i].key \in Key
  BY PairFacts
<1>2. /\ KeyList(P) \in Seq(Key) /\ Len(KeyList(P)) = Len(P)
      /\ \A i \in 1..Len(P) : KeyList(P)[i] = P[i].key
      /\ DOMAIN KeyList(P) = 1..Len(P)
  BY <1>1 DEF KeyList
<1>3. ToSet(KeyList(P)) = {P[i].key : i \in 1..Len(P)}
  BY <1>2, Zenon DEF ToSet
<1> QED  BY <1>2, <1>3

(* SetAttr: one value changes, or a pair with a new key goes to the end.     *)
LEMMA WithAttrFacts ==
    ASSUME NEW P \in Seq(Pair), DistinctKeys(P), NEW x \in Key, NEW v \in Value
    PROVE  /\ WithAttr(P, x, v) \in Seq(Pair) /\ DistinctKeys(WithAttr(P, x, v))
           /\ KeyList(WithAttr(P, x, v)) =
                 IF x \in ToSet(KeyList(P)) THEN KeyList(P) ELSE Append(KeyList(P), x)
           /\ \A i \in 1..Len(WithAttr(P, x, v)) :
                 \/ WithAttr(P, x, v)[i].key = x /\ WithAttr(P, x, v)[i].value = v
                 \/ /\ WithAttr(P, x, v)[i].key # x
                    /\ i \in 1..Len(P) /\ WithAttr(P, x, v)[i] = P[i]
<1> DEFINE Q == WithAttr(P, x, v)
           new == [key |-> x, value |-> v]
<1>1. new \in Pair /\ new.key = x /\ new.value = v /\ Len(P) \in Nat
  BY DEF Pair
<1>2. /\ Len(KeyList(P)) = Len(P) /\ KeyList(P) \in Seq(Key)
      /\ \A i \in 1..Len(P) : KeyList(P)[i] = P[i].key
      /\ ToSet(KeyList(P)) = {P[i].key : i \in 1..Len(P)}
  BY KeyListFacts
<1>3. CASE x \in ToSet(KeyList(P))
  <2>1. PICK at \in 1..Len(P) : P[at].key = x
    BY <1>2, <1>3
  <2>2. Places(P, x) = {at} /\ FirstPlace(P, x) = at
    <3>1. Places(P, x) = {at}
      BY <2>1 DEF Places, DistinctKeys
    <3> QED  BY <3>1 DEF FirstPlace
  <2>3. Q = [P EXCEPT ![at].value = v]
    BY <2>2 DEF WithAttr
  <2>4. [P[at] EXCEPT !.value = v] = new
    <3>1. P[at] = [key |-> x, value |-> P[at].value]
      BY <2>1, PairFacts
    <3> QED  BY <3>1
  <2>5. Q = [P EXCEPT ![at] = new]
    BY <2>3, <2>4
  <2> HIDE DEF Q, new
  <2>6. Q \in Seq(Pair) /\ Len(Q) = Len(P)
    BY <1>1, <2>5
  <2>7. \A i \in 1..Len(P) : Q[i] = IF i = at THEN new ELSE P[i]
    BY <2>5
  <2>8. \A i \in 1..Len(P) : Q[i].key = P[i].key
    BY <1>1, <2>1, <2>7
  <2>9. KeyList(Q) = KeyList(P)
    BY <2>6, <2>8 DEF KeyList
  <2>10. DistinctKeys(Q)
    BY <2>6, <2>8 DEF DistinctKeys
  <2>11. ASSUME NEW i \in 1..Len(Q)
         PROVE  \/ Q[i].key = x /\ Q[i].value = v
                \/ Q[i].key # x /\ i \in 1..Len(P) /\ Q[i] = P[i]
    <3>1. CASE i = at
      BY <1>1, <2>6, <2>7, <3>1
    <3>2. CASE i # at
      <4>1. P[i].key # x /\ Q[i] = P[i] /\ i \in 1..Len(P)
        BY <2>1, <2>6, <2>7, <3>2 DEF DistinctKeys
      <4> QED  BY <4>1
    <3> QED  BY <3>1, <3>2
  <2> QED  BY <1>3, <2>6, <2>9, <2>10, <2>11 DEF Q
<1>4. CASE x \notin ToSet(KeyList(P))
  <2>1. \A i \in 1..Len(P) : P[i].key # x
    BY <1>2, <1>4
  <2>2. Q = Append(P, new)
    BY <2>1 DEF WithAttr, Places
  <2> HIDE DEF Q, new
  <2>3. /\ Q \in Seq(Pair) /\ Len(Q) = Len(P) + 1
        /\ \A i \in 1..Len(P) : Q[i] = P[i]
        /\ Q[Len(P) + 1] = new
    BY <1>1, <2>2, AppendFacts
  <2>4. DistinctKeys(Q)
    <3>1. ASSUME NEW i \in 1..Len(Q), NEW j \in 1..Len(Q), Q[i].key = Q[j].key
          PROVE  i = j
      <4>1. i \in 1..Len(P) \/ i = Len(P) + 1
        BY <1>1, <2>3
      <4>2. j \in 1..Len(P) \/ j = Len(P) + 1
        BY <1>1, <2>3
      <4> QED  BY <1>1, <2>1, <2>3, <3>1, <4>1, <4>2 DEF DistinctKeys
    <3> QED  BY <3>1 DEF DistinctKeys
  <2>5. KeyList(Q) = Append(KeyList(P), x)
    <3>1. /\ Append(KeyList(P), x) \in Seq(Key) /\ Len(Append(KeyList(P), x)) = Len(P) + 1
          /\ \A i \in 1..Len(P) : Append(KeyList(P), x)[i] = P[i].key
          /\ Append(KeyList(P), x)[Len(P) + 1] = x
      BY <1>2, AppendFacts
    <3>2. /\ KeyList(Q) \in Seq(Key) /\ Len(KeyList(Q)) = Len(P) + 1
          /\ \A i \in 1..Len(Q) : KeyList(Q)[i] = Q[i].key
      BY <2>3, KeyListFacts
    <3>3. ASSUME NEW i \in 1..Len(P) + 1
          PROVE  KeyList(Q)[i] = Append(KeyList(P), x)[i]
      <4>1. i \in 1..Len(P) \/ i = Len(P) + 1
        BY <1>1
      <4> QED  BY <1>1, <2>3, <3>1, <3>2, <4>1
    <3>4. PICK k1, k2 : k1 = KeyList(Q) /\ k2 = Append(KeyList(P), x)
      OBVIOUS
    <3>5. k1 = k2
      BY <3>1, <3>2, <3>3, <3>4
    <3> QED  BY <3>4, <3>5
  <2>6. ASSUME NEW i \in 1..Len(Q)
        PROVE  \/ Q[i].key = x /\ Q[i].value = v
               \/ Q[i].key # x /\ i \in 1..Len(P) /\ Q[i] = P[i]
    <3>1. i \in 1..Len(P) \/ i = Len(P) + 1
      BY <1>1, <2>3
    <3> QED  BY <1>1, <2>1, <2>3, <3>1
  <2> QED  BY <1>4, <2>3, <2>4, <2>5, <2>6 DEF Q
<1> QED  BY <1>3, <1>4

(* updateAttrs makes its assignments one after the other.                    *)
Updating(P, attrs, K, f) ==
    f = [n \in 0..K |-> IF n = 0 THEN P ELSE WithAttr(f[n - 1], attrs[n].key, attrs[n].value)]

LEMMA UpdatingExists ==
    ASSUME NEW P, NEW attrs
    PROVE  \A K \in Nat : \E f : Updating(P, attrs, K, f)
<1> DEFINE T == {K \in Nat : \E f : Updating(P, attrs, K, f)}
<1>1. 0 \in T
  <2> DEFINE f == [n \in 0..0 |-> P]
  <2>1. Updating(P, attrs, 0, f)
    BY DEF Updating
  <2> QED  BY <2>1
<1>2. ASSUME NEW K \in Nat, K \in T
      PROVE  K + 1 \in T
  <2>1. PICK h : Updating(P, attrs, K, h)
    BY <1>2
  <2> DEFINE next(n) == WithAttr(h[n - 1], attrs[n].key, attrs[n].value)
             f == [n \in 0..K + 1 |-> IF n = 0 THEN P ELSE next(n)]
  <2>2. \A n \in 0..K : h[n] = IF n = 0 THEN P ELSE next(n)
    BY <2>1 DEF Updating
  <2>3. \A n \in 0..K : f[n] = h[n]
    <3> HIDE DEF next
    <3> QED  BY <2>2
  <2>4. ASSUME NEW n \in 0..K + 1
        PROVE  f[n] = IF n = 0 THEN P ELSE WithAttr(f[n - 1], attrs[n].key, attrs[n].value)
    <3>1. CASE n = 0
      BY <3>1
    <3>2. CASE n # 0
      <4>1. n - 1 \in 0..K
        BY <3>2
      <4>2. f[n - 1] = h[n - 1]
        BY <2>3, <4>1
      <4>3. f[n] = next(n)
        <5> HIDE DEF next
        <5> QED  BY <3>2
      <4>4. f[n] = WithAttr(h[n - 1], attrs[n].key, attrs[n].value)
        BY <4>3
      <4> HIDE DEF f
      <4> QED  BY <3>2, <4>2, <4>4
    <3> QED  BY <3>1, <3>2
  <2>5. Updating(P, attrs, K + 1, f)
    <3>1. f = [n \in 0..K + 1 |-> f[n]]
      OBVIOUS
    <3> HIDE DEF f
    <3> QED  BY <2>4, <3>1 DEF Updating
  <2> HIDE DEF f
  <2> QED  BY <2>5
<1> HIDE DEF T
<1>3. \A K \in Nat : K \in T
  BY <1>1, <1>2, NaturalsReached
<1> QED  BY <1>3 DEF T

LEMMA UpdateAttrsRuns ==
    ASSUME NEW P, NEW S, NEW attrs \in Seq(S)
    PROVE  \E f : /\ f[0] = P /\ UpdateAttrs(P, attrs) = f[Len(attrs)]
                  /\ \A n \in Nat : n + 1 <= Len(attrs) =>
                        f[n + 1] = WithAttr(f[n], attrs[n + 1].key, attrs[n + 1].value)
<1> DEFINE f == CHOOSE f : Updating(P, attrs, Len(attrs), f)
<1>1. Len(attrs) \in Nat
  OBVIOUS
<1>2. Updating(P, attrs, Len(attrs), f)
  BY <1>1, UpdatingExists
<1>3. UpdateAttrs(P, attrs) = f[Len(attrs)]
  BY DEF UpdateAttrs, Updating
<1> HIDE DEF f
<1>4. \A n \in 0..Len(attrs) :
         f[n] = IF n = 0 THEN P ELSE WithAttr(f[n - 1], attrs[n].key, attrs[n].value)
  BY <1>2 DEF Updating
<1>5. f[0] = P
  BY <1>1, <1>4
<1>6. ASSUME NEW n \in Nat, n + 1 <= Len(attrs)
      PROVE  f[n + 1] = WithAttr(f[n], attrs[n + 1].key, attrs[n + 1].value)
  <2>1. n + 1 \in 0..Len(attrs) /\ n + 1 # 0 /\ (n + 1) - 1 = n
    BY <1>1, <1>6
  <2>2. PICK m : m = n + 1
    OBVIOUS
  <2>3. f[m] = WithAttr(f[m - 1], attrs[m].key, attrs[m].value)
    BY <1>4, <2>1, <2>2
  <2> QED  BY <2>1, <2>2, <2>3
<1> QED  BY <1>3, <1>5, <1>6

(* A claim about the pairs that each assignment preserves.                   *)
LEMMA UpdateAttrsKeeps ==
    ASSUME NEW P, NEW attrs \in Seq(Pair), NEW Good, P \in Good,
           \A Q \in Good : \A i \in 1..Len(attrs) :
               WithAttr(Q, attrs[i].key, attrs[i].value) \in Good
    PROVE  UpdateAttrs(P, attrs) \in Good
<1>1. PICK f : /\ f[0] = P /\ UpdateAttrs(P, attrs) = f[Len(attrs)]
               /\ \A n \in Nat : n + 1 <= Len(attrs) =>
                     f[n + 1] = WithAttr(f[n], attrs[n + 1].key, attrs[n + 1].value)
  BY UpdateAttrsRuns
<1>0. Len(attrs) \in Nat
  OBVIOUS
<1> DEFINE T == {n \in Nat : n <= Len(attrs) => f[n] \in Good}
<1>2. 0 \in T
  BY <1>1
<1>3. ASSUME NEW n \in Nat, n \in T
      PROVE  n + 1 \in T
  <2> SUFFICES ASSUME n + 1 <= Len(attrs) PROVE f[n + 1] \in Good
    OBVIOUS
  <2>1. n + 1 \in 1..Len(attrs) /\ f[n] \in Good
    BY <1>0, <1>3
  <2> QED  BY <1>1, <2>1
<1>4. \A n \in Nat : n \in T
  <2> HIDE DEF T
  <2> QED  BY <1>2, <1>3, NaturalsReached
<1> QED  BY <1>0, <1>1, <1>4

(* Pairs that SetAttr may have written: no key twice, none called 'type'.    *)
Plain(P) == P \in Seq(Pair) /\ DistinctKeys(P) /\ ~ NamesType(P)

LEMMA WithAttrPlain ==
    ASSUME NEW P, Plain(P), NEW x \in Key, x \notin TypeKey, NEW v \in Value
    PROVE  Plain(WithAttr(P, x, v))
<1> DEFINE Q == WithAttr(P, x, v)
<1>1. /\ Q \in Seq(Pair) /\ DistinctKeys(Q)
      /\ \A i \in 1..Len(Q) : Q[i].key = x \/ (i \in 1..Len(P) /\ Q[i] = P[i])
  BY WithAttrFacts DEF Plain
<1> HIDE DEF Q
<1>2. ~ NamesType(Q)
  BY <1>1 DEF NamesType, Plain
<1> QED  BY <1>1, <1>2 DEF Plain, Q

LEMMA UpdateAttrsPlain ==
    ASSUME NEW P, Plain(P), NEW attrs \in Seq(Pair), ~ NamesType(attrs)
    PROVE  Plain(UpdateAttrs(P, attrs))
<1> DEFINE Good == {Q \in Seq(Pair) : Plain(Q)}
<1>1. P \in Good
  BY DEF Plain
<1>2. ASSUME NEW Q \in Good, NEW i \in 1..Len(attrs)
      PROVE  WithAttr(Q, attrs[i].key, attrs[i].value) \in Good
  <2>1. attrs[i].key \in Key /\ attrs[i].value \in Value
    BY PairFacts
  <2>2. attrs[i].key \notin TypeKey
    BY DEF NamesType
  <2>3. Plain(WithAttr(Q, attrs[i].key, attrs[i].value))
    BY <2>1, <2>2, WithAttrPlain
  <2> QED  BY <2>3 DEF Plain
<1> HIDE DEF Good
<1>3. UpdateAttrs(P, attrs) \in Good
  BY <1>1, <1>2, UpdateAttrsKeeps
<1> QED  BY <1>3 DEF Good

LEMMA UpdateNoAttrs ==
    ASSUME NEW P
    PROVE  UpdateAttrs(P, << >>) = P
<1>1. << >> \in Seq(Pair) /\ Len(<< >>) = 0
  OBVIOUS
<1> QED  BY <1>1, UpdateAttrsRuns

-----------------------------------------------------------------------------
(* Attributes as the assignments mean them.                                  *)

LEMMA AttrsMergedFacts ==
    ASSUME NEW A, Placed(A), NEW P \in Seq(Pair), AttrsMerged(P, A)
    PROVE  /\ DistinctKeys(P)
           /\ \A i \in 1..Len(P) : P[i].value = Greatest(OfKey(A, P[i].key)).value
           /\ ToSet(KeyList(P)) = {a.key : a \in A}
           /\ InOrder(KeyList(P), {a.key : a \in A},
                      [x \in {a.key : a \in A} |-> Least(OfKey(A, x)).at])
<1> DEFINE keys == {a.key : a \in A}
           place == [x \in keys |-> Least(OfKey(A, x)).at]
<1>1. /\ KeyList(P) \in Seq(Key) /\ Len(KeyList(P)) = Len(P)
      /\ \A i \in 1..Len(P) : KeyList(P)[i] = P[i].key
  BY KeyListFacts
<1>2. InOrder(KeyList(P), keys, place)
  BY DEF AttrsMerged
<1>3. ASSUME NEW x \in keys
      PROVE  place[x] \in TextPlace
  <2>1. Placed(OfKey(A, x)) /\ OfKey(A, x) # {}
    BY PlacedSubset DEF OfKey
  <2>2. Least(OfKey(A, x)) \in A
    BY <2>1, LeastFacts DEF OfKey
  <2> QED  BY <2>2 DEF Placed
<1> HIDE DEF place
<1>4. \A i, j \in 1..Len(KeyList(P)) : KeyList(P)[i] = KeyList(P)[j] => i = j
  BY <1>1, <1>2, <1>3, InOrderInjective
<1>5. DistinctKeys(P)
  BY <1>1, <1>4 DEF DistinctKeys
<1>6. ToSet(KeyList(P)) = keys
  BY <1>2 DEF InOrder
<1> QED  BY <1>2, <1>5, <1>6 DEF AttrsMerged, place

(* One more assignment, later than the others.                               *)
LEMMA WithAttrMerges ==
    ASSUME NEW A, Placed(A), NEW P \in Seq(Pair), AttrsMerged(P, A),
           NEW p \in TextPlace, NEW x \in Key, NEW v \in Value,
           \A b \in A : Earlier(b.at, p),
           NEW a, a = [at |-> p, key |-> x, value |-> v]
    PROVE  /\ Placed(A \cup {a})
           /\ WithAttr(P, x, v) \in Seq(Pair)
           /\ AttrsMerged(WithAttr(P, x, v), A \cup {a})
<1> DEFINE B == A \cup {a}
           Q == WithAttr(P, x, v)
           keysA == {b.key : b \in A}
           keysB == {b.key : b \in B}
           placeA == [y \in keysA |-> Least(OfKey(A, y)).at]
           placeB == [y \in keysB |-> Least(OfKey(B, y)).at]
<1>0. a.at \in TextPlace /\ a.at = p /\ a.key = x /\ a.value = v
  OBVIOUS
<1>1. /\ DistinctKeys(P) /\ ToSet(KeyList(P)) = keysA
      /\ \A i \in 1..Len(P) : P[i].value = Greatest(OfKey(A, P[i].key)).value
      /\ InOrder(KeyList(P), keysA, placeA)
  BY AttrsMergedFacts
<1>2. /\ Q \in Seq(Pair) /\ DistinctKeys(Q)
      /\ KeyList(Q) = IF x \in ToSet(KeyList(P)) THEN KeyList(P) ELSE Append(KeyList(P), x)
      /\ \A i \in 1..Len(Q) : \/ Q[i].key = x /\ Q[i].value = v
                              \/ Q[i].key # x /\ i \in 1..Len(P) /\ Q[i] = P[i]
  <2>1. DistinctKeys(P)
    BY <1>1
  <2>2. Q \in Seq(Pair) /\ DistinctKeys(Q)
    BY <2>1, WithAttrFacts
  <2>3. KeyList(Q) = IF x \in ToSet(KeyList(P)) THEN KeyList(P) ELSE Append(KeyList(P), x)
    BY <2>1, WithAttrFacts
  <2>4. \A i \in 1..Len(Q) : \/ Q[i].key = x /\ Q[i].value = v
                             \/ Q[i].key # x /\ i \in 1..Len(P) /\ Q[i] = P[i]
    BY <2>1, WithAttrFacts
  <2> QED  BY <2>2, <2>3, <2>4
<1>3. Placed(B)
  <2>1. \A b \in A : b.at # a.at
    BY <1>0, EarlierOrder DEF Placed
  <2> QED  BY <1>0, <2>1 DEF Placed
<1>4. /\ keysB = keysA \cup {x}
      /\ \A y : y # x => OfKey(B, y) = OfKey(A, y)
      /\ OfKey(B, x) = OfKey(A, x) \cup {a}
  BY <1>0 DEF OfKey
<1>5. ASSUME NEW y \in keysA
      PROVE  placeB[y] = placeA[y] /\ Earlier(placeA[y], p)
  <2>1. OfKey(A, y) # {} /\ OfKey(A, y) \subseteq OfKey(B, y) /\ OfKey(B, y) \subseteq B
    BY DEF OfKey
  <2>2. Placed(OfKey(B, y)) /\ Placed(OfKey(A, y))
    BY <1>3, <2>1, PlacedSubset
  <2>3. \A m \in OfKey(B, y) \ OfKey(A, y) : m = a
    BY DEF OfKey
  <2>4. \A n \in OfKey(A, y) : Earlier(n.at, a.at)
    BY <1>0 DEF OfKey
  <2>5. Least(OfKey(B, y)) = Least(OfKey(A, y))
    <3>1. \A n \in OfKey(A, y), m \in OfKey(B, y) \ OfKey(A, y) : Earlier(n.at, m.at)
      BY <1>0, <2>3, <2>4
    <3> HIDE DEF B
    <3> QED  BY <2>1, <2>2, <3>1, LeastStays
  <2>6. Least(OfKey(A, y)) \in OfKey(A, y)
    BY <2>1, <2>2, LeastFacts
  <2>7. y \in keysB
    BY <1>4
  <2> QED  BY <1>0, <2>4, <2>5, <2>6, <2>7
<1>6. ASSUME x \notin keysA
      PROVE  placeB[x] = p
  <2>1. OfKey(A, x) = {}
    BY <1>6 DEF OfKey
  <2>2. OfKey(B, x) = {a} /\ x \in keysB
    BY <1>4, <2>1
  <2>3. Placed({a}) /\ a \in {a} /\ \A n \in {a} : ~ Earlier(n.at, a.at)
    BY <1>0, EarlierOrder DEF Placed
  <2>4. Least({a}) = a
    BY <2>3, LeastIs
  <2> QED  BY <1>0, <2>2, <2>4
<1>7. InOrder(KeyList(Q), keysB, placeB)
  <2>1. KeyList(P) \in Seq(Key)
    BY KeyListFacts
  <2>3. x \notin keysA => \A y \in keysA : Earlier(placeA[y], placeB[x])
    BY <1>5, <1>6
  <2>4. \A y \in keysA : placeB[y] = placeA[y]
    BY <1>5
  <2> HIDE DEF keysA, keysB, placeA, placeB, Q
  <2>5. PICK s \in Seq(Key) : s = KeyList(P)
    BY <2>1
  <2>6. InOrder(s, keysA, placeB) /\ ToSet(s) = keysA
    BY <1>1, <2>4, <2>5, InOrderSame
  <2>7. CASE x \in keysA
    <3>1. keysB = keysA /\ KeyList(Q) = s
      BY <1>2, <1>4, <2>5, <2>6, <2>7
    <3> QED  BY <2>6, <3>1
  <2>8. CASE x \notin keysA
    <3>1. \A y \in keysA : Earlier(placeB[y], placeB[x])
      BY <2>3, <2>4, <2>8
    <3>2. InOrder(Append(s, x), keysA \cup {x}, placeB)
      BY <2>5, <2>6, <2>8, <3>1, InOrderAppend
    <3> QED  BY <1>2, <1>4, <2>5, <2>6, <2>8, <3>2
  <2> QED  BY <2>7, <2>8
<1>8. ASSUME NEW i \in 1..Len(Q)
      PROVE  Q[i].value = Greatest(OfKey(B, Q[i].key)).value
  <2>1. CASE Q[i].key = x /\ Q[i].value = v
    <3>1. Placed(OfKey(B, x)) /\ a \in OfKey(B, x)
      <4>1. OfKey(B, x) \subseteq B
        BY DEF OfKey
      <4> QED  BY <1>3, <1>4, <4>1, PlacedSubset
    <3>2. ASSUME NEW n \in OfKey(B, x)
          PROVE  ~ Earlier(a.at, n.at)
      <4>1. n \in A \/ n = a
        BY DEF OfKey
      <4>2. n.at \in TextPlace
        BY <1>0, <4>1 DEF Placed
      <4> QED  BY <1>0, <4>1, <4>2, EarlierOrder
    <3>3. Greatest(OfKey(B, x)) = a
      BY <3>1, <3>2, GreatestIs
    <3> QED  BY <1>0, <2>1, <3>3
  <2>2. CASE Q[i].key # x /\ i \in 1..Len(P) /\ Q[i] = P[i]
    <3>1. OfKey(B, Q[i].key) = OfKey(A, P[i].key)
      BY <1>4, <2>2
    <3> QED  BY <1>1, <2>2, <3>1
  <2> QED  BY <1>2, <2>1, <2>2
<1>9. AttrsMerged(Q, B)
  <2> HIDE DEF Q, B
  <2> QED  BY <1>7, <1>8 DEF AttrsMerged
<1> QED  BY <1>2, <1>3, <1>9

(* One more mention, at a later step than the others.                        *)
StepBefore(p, q) == p[1] < q[1] \/ (p[1] = q[1] /\ p[2] < q[2])

LEMMA AssignmentFacts ==
    ASSUME NEW m, m.attrs \in Seq(Pair), m.at \in TextPlace, NEW n \in 1..Len(m.attrs)
    PROVE  /\ AssignmentAt(m, n).at = <<m.at[1], m.at[2], n>>
           /\ AssignmentAt(m, n).at \in TextPlace
           /\ AssignmentAt(m, n).key = m.attrs[n].key
           /\ AssignmentAt(m, n).value = m.attrs[n].value
           /\ AssignmentAt(m, n).key \in Key /\ AssignmentAt(m, n).value \in Value
<1>1. m.attrs[n].key \in Key /\ m.attrs[n].value \in Value
  BY PairFacts
<1>2. m.at[1] \in Nat /\ m.at[2] \in Nat /\ n \in Nat
  BY DEF TextPlace
<1>3. <<m.at[1], m.at[2], n>> \in TextPlace
  BY <1>2 DEF TextPlace
<1> QED  BY <1>1, <1>3 DEF AssignmentAt

LEMMA UpdateAttrsMerges ==
    ASSUME NEW A, Placed(A), NEW P \in Seq(Pair), AttrsMerged(P, A),
           NEW m, m.at \in TextPlace, m.attrs \in Seq(Pair),
           \A a \in A : StepBefore(a.at, m.at)
    PROVE  /\ UpdateAttrs(P, m.attrs) \in Seq(Pair)
           /\ AttrsMerged(UpdateAttrs(P, m.attrs), A \cup Assignments({m}))
<1> DEFINE L == Len(m.attrs)
           B(n) == A \cup {AssignmentAt(m, k) : k \in 1..n}
<1>1. PICK f : /\ f[0] = P /\ UpdateAttrs(P, m.attrs) = f[L]
               /\ \A n \in Nat : n + 1 <= L =>
                     f[n + 1] = WithAttr(f[n], m.attrs[n + 1].key, m.attrs[n + 1].value)
  BY UpdateAttrsRuns
<1>2. L \in Nat
  OBVIOUS
<1> HIDE DEF L
<1> DEFINE Good(n) == Placed(B(n)) /\ f[n] \in Seq(Pair) /\ AttrsMerged(f[n], B(n))
           T == {n \in Nat : n <= L => Good(n)}
<1>3. 0 \in T
  <2>1. B(0) = A
    OBVIOUS
  <2> QED  BY <1>1, <2>1
<1>4. ASSUME NEW n \in Nat, n \in T
      PROVE  n + 1 \in T
  <2> SUFFICES ASSUME n + 1 <= L PROVE Good(n + 1)
    OBVIOUS
  <2>1. Placed(B(n)) /\ f[n] \in Seq(Pair) /\ AttrsMerged(f[n], B(n))
    BY <1>2, <1>4
  <2>2. PICK a : a = AssignmentAt(m, n + 1)
    OBVIOUS
  <2>3. /\ n + 1 \in 1..Len(m.attrs)
        /\ \A k \in 1..n : k \in 1..Len(m.attrs) /\ k < n + 1
    BY <1>2 DEF L
  <2>4. /\ a.at = <<m.at[1], m.at[2], n + 1>> /\ a.at \in TextPlace
        /\ a.key = m.attrs[n + 1].key /\ a.value = m.attrs[n + 1].value
        /\ a.key \in Key /\ a.value \in Value
    <3>1. PICK j : j = n + 1
      OBVIOUS
    <3> QED  BY <2>2, <2>3, <3>1, AssignmentFacts
  <2>5. ASSUME NEW b \in B(n)
        PROVE  Earlier(b.at, a.at)
    <3>1. CASE b \in A
      <4>1. StepBefore(b.at, m.at)
        BY <3>1
      <4> QED  BY <2>4, <4>1 DEF StepBefore, Earlier
    <3>2. CASE \E k \in 1..n : b = AssignmentAt(m, k)
      <4>1. PICK k \in 1..n : b = AssignmentAt(m, k)
        BY <3>2
      <4>2. k \in 1..Len(m.attrs) /\ k < n + 1
        BY <2>3
      <4>3. b.at = <<m.at[1], m.at[2], k>>
        BY <4>1, <4>2, AssignmentFacts
      <4> QED  BY <2>4, <4>2, <4>3 DEF Earlier
    <3> QED  BY <3>1, <3>2
  <2>6. B(n + 1) = B(n) \cup {a}
    <3>1. 1..n + 1 = (1..n) \cup {n + 1}
      OBVIOUS
    <3> QED  BY <2>2, <3>1
  <2>7. f[n + 1] = WithAttr(f[n], a.key, a.value)
    BY <1>1, <2>4
  <2>8. PICK C, F : C = B(n) /\ F = f[n]
    OBVIOUS
  <2>9. /\ Placed(C \cup {a})
        /\ WithAttr(F, a.key, a.value) \in Seq(Pair)
        /\ AttrsMerged(WithAttr(F, a.key, a.value), C \cup {a})
    <3>1. \A b \in C : Earlier(b.at, a.at)
      BY <2>5, <2>8
    <3>2. Placed(C) /\ F \in Seq(Pair) /\ AttrsMerged(F, C)
      BY <2>1, <2>8
    <3>3. PICK p \in TextPlace, x \in Key, v \in Value :
               p = a.at /\ x = a.key /\ v = a.value
      BY <2>4
    <3>4. a = [at |-> p, key |-> x, value |-> v]
      BY <2>2, <3>3 DEF AssignmentAt
    <3> HIDE DEF B
    <3> QED  BY <3>1, <3>2, <3>3, <3>4, WithAttrMerges
  <2> HIDE DEF B
  <2> QED  BY <2>6, <2>7, <2>8, <2>9
<1>5. \A n \in Nat : n \in T
  <2> HIDE DEF T
  <2> QED  BY <1>3, <1>4, NaturalsReached
<1>6. f[L] \in Seq(Pair) /\ AttrsMerged(f[L], B(L))
  <2> HIDE DEF B
  <2>1. L \in T
    BY <1>2, <1>5
  <2> QED  BY <1>2, <2>1
<1>7. B(L) = A \cup Assignments({m})
  BY DEF Assignments, L
<1> HIDE DEF B
<1> QED  BY <1>1, <1>6, <1>7

-----------------------------------------------------------------------------
(* Documents.                                                                *)

DocOK(d) == /\ d \in Seq(AstNode \cup EdgeChain)
            /\ \A i \in 1..Len(d) : StepsOf(d[i]) < Room

Position == Nat \cup {NoPos}

Graph == [nodes : Seq(Id), typ : [Id -> Type],
          declPos : [Id -> Position], typeFromPos : [Id -> Position],
          attrs : [Id -> Seq(Pair)],
          edges : Seq(EdgeKey), edgePos : [EdgeKey -> Position],
          edgeAttrs : [EdgeKey -> Seq(Pair)]]

(* A node is added or changed, and an edge.                                  *)
Upserted(h, h2, x, pos, t, P) ==
    /\ h2.nodes = IF HasNode(h, x) THEN h.nodes ELSE Append(h.nodes, x)
    /\ h2.typ = [h.typ EXCEPT ![x] = IF t = Untyped THEN @ ELSE t]
    /\ h2.declPos = [h.declPos EXCEPT ![x] = IF @ = NoPos THEN pos ELSE @]
    /\ h2.typeFromPos = [h.typeFromPos EXCEPT
                            ![x] = IF @ = NoPos /\ t # Untyped THEN pos ELSE @]
    /\ h2.attrs = [h.attrs EXCEPT ![x] = P]
EdgeAdded(h, h2, k, pos, P) ==
    /\ h2.edges = IF HasEdge(h, k) THEN h.edges ELSE Append(h.edges, k)
    /\ h2.edgePos = IF HasEdge(h, k) THEN h.edgePos ELSE [h.edgePos EXCEPT ![k] = pos]
    /\ h2.edgeAttrs = [h.edgeAttrs EXCEPT ![k] = P]
SameNodes(h, h2) ==
    /\ h2.nodes = h.nodes /\ h2.typ = h.typ /\ h2.attrs = h.attrs
    /\ h2.declPos = h.declPos /\ h2.typeFromPos = h.typeFromPos
SameEdges(h, h2) ==
    h2.edges = h.edges /\ h2.edgePos = h.edgePos /\ h2.edgeAttrs = h.edgeAttrs

MentionOK(m) ==
    /\ m.at \in TextPlace /\ m.at[3] = 0
    /\ m.id \in Id /\ m.type \in Type /\ m.pos \in Position /\ m.attrs \in Seq(Pair)
    /\ m.type # Untyped => m.pos # NoPos
StepOK(s) ==
    /\ s.at \in TextPlace /\ s.at[3] = 0
    /\ s.key \in EdgeKey /\ s.pos \in Nat /\ s.attrs \in Seq(Pair)

LEMMA ItemFacts ==
    ASSUME NEW d, DocOK(d), NEW i \in 1..Len(d)
    PROVE  /\ StepsOf(d[i]) \in Nat /\ StepsOf(d[i]) < Room /\ i \in Nat
           /\ d[i].kind \in {"node", "chain"}
           /\ d[i].kind = "node" => /\ d[i].id \in Id /\ d[i].type \in Type
                                    /\ d[i].attrs \in Seq(Pair) /\ StepsOf(d[i]) = 0
           /\ d[i].kind = "chain" =>
                 /\ d[i].from \in Id /\ StepsOf(d[i]) = Len(d[i].steps)
                 /\ \A j \in 1..StepsOf(d[i]) :
                       /\ d[i].steps[j].to \in Id /\ d[i].steps[j].type \in Type
                       /\ d[i].steps[j].attrs \in Seq(Pair)
<1>1. d[i] \in AstNode \cup EdgeChain /\ StepsOf(d[i]) < Room
  BY DEF DocOK
<1>2. CASE d[i] \in AstNode
  <2>1. /\ d[i].kind = "node" /\ d[i].id \in Id /\ d[i].type \in Type
        /\ d[i].attrs \in Seq(Pair)
    BY <1>2 DEF AstNode
  <2>2. StepsOf(d[i]) = 0
    BY <2>1 DEF StepsOf
  <2> QED  BY <1>1, <2>1, <2>2
<1>3. CASE d[i] \in EdgeChain
  <2>1. d[i].kind = "chain" /\ d[i].from \in Id /\ d[i].steps \in Seq(EdgeStep)
    BY <1>3 DEF EdgeChain
  <2>2. StepsOf(d[i]) = Len(d[i].steps) /\ Len(d[i].steps) \in Nat
    BY <2>1 DEF StepsOf
  <2>3. ASSUME NEW j \in 1..StepsOf(d[i])
        PROVE  /\ d[i].steps[j].to \in Id /\ d[i].steps[j].type \in Type
               /\ d[i].steps[j].attrs \in Seq(Pair)
    <3>1. d[i].steps[j] \in EdgeStep
      BY <2>1, <2>2
    <3> QED  BY <3>1 DEF EdgeStep
  <2> QED  BY <1>1, <2>1, <2>2, <2>3
<1> QED  BY <1>1, <1>2, <1>3

(* Offsets are in the order of the text.                                     *)
LEMMA OffsetOrder ==
    /\ \A i, j \in Nat : Offset(i, j) \in Nat
    /\ \A i, j, k, l \in Nat :
          j < Room /\ (i < k \/ (i = k /\ j < l)) => Offset(i, j) < Offset(k, l)
<1>1. Room \in Nat /\ Room >= 2
  BY BuildAssumption
<1>2. ASSUME NEW i \in Nat
      PROVE  Room * i \in Nat
  BY <1>1
<1>3. ASSUME NEW i \in Nat, NEW k \in Nat, i < k
      PROVE  Room * i + Room <= Room * k
  <2>1. k - i \in Nat /\ k - i >= 1 /\ k = i + (k - i)
    BY <1>3
  <2>2. PICK n \in Nat : n = k - i /\ n >= 1
    BY <2>1
  <2>3. Room * k = Room * i + Room * n
    BY <1>1, <2>1, <2>2
  <2>4. Room * n >= Room
    BY <1>1, <2>2
  <2> QED  BY <1>1, <1>2, <2>2, <2>3, <2>4
<1>4. ASSUME NEW i \in Nat, NEW j \in Nat
      PROVE  Offset(i, j) \in Nat
  BY <1>1, <1>2 DEF Offset
<1>5. ASSUME NEW i \in Nat, NEW j \in Nat, NEW k \in Nat, NEW l \in Nat,
             j < Room, i < k \/ (i = k /\ j < l)
      PROVE  Offset(i, j) < Offset(k, l)
  <2>1. PICK x \in Nat, y \in Nat : x = Room * i /\ y = Room * k
    BY <1>2
  <2>2. i < k => x + Room <= y
    BY <1>3, <2>1
  <2>3. i = k => x = y
    BY <2>1
  <2>4. x + j < y + l
    BY <1>1, <1>5, <2>1, <2>2, <2>3
  <2> QED  BY <2>1, <2>4 DEF Offset
<1> QED  BY <1>4, <1>5

LEMMA MentionFacts ==
    ASSUME NEW d, DocOK(d), NEW i \in 1..Len(d), NEW j \in 0..StepsOf(d[i])
    PROVE  /\ MentionOK(MentionAt(d, i, j))
           /\ MentionAt(d, i, j).at = <<i, j, 0>>
           /\ MentionAt(d, i, j).pos \in {NoPos, Offset(i, j)}
           /\ MentionAt(d, i, j).type # Untyped => d[i].kind = "node"
<1> DEFINE m == MentionAt(d, i, j)
<1>1. /\ StepsOf(d[i]) \in Nat /\ i \in Nat /\ j \in Nat
      /\ d[i].kind \in {"node", "chain"}
      /\ d[i].kind = "node" => /\ d[i].id \in Id /\ d[i].type \in Type
                               /\ d[i].attrs \in Seq(Pair) /\ StepsOf(d[i]) = 0
      /\ d[i].kind = "chain" =>
            /\ d[i].from \in Id /\ StepsOf(d[i]) = Len(d[i].steps)
            /\ \A n \in 1..StepsOf(d[i]) : d[i].steps[n].to \in Id
  BY ItemFacts
<1>2. Untyped \in Type /\ NoPos \notin Nat /\ << >> \in Seq(Pair)
  BY BuildAssumption
<1>3. Offset(i, j) \in Nat
  BY <1>1, OffsetOrder
<1>4. <<i, j, 0>> \in TextPlace
  BY <1>1 DEF TextPlace
<1>5. CASE d[i].kind = "node"
  <2>1. m = [at |-> <<i, j, 0>>, id |-> d[i].id, type |-> d[i].type,
             pos |-> Offset(i, j), attrs |-> d[i].attrs]
    BY <1>5 DEF MentionAt
  <2> HIDE DEF m
  <2>2. /\ m.at = <<i, j, 0>> /\ m.id = d[i].id /\ m.type = d[i].type
        /\ m.pos = Offset(i, j) /\ m.attrs = d[i].attrs
    BY <2>1
  <2>3. MentionOK(m)
    BY <1>1, <1>2, <1>3, <1>4, <1>5, <2>2 DEF MentionOK, Position
  <2> QED  BY <1>5, <2>2, <2>3 DEF m
<1>6. CASE d[i].kind = "chain"
  <2>1. PICK x : x = IF j = 0 THEN d[i].from ELSE d[i].steps[j].to
    OBVIOUS
  <2>2. x \in Id
    BY <1>1, <1>6, <2>1
  <2>3. m = [at |-> <<i, j, 0>>, id |-> x, type |-> Untyped, pos |-> NoPos, attrs |-> << >>]
    BY <1>6, <2>1 DEF MentionAt
  <2> HIDE DEF m
  <2>4. /\ m.at = <<i, j, 0>> /\ m.id = x /\ m.type = Untyped
        /\ m.pos = NoPos /\ m.attrs = << >>
    BY <2>3
  <2>5. MentionOK(m)
    BY <1>2, <1>4, <2>2, <2>4 DEF MentionOK, Position
  <2> QED  BY <2>4, <2>5 DEF m
<1> QED  BY <1>1, <1>5, <1>6

LEMMA StepFacts ==
    ASSUME NEW d, DocOK(d), NEW i \in 1..Len(d), NEW j \in 1..StepsOf(d[i])
    PROVE  /\ StepOK(StepAt(d, i, j)) /\ d[i].kind = "chain"
           /\ StepAt(d, i, j).at = <<i, j, 0>>
           /\ StepAt(d, i, j).pos = Offset(i, j)
           /\ StepAt(d, i, j).key = <<MentionAt(d, i, j - 1).id,
                                      MentionAt(d, i, j).id, d[i].steps[j].type>>
           /\ StepAt(d, i, j).attrs = d[i].steps[j].attrs
<1> DEFINE s == StepAt(d, i, j)
<1>1. /\ d[i].kind = "chain" /\ i \in Nat /\ j \in Nat /\ j # 0
      /\ d[i].steps[j].to \in Id /\ d[i].steps[j].type \in Type
      /\ d[i].steps[j].attrs \in Seq(Pair)
  BY ItemFacts
<1>2. PICK x, y : x = MentionAt(d, i, j - 1).id /\ y = MentionAt(d, i, j).id
  OBVIOUS
<1>3. x \in Id /\ y \in Id
  <2>1. j - 1 \in 0..StepsOf(d[i]) /\ j \in 0..StepsOf(d[i])
    BY <1>1, ItemFacts
  <2> QED  BY <1>2, <2>1, MentionFacts DEF MentionOK
<1>4. y = d[i].steps[j].to
  BY <1>1, <1>2 DEF MentionAt
<1>5. s = [at |-> <<i, j, 0>>, key |-> <<x, y, d[i].steps[j].type>>,
           pos |-> Offset(i, j), attrs |-> d[i].steps[j].attrs]
  BY <1>2, <1>4 DEF StepAt
<1>6. <<i, j, 0>> \in TextPlace /\ Offset(i, j) \in Nat
  BY <1>1, OffsetOrder DEF TextPlace
<1> HIDE DEF s
<1>7. /\ s.at = <<i, j, 0>> /\ s.key = <<x, y, d[i].steps[j].type>>
      /\ s.pos = Offset(i, j) /\ s.attrs = d[i].steps[j].attrs
  BY <1>5
<1>8. StepOK(s)
  BY <1>1, <1>3, <1>6, <1>7 DEF StepOK, EdgeKey, Ptr
<1> QED  BY <1>1, <1>2, <1>7, <1>8 DEF s

LEMMA MentionsAre ==
    ASSUME NEW d
    PROVE  /\ \A m : m \in Mentions(d) <=>
                 \E i \in 1..Len(d) : \E j \in 0..StepsOf(d[i]) : m = MentionAt(d, i, j)
           /\ \A s : s \in Steps(d) <=>
                 \E i \in 1..Len(d) : \E j \in 1..StepsOf(d[i]) : s = StepAt(d, i, j)
BY DEF Mentions, Steps

Marked(M)      == Placed(M) /\ \A m \in M : MentionOK(m)
MarkedSteps(S) == Placed(S) /\ \A s \in S : StepOK(s)

LEMMA DocMarked ==
    ASSUME NEW d, DocOK(d)
    PROVE  Marked(Mentions(d)) /\ MarkedSteps(Steps(d))
<1>1. ASSUME NEW m \in Mentions(d)
      PROVE  MentionOK(m) /\ \E i \in 1..Len(d) : \E j \in 0..StepsOf(d[i]) :
                                 m = MentionAt(d, i, j) /\ m.at = <<i, j, 0>>
  <2>1. PICK i \in 1..Len(d) : \E j \in 0..StepsOf(d[i]) : m = MentionAt(d, i, j)
    BY MentionsAre
  <2>2. PICK j \in 0..StepsOf(d[i]) : m = MentionAt(d, i, j)
    BY <2>1
  <2>3. MentionOK(m) /\ m.at = <<i, j, 0>>
    BY <2>2, MentionFacts
  <2> QED  BY <2>2, <2>3
<1>2. ASSUME NEW s \in Steps(d)
      PROVE  StepOK(s) /\ \E i \in 1..Len(d) : \E j \in 1..StepsOf(d[i]) :
                              s = StepAt(d, i, j) /\ s.at = <<i, j, 0>>
  <2>1. PICK i \in 1..Len(d) : \E j \in 1..StepsOf(d[i]) : s = StepAt(d, i, j)
    BY MentionsAre
  <2>2. PICK j \in 1..StepsOf(d[i]) : s = StepAt(d, i, j)
    BY <2>1
  <2>3. StepOK(s) /\ s.at = <<i, j, 0>>
    BY <2>2, StepFacts
  <2> QED  BY <2>2, <2>3
<1>3. Marked(Mentions(d))
  <2>1. \A m, n \in Mentions(d) : m.at = n.at => m = n
    BY <1>1
  <2>2. \A m \in Mentions(d) : MentionOK(m) /\ m.at \in TextPlace
    BY <1>1 DEF MentionOK
  <2> QED  BY <2>1, <2>2 DEF Marked, Placed
<1>4. MarkedSteps(Steps(d))
  <2>1. \A m, n \in Steps(d) : m.at = n.at => m = n
    BY <1>2
  <2>2. \A m \in Steps(d) : StepOK(m) /\ m.at \in TextPlace
    BY <1>2 DEF StepOK
  <2> QED  BY <2>1, <2>2 DEF MarkedSteps, Placed
<1> QED  BY <1>3, <1>4

-----------------------------------------------------------------------------
(* The part of a document before a place in it, as the loops of buildFromAst *)
(* get on.                                                                   *)

Before(M, i, j) == {m \in M : Earlier(m.at, <<i, j, 0>>)}

LEMMA BeforeAre ==
    ASSUME NEW d, DocOK(d), NEW a \in Nat, NEW b \in Nat
    PROVE  /\ \A m : m \in Before(Mentions(d), a, b) <=>
                 \E i \in 1..Len(d) : \E j \in 0..StepsOf(d[i]) :
                    m = MentionAt(d, i, j) /\ (i < a \/ (i = a /\ j < b))
           /\ \A s : s \in Before(Steps(d), a, b) <=>
                 \E i \in 1..Len(d) : \E j \in 1..StepsOf(d[i]) :
                    s = StepAt(d, i, j) /\ (i < a \/ (i = a /\ j < b))
<1>1. \A i, j \in Nat : Earlier(<<i, j, 0>>, <<a, b, 0>>) <=> i < a \/ (i = a /\ j < b)
  BY DEF Earlier
<1>2. ASSUME NEW i \in 1..Len(d), NEW j \in 0..StepsOf(d[i])
      PROVE  Earlier(MentionAt(d, i, j).at, <<a, b, 0>>) <=> i < a \/ (i = a /\ j < b)
  <2>1. i \in Nat /\ j \in Nat
    BY ItemFacts
  <2> QED  BY <1>1, <2>1, MentionFacts
<1>3. ASSUME NEW i \in 1..Len(d), NEW j \in 1..StepsOf(d[i])
      PROVE  Earlier(StepAt(d, i, j).at, <<a, b, 0>>) <=> i < a \/ (i = a /\ j < b)
  <2>1. i \in Nat /\ j \in Nat
    BY ItemFacts
  <2> QED  BY <1>1, <2>1, StepFacts
<1>4. ASSUME NEW m
      PROVE  m \in Before(Mentions(d), a, b) <=>
                 \E i \in 1..Len(d) : \E j \in 0..StepsOf(d[i]) :
                    m = MentionAt(d, i, j) /\ (i < a \/ (i = a /\ j < b))
  <2>1. m \in Before(Mentions(d), a, b) <=> m \in Mentions(d) /\ Earlier(m.at, <<a, b, 0>>)
    BY DEF Before
  <2> QED  BY <1>2, <2>1, MentionsAre
<1>5. ASSUME NEW s
      PROVE  s \in Before(Steps(d), a, b) <=>
                 \E i \in 1..Len(d) : \E j \in 1..StepsOf(d[i]) :
                    s = StepAt(d, i, j) /\ (i < a \/ (i = a /\ j < b))
  <2>1. s \in Before(Steps(d), a, b) <=> s \in Steps(d) /\ Earlier(s.at, <<a, b, 0>>)
    BY DEF Before
  <2> QED  BY <1>3, <2>1, MentionsAre
<1> QED  BY <1>4, <1>5

LEMMA BeforeMarked ==
    ASSUME NEW d, DocOK(d), NEW a \in Nat, NEW b \in Nat
    PROVE  /\ Marked(Before(Mentions(d), a, b))
           /\ MarkedSteps(Before(Steps(d), a, b))
           /\ \A m \in Before(Mentions(d), a, b) : Earlier(m.at, <<a, b, 0>>)
           /\ \A s \in Before(Steps(d), a, b) : Earlier(s.at, <<a, b, 0>>)
<1>1. /\ Before(Mentions(d), a, b) \subseteq Mentions(d)
      /\ Before(Steps(d), a, b) \subseteq Steps(d)
      /\ \A m \in Before(Mentions(d), a, b) : Earlier(m.at, <<a, b, 0>>)
      /\ \A s \in Before(Steps(d), a, b) : Earlier(s.at, <<a, b, 0>>)
  BY DEF Before
<1> QED  BY <1>1, DocMarked, PlacedSubset DEF Marked, MarkedSteps

LEMMA BeforeFirst ==
    ASSUME NEW d, DocOK(d)
    PROVE  Before(Mentions(d), 1, 0) = {} /\ Before(Steps(d), 1, 0) = {}
<1>1. \A i \in 1..Len(d) : \A j \in 0..StepsOf(d[i]) : ~ (i < 1 \/ (i = 1 /\ j < 0))
  BY ItemFacts
<1>2. \A i \in 1..Len(d) : \A j \in 1..StepsOf(d[i]) : ~ (i < 1 \/ (i = 1 /\ j < 0))
  BY ItemFacts
<1> QED  BY <1>1, <1>2, BeforeAre

LEMMA BeforeLast ==
    ASSUME NEW d, DocOK(d)
    PROVE  /\ Before(Mentions(d), Len(d) + 1, 0) = Mentions(d)
           /\ Before(Steps(d), Len(d) + 1, 0) = Steps(d)
<1>1. Len(d) + 1 \in Nat /\ \A i \in 1..Len(d) : i < Len(d) + 1
  BY DEF DocOK
<1>2. \A m : m \in Before(Mentions(d), Len(d) + 1, 0) <=> m \in Mentions(d)
  BY <1>1, BeforeAre, MentionsAre
<1>3. \A m : m \in Before(Steps(d), Len(d) + 1, 0) <=> m \in Steps(d)
  BY <1>1, BeforeAre, MentionsAre
<1> QED  BY <1>2, <1>3

(* Past a mention, and the step to it if it is not the first.                *)
LEMMA BeforeNext ==
    ASSUME NEW d, DocOK(d), NEW i \in 1..Len(d), NEW j \in 0..StepsOf(d[i])
    PROVE  /\ Before(Mentions(d), i, j + 1) =
                 Before(Mentions(d), i, j) \cup {MentionAt(d, i, j)}
           /\ Before(Steps(d), i, j + 1) =
                 Before(Steps(d), i, j) \cup {StepAt(d, i, n) : n \in {j} \ {0}}
<1>0. i \in Nat /\ j \in Nat /\ j + 1 \in Nat /\ StepsOf(d[i]) \in Nat
  BY ItemFacts
<1>1. \A a, b \in Nat : (a < i \/ (a = i /\ b < j + 1)) <=>
                          \/ a < i \/ (a = i /\ b < j)
                          \/ a = i /\ b = j
  BY <1>0
<1>2. \A a \in 1..Len(d) : a \in Nat /\ StepsOf(d[a]) \in Nat
  BY ItemFacts
<1>3. ASSUME NEW m
      PROVE  m \in Before(Mentions(d), i, j + 1) <=>
                 m \in Before(Mentions(d), i, j) \/ m = MentionAt(d, i, j)
  <2>1. m \in Before(Mentions(d), i, j + 1) <=>
            \E a \in 1..Len(d) : \E b \in 0..StepsOf(d[a]) :
                m = MentionAt(d, a, b) /\ (a < i \/ (a = i /\ b < j + 1))
    BY <1>0, BeforeAre
  <2>2. m \in Before(Mentions(d), i, j) <=>
            \E a \in 1..Len(d) : \E b \in 0..StepsOf(d[a]) :
                m = MentionAt(d, a, b) /\ (a < i \/ (a = i /\ b < j))
    BY <1>0, BeforeAre
  <2>3. \A a \in 1..Len(d) : \A b \in 0..StepsOf(d[a]) :
           (a < i \/ (a = i /\ b < j + 1)) <=> (a < i \/ (a = i /\ b < j)) \/ (a = i /\ b = j)
    BY <1>1, <1>2
  <2> QED  BY <2>1, <2>2, <2>3
<1>4. ASSUME NEW s
      PROVE  s \in Before(Steps(d), i, j + 1) <=>
                 s \in Before(Steps(d), i, j) \/ (j # 0 /\ s = StepAt(d, i, j))
  <2>1. s \in Before(Steps(d), i, j + 1) <=>
            \E a \in 1..Len(d) : \E b \in 1..StepsOf(d[a]) :
                s = StepAt(d, a, b) /\ (a < i \/ (a = i /\ b < j + 1))
    BY <1>0, BeforeAre
  <2>2. s \in Before(Steps(d), i, j) <=>
            \E a \in 1..Len(d) : \E b \in 1..StepsOf(d[a]) :
                s = StepAt(d, a, b) /\ (a < i \/ (a = i /\ b < j))
    BY <1>0, BeforeAre
  <2>3. \A a \in 1..Len(d) : \A b \in 1..StepsOf(d[a]) :
           (a < i \/ (a = i /\ b < j + 1)) <=>
               (a < i \/ (a = i /\ b < j)) \/ (a = i /\ b = j /\ j # 0)
    BY <1>1, <1>2
  <2>4. j # 0 => j \in 1..StepsOf(d[i])
    BY <1>0
  <2> QED  BY <2>1, <2>2, <2>3, <2>4
<1> QED  BY <1>3, <1>4

(* Past the last mention of an item is before the next item.                 *)
LEMMA BeforeNextItem ==
    ASSUME NEW d, DocOK(d), NEW i \in 1..Len(d)
    PROVE  /\ Before(Mentions(d), i + 1, 0) = Before(Mentions(d), i, StepsOf(d[i]) + 1)
           /\ Before(Steps(d), i + 1, 0) = Before(Steps(d), i, StepsOf(d[i]) + 1)
<1>0. i \in Nat /\ i + 1 \in Nat /\ StepsOf(d[i]) + 1 \in Nat
  BY ItemFacts
<1>1. \A a \in 1..Len(d) : \A b \in 0..StepsOf(d[a]) :
         (a < i + 1 \/ (a = i + 1 /\ b < 0)) <=> (a < i \/ (a = i /\ b < StepsOf(d[i]) + 1))
  <2> TAKE a \in 1..Len(d)
  <2> TAKE b \in 0..StepsOf(d[a])
  <2>1. a \in Nat /\ b \in Nat /\ b <= StepsOf(d[a]) /\ StepsOf(d[a]) \in Nat
    BY ItemFacts
  <2>2. CASE a = i
    BY <1>0, <2>1, <2>2
  <2>3. CASE a # i
    BY <1>0, <2>1, <2>3
  <2> QED  BY <2>2, <2>3
<1>2. \A m : m \in Before(Mentions(d), i + 1, 0) <=>
             m \in Before(Mentions(d), i, StepsOf(d[i]) + 1)
  BY <1>0, <1>1, BeforeAre
<1>3. \A a \in 1..Len(d) : \A b \in 1..StepsOf(d[a]) : b \in 0..StepsOf(d[a])
  BY ItemFacts
<1>4. \A s : s \in Before(Steps(d), i + 1, 0) <=>
             s \in Before(Steps(d), i, StepsOf(d[i]) + 1)
  BY <1>0, <1>1, <1>3, BeforeAre
<1> QED  BY <1>2, <1>4

-----------------------------------------------------------------------------
(* What a document means, as more of it is read.                             *)

LEMMA LeastOfOne ==
    ASSUME NEW m, Placed({m})
    PROVE  Least({m}) = m
<1>1. m.at \in TextPlace
  BY DEF Placed
<1>2. \A n \in {m} : ~ Earlier(n.at, m.at)
  BY <1>1, EarlierOrder
<1> QED  BY <1>2, LeastIs

LEMMA LaterLeast ==
    ASSUME NEW S, NEW m, Placed(S \cup {m}), \A n \in S : Earlier(n.at, m.at)
    PROVE  Least(S \cup {m}) = IF S = {} THEN m ELSE Least(S)
<1> DEFINE U == S \cup {m}
<1>1. CASE S = {}
  BY <1>1, LeastOfOne
<1>2. CASE S # {}
  <2>1. S \subseteq U /\ \A n \in S, k \in U \ S : Earlier(n.at, k.at)
    OBVIOUS
  <2> HIDE DEF U
  <2>2. Least(U) = Least(S)
    BY <1>2, <2>1, LeastStays DEF U
  <2> QED  BY <1>2, <2>2 DEF U
<1> QED  BY <1>1, <1>2

LEMMA NodeGrows ==
    ASSUME NEW M, NEW m, Marked(M \cup {m}), \A n \in M : Earlier(n.at, m.at)
    PROVE  /\ DeclPos(M \cup {m}) = IF DeclPos(M) = NoPos THEN m.pos ELSE DeclPos(M)
           /\ TypePos(M \cup {m}) = IF TypePos(M) = NoPos /\ m.type # Untyped
                                    THEN m.pos ELSE TypePos(M)
           /\ TypeOf(M \cup {m}) = IF TypeOf(M) = Untyped THEN m.type ELSE TypeOf(M)
<1> DEFINE U == M \cup {m}
<1>0. Placed(U) /\ MentionOK(m) /\ \A n \in M : MentionOK(n)
  BY DEF Marked
<1>1. CASE m.pos = NoPos
  <2>1. Declared(U) = Declared(M)
    BY <1>1 DEF Declared
  <2>2. DeclPos(U) = DeclPos(M)
    BY <2>1 DEF DeclPos
  <2> QED  BY <1>0, <1>1, <2>2 DEF MentionOK, Typed, TypePos, TypeOf
<1>2. CASE m.pos # NoPos
  <2>1. Declared(U) = Declared(M) \cup {m}
    BY <1>2 DEF Declared
  <2>2. Placed(Declared(U)) /\ Declared(U) # {} /\ \A n \in Declared(M) : Earlier(n.at, m.at)
    <3>1. Declared(U) \subseteq U
      BY DEF Declared
    <3> QED  BY <1>0, <2>1, <3>1, PlacedSubset DEF Declared
  <2>3. Least(Declared(U)) = IF Declared(M) = {} THEN m ELSE Least(Declared(M))
    BY <2>1, <2>2, LaterLeast
  <2>4. Declared(M) # {} => DeclPos(M) # NoPos /\ DeclPos(M) = Least(Declared(M)).pos
    <3>1. Placed(Declared(M))
      BY <2>1, <2>2, PlacedSubset
    <3>2. Declared(M) # {} => Least(Declared(M)) \in Declared(M)
      BY <3>1, LeastFacts
    <3> QED  BY <3>2 DEF DeclPos, Declared
  <2>5. DeclPos(U) = IF DeclPos(M) = NoPos THEN m.pos ELSE DeclPos(M)
    <3>1. Declared(M) = {} => DeclPos(M) = NoPos
      BY DEF DeclPos
    <3>2. DeclPos(U) = Least(Declared(U)).pos
      BY <2>2 DEF DeclPos
    <3> QED  BY <2>3, <2>4, <3>1, <3>2
  <2>6. CASE m.type = Untyped
    <3>1. Typed(U) = Typed(M)
      BY <2>6 DEF Typed
    <3>2. TypeOf(U) = TypeOf(M) /\ TypePos(U) = TypePos(M)
      BY <3>1 DEF TypeOf, TypePos
    <3> QED  BY <2>5, <2>6, <3>2
  <2>7. CASE m.type # Untyped
    <3>1. Typed(U) = Typed(M) \cup {m}
      BY <2>7 DEF Typed
    <3>2. Placed(Typed(U)) /\ Typed(U) # {} /\ \A n \in Typed(M) : Earlier(n.at, m.at)
      <4>1. Typed(U) \subseteq U
        BY DEF Typed
      <4> QED  BY <1>0, <3>1, <4>1, PlacedSubset DEF Typed
    <3>3. Least(Typed(U)) = IF Typed(M) = {} THEN m ELSE Least(Typed(M))
      BY <3>1, <3>2, LaterLeast
    <3>4. Typed(M) # {} => /\ TypePos(M) # NoPos /\ TypePos(M) = Least(Typed(M)).pos
                           /\ TypeOf(M) # Untyped /\ TypeOf(M) = Least(Typed(M)).type
      <4>1. Placed(Typed(M))
        BY <3>1, <3>2, PlacedSubset
      <4>2. Typed(M) # {} => Least(Typed(M)) \in Typed(M)
        BY <4>1, LeastFacts
      <4>3. \A n \in Typed(M) : n.type # Untyped /\ n.pos # NoPos
        BY <1>0 DEF Typed, MentionOK
      <4> QED  BY <4>2, <4>3 DEF TypeOf, TypePos
    <3>5. Typed(M) = {} => TypePos(M) = NoPos /\ TypeOf(M) = Untyped
      BY DEF TypeOf, TypePos
    <3>6. TypeOf(U) = Least(Typed(U)).type /\ TypePos(U) = Least(Typed(U)).pos
      BY <3>2 DEF TypeOf, TypePos
    <3> QED  BY <2>5, <2>7, <3>3, <3>4, <3>5, <3>6
  <2> QED  BY <2>6, <2>7
<1> QED  BY <1>1, <1>2

(* What has attributes, at the places of steps.                              *)
Annotated(M) == Placed(M) /\ \A m \in M : m.at[3] = 0 /\ m.attrs \in Seq(Pair)

LEMMA MarkedAnnotated ==
    /\ \A M : Marked(M) => Annotated(M)
    /\ \A S : MarkedSteps(S) => Annotated(S)
BY DEF Marked, MarkedSteps, Annotated, MentionOK, StepOK

LEMMA AssignmentsPlaced ==
    ASSUME NEW M, Annotated(M)
    PROVE  /\ Placed(Assignments(M))
           /\ \A a \in Assignments(M) : \E m \in M : a.at[1] = m.at[1] /\ a.at[2] = m.at[2]
<1>1. ASSUME NEW a \in Assignments(M)
      PROVE  \E m \in M : \E n \in 1..Len(m.attrs) : a = AssignmentAt(m, n)
  BY DEF Assignments
<1>2. ASSUME NEW m \in M, NEW n \in 1..Len(m.attrs)
      PROVE  /\ AssignmentAt(m, n).at = <<m.at[1], m.at[2], n>>
             /\ AssignmentAt(m, n).at \in TextPlace
  BY AssignmentFacts DEF Annotated, Placed
<1>3. \A m, n \in M : m.at[1] = n.at[1] /\ m.at[2] = n.at[2] => m = n
  <2> SUFFICES ASSUME NEW m \in M, NEW n \in M, m.at[1] = n.at[1], m.at[2] = n.at[2]
               PROVE  m = n
    OBVIOUS
  <2>1. m.at[3] = n.at[3] /\ m.at \in TextPlace /\ n.at \in TextPlace
    BY DEF Annotated, Placed
  <2>2. m.at = n.at
    BY <2>1 DEF TextPlace
  <2> QED  BY <2>2 DEF Annotated, Placed
<1>4. ASSUME NEW a \in Assignments(M), NEW b \in Assignments(M), a.at = b.at
      PROVE  a = b
  <2>1. PICK m \in M : \E n \in 1..Len(m.attrs) : a = AssignmentAt(m, n)
    BY <1>1
  <2>2. PICK n \in 1..Len(m.attrs) : a = AssignmentAt(m, n)
    BY <2>1
  <2>3. PICK k \in M : \E l \in 1..Len(k.attrs) : b = AssignmentAt(k, l)
    BY <1>1
  <2>4. PICK l \in 1..Len(k.attrs) : b = AssignmentAt(k, l)
    BY <2>3
  <2>5. a.at = <<m.at[1], m.at[2], n>> /\ b.at = <<k.at[1], k.at[2], l>>
    BY <1>2, <2>2, <2>4
  <2>6. n = l /\ m.at[1] = k.at[1] /\ m.at[2] = k.at[2]
    <3>1. a.at[1] = m.at[1] /\ a.at[2] = m.at[2] /\ a.at[3] = n
      BY <2>5
    <3>2. b.at[1] = k.at[1] /\ b.at[2] = k.at[2] /\ b.at[3] = l
      BY <2>5
    <3> QED  BY <1>4, <3>1, <3>2
  <2>7. m = k
    BY <1>3, <2>6
  <2> QED  BY <2>2, <2>4, <2>6, <2>7
<1>5. ASSUME NEW a \in Assignments(M)
      PROVE  /\ a.at \in TextPlace
             /\ \E m \in M : a.at[1] = m.at[1] /\ a.at[2] = m.at[2]
  <2>1. PICK m \in M : \E n \in 1..Len(m.attrs) : a = AssignmentAt(m, n)
    BY <1>1
  <2>2. PICK n \in 1..Len(m.attrs) : a = AssignmentAt(m, n)
    BY <2>1
  <2> QED  BY <1>2, <2>2
<1> QED  BY <1>4, <1>5 DEF Placed

LEMMA NothingMerged ==
    /\ Assignments({}) = {} /\ AttrsMerged(<< >>, {})
    /\ \A m : m.attrs = << >> => Assignments({m}) = {}
<1>1. Assignments({}) = {} /\ \A m : m.attrs = << >> => Assignments({m}) = {}
  BY DEF Assignments
<1>2. KeyList(<< >>) = << >> /\ Len(<< >>) = 0 /\ ToSet(<< >>) = {}
  BY DEF KeyList, ToSet
<1>3. AttrsMerged(<< >>, {})
  BY <1>2 DEF AttrsMerged, InOrder
<1> QED  BY <1>1, <1>3

LEMMA MergedGrows ==
    ASSUME NEW M, NEW m, Annotated(M \cup {m}), \A n \in M : Earlier(n.at, m.at),
           NEW P \in Seq(Pair), AttrsMerged(P, Assignments(M))
    PROVE  /\ UpdateAttrs(P, m.attrs) \in Seq(Pair)
           /\ AttrsMerged(UpdateAttrs(P, m.attrs), Assignments(M \cup {m}))
<1>1. Annotated(M) /\ m.at \in TextPlace /\ m.attrs \in Seq(Pair)
  <2>1. Placed(M)
    BY PlacedSubset DEF Annotated
  <2> QED  BY <2>1 DEF Annotated, Placed
<1>2. \A n \in M : StepBefore(n.at, m.at)
  <2>1. \A n \in M : n.at[3] = 0 /\ m.at[3] = 0
    BY DEF Annotated
  <2> QED  BY <2>1 DEF StepBefore, Earlier
<1>3. \A a \in Assignments(M) : StepBefore(a.at, m.at)
  BY <1>1, <1>2, AssignmentsPlaced DEF StepBefore
<1>4. Assignments(M \cup {m}) = Assignments(M) \cup Assignments({m})
  BY DEF Assignments
<1>5. Placed(Assignments(M))
  BY <1>1, AssignmentsPlaced
<1>6. PICK A : A = Assignments(M)
  OBVIOUS
<1>7. Placed(A) /\ AttrsMerged(P, A) /\ \A a \in A : StepBefore(a.at, m.at)
  BY <1>3, <1>5, <1>6
<1>8. /\ UpdateAttrs(P, m.attrs) \in Seq(Pair)
      /\ AttrsMerged(UpdateAttrs(P, m.attrs), A \cup Assignments({m}))
  BY <1>1, <1>7, UpdateAttrsMerges
<1> QED  BY <1>4, <1>6, <1>8

(* One more mention of a node.                                               *)
LEMMA NodesMeantGrows ==
    ASSUME NEW h, NEW M, Marked(M), NodesMeant(h, M),
           h \in Graph, NEW m, MentionOK(m), \A n \in M : Earlier(n.at, m.at),
           ~ RetypesNode(h, m.id, m.type),
           NEW h2, Upserted(h, h2, m.id, m.pos, m.type, UpdateAttrs(h.attrs[m.id], m.attrs))
    PROVE  Marked(M \cup {m}) /\ NodesMeant(h2, M \cup {m})
<1> DEFINE U == M \cup {m}
           ids == {n.id : n \in M}
           idsU == {n.id : n \in U}
           place == [x \in ids |-> Least(OfNode(M, x)).at]
           placeU == [x \in idsU |-> Least(OfNode(U, x)).at]
<1>a. /\ h.nodes \in Seq(Id) /\ h.typ \in [Id -> Type] /\ h.attrs \in [Id -> Seq(Pair)]
      /\ h.declPos \in [Id -> Position] /\ h.typeFromPos \in [Id -> Position]
  BY DEF Graph
<1>b. /\ h2.nodes = IF HasNode(h, m.id) THEN h.nodes ELSE Append(h.nodes, m.id)
      /\ h2.typ = [h.typ EXCEPT ![m.id] = IF m.type = Untyped THEN @ ELSE m.type]
      /\ h2.declPos = [h.declPos EXCEPT ![m.id] = IF @ = NoPos THEN m.pos ELSE @]
      /\ h2.typeFromPos = [h.typeFromPos EXCEPT
                              ![m.id] = IF @ = NoPos /\ m.type # Untyped THEN m.pos ELSE @]
      /\ h2.attrs = [h.attrs EXCEPT ![m.id] = UpdateAttrs(h.attrs[m.id], m.attrs)]
  BY DEF Upserted
<1>1. Marked(U)
  <2>1. m.at \in TextPlace /\ \A n \in M : n.at \in TextPlace /\ n.at # m.at
    BY EarlierOrder DEF Marked, Placed, MentionOK
  <2> QED  BY <2>1 DEF Marked, Placed
<1>2. /\ \A x : x # m.id => OfNode(U, x) = OfNode(M, x)
      /\ OfNode(U, m.id) = OfNode(M, m.id) \cup {m}
      /\ idsU = ids \cup {m.id}
  BY DEF OfNode
<1>3. ASSUME NEW x
      PROVE  /\ Marked(OfNode(U, x)) /\ Marked(OfNode(M, x))
             /\ \A n \in OfNode(M, x) : Earlier(n.at, m.at)
  <2>1. OfNode(U, x) \subseteq U /\ OfNode(M, x) \subseteq M
    BY DEF OfNode
  <2> QED  BY <1>1, <2>1, PlacedSubset DEF Marked
<1>4. ToSet(h.nodes) = ids /\ InOrder(h.nodes, ids, place)
  BY DEF NodesMeant, NodesInOrder, InOrder
<1>5. ASSUME NEW x \in ids
      PROVE  placeU[x] = place[x] /\ Earlier(place[x], m.at)
  <2>1. OfNode(M, x) # {} /\ x \in idsU
    BY DEF OfNode
  <2>2. Placed(OfNode(M, x)) /\ Placed(OfNode(U, x))
    BY <1>3 DEF Marked
  <2>3. Least(OfNode(M, x)) \in OfNode(M, x)
    BY <2>1, <2>2, LeastFacts
  <2>4. Earlier(Least(OfNode(M, x)).at, m.at)
    BY <1>3, <2>3
  <2>5. Least(OfNode(U, x)) = Least(OfNode(M, x))
    <3>1. CASE x = m.id
      <4>1. Placed(OfNode(M, x) \cup {m})
        BY <1>2, <2>2, <3>1
      <4>2. Least(OfNode(M, x) \cup {m}) = Least(OfNode(M, x))
        BY <1>3, <2>1, <4>1, LaterLeast
      <4> QED  BY <1>2, <3>1, <4>2
    <3>2. CASE x # m.id
      BY <1>2, <3>2
    <3> QED  BY <3>1, <3>2
  <2> QED  BY <2>1, <2>4, <2>5
<1>6. m.id \notin ids => placeU[m.id] = m.at
  <2> SUFFICES ASSUME m.id \notin ids PROVE placeU[m.id] = m.at
    OBVIOUS
  <2>1. OfNode(M, m.id) = {}
    BY DEF OfNode
  <2>2. OfNode(U, m.id) = {m} /\ m.id \in idsU
    BY <1>2, <2>1
  <2>3. Placed({m})
    <3> HIDE DEF U
    <3>1. Placed(OfNode(U, m.id))
      BY <1>3 DEF Marked
    <3> QED  BY <2>2, <3>1
  <2>4. Least({m}) = m
    BY <2>3, LeastOfOne
  <2> QED  BY <2>2, <2>4
<1>7. NodesInOrder(h2.nodes, U)
  <2>1. \A y \in ids : placeU[y] = place[y]
    BY <1>5
  <2>2. m.id \notin ids => \A y \in ids : Earlier(place[y], placeU[m.id])
    BY <1>5, <1>6
  <2>3. m.id \in Id
    BY DEF MentionOK
  <2> HIDE DEF ids, idsU, place, placeU
  <2>4. PICK x \in Id : x = m.id
    BY <2>3
  <2>5. PICK t \in Seq(Id) : t = h.nodes
    BY <1>a
  <2>6. InOrder(t, ids, placeU) /\ ToSet(t) = ids
    BY <1>4, <2>1, <2>5, InOrderSame
  <2>7. InOrder(h2.nodes, idsU, placeU)
    <3>1. CASE x \in ids
      <4>1. idsU = ids /\ h2.nodes = t
        BY <1>b, <1>2, <2>4, <2>5, <2>6, <3>1 DEF HasNode
      <4> QED  BY <2>6, <4>1
    <3>2. CASE x \notin ids
      <4>1. \A y \in ids : Earlier(placeU[y], placeU[x])
        BY <2>1, <2>2, <2>4, <3>2
      <4>2. InOrder(Append(t, x), ids \cup {x}, placeU)
        BY <2>4, <2>5, <2>6, <3>2, <4>1, InOrderAppend
      <4>3. idsU = ids \cup {x} /\ h2.nodes = Append(t, x)
        BY <1>b, <1>2, <2>4, <2>5, <2>6, <3>2 DEF HasNode
      <4> QED  BY <4>2, <4>3
    <3> QED  BY <3>1, <3>2
  <2> QED  BY <2>7 DEF NodesInOrder, idsU, placeU
<1>8. ASSUME NEW x \in Id
      PROVE  /\ h2.typ[x] = TypeOf(OfNode(U, x)) /\ h2.typeFromPos[x] = TypePos(OfNode(U, x))
             /\ h2.declPos[x] = DeclPos(OfNode(U, x))
             /\ AttrsMerged(h2.attrs[x], Assignments(OfNode(U, x)))
  <2>0. PICK F : F = OfNode(M, x)
    OBVIOUS
  <2>1. /\ h.typ[x] = TypeOf(F) /\ h.typeFromPos[x] = TypePos(F)
        /\ h.declPos[x] = DeclPos(F) /\ AttrsMerged(h.attrs[x], Assignments(F))
    BY <2>0 DEF NodesMeant
  <2>2. CASE x # m.id
    <3>1. /\ h2.typ[x] = h.typ[x] /\ h2.typeFromPos[x] = h.typeFromPos[x]
          /\ h2.declPos[x] = h.declPos[x] /\ h2.attrs[x] = h.attrs[x]
      BY <1>a, <1>b, <2>2
    <3>2. OfNode(U, x) = F
      BY <1>2, <2>0, <2>2
    <3> HIDE DEF U
    <3> QED  BY <2>1, <3>1, <3>2
  <2>3. CASE x = m.id
    <3>1. /\ h2.typ[x] = IF m.type = Untyped THEN h.typ[x] ELSE m.type
          /\ h2.typeFromPos[x] = IF h.typeFromPos[x] = NoPos /\ m.type # Untyped
                                 THEN m.pos ELSE h.typeFromPos[x]
          /\ h2.declPos[x] = IF h.declPos[x] = NoPos THEN m.pos ELSE h.declPos[x]
          /\ h2.attrs[x] = UpdateAttrs(h.attrs[x], m.attrs)
      BY <1>a, <1>b, <2>3
    <3>2. OfNode(U, x) = F \cup {m} /\ Marked(F \cup {m}) /\ \A n \in F : Earlier(n.at, m.at)
      <4> HIDE DEF U
      <4>1. OfNode(U, x) = F \cup {m}
        BY <1>2, <2>0, <2>3
      <4>2. Marked(OfNode(U, x)) /\ \A n \in F : Earlier(n.at, m.at)
        BY <1>3, <2>0
      <4> QED  BY <4>1, <4>2
    <3>3. /\ DeclPos(F \cup {m}) = IF DeclPos(F) = NoPos THEN m.pos ELSE DeclPos(F)
          /\ TypePos(F \cup {m}) = IF TypePos(F) = NoPos /\ m.type # Untyped
                                   THEN m.pos ELSE TypePos(F)
          /\ TypeOf(F \cup {m}) = IF TypeOf(F) = Untyped THEN m.type ELSE TypeOf(F)
      BY <3>2, NodeGrows
    <3>4. TypeOf(F) # Untyped /\ m.type # Untyped => TypeOf(F) = m.type
      <4>1. F = {} => TypeOf(F) = Untyped
        BY DEF TypeOf, Typed
      <4>2. F # {} => HasNode(h, x)
        BY <1>4, <2>0 DEF HasNode, OfNode
      <4> QED  BY <2>1, <2>3, <4>1, <4>2 DEF RetypesNode
    <3>5. AttrsMerged(h2.attrs[x], Assignments(F \cup {m}))
      <4>1. Annotated(F \cup {m})
        BY <3>2, MarkedAnnotated
      <4>2. PICK P \in Seq(Pair) : P = h.attrs[x]
        BY <1>a
      <4>3. AttrsMerged(P, Assignments(F))
        BY <2>1, <4>2
      <4>4. AttrsMerged(UpdateAttrs(P, m.attrs), Assignments(F \cup {m}))
        BY <3>2, <4>1, <4>3, MergedGrows
      <4> QED  BY <3>1, <4>2, <4>4
    <3>6. PICK G : G = F \cup {m}
      OBVIOUS
    <3> HIDE DEF U
    <3> QED  BY <2>1, <3>1, <3>2, <3>3, <3>4, <3>5, <3>6
  <2> QED  BY <2>2, <2>3
<1> HIDE DEF U
<1>9. NodesMeant(h2, U)
  BY <1>7, <1>8 DEF NodesMeant
<1> QED  BY <1>1, <1>9 DEF U

(* One more step to a node, by a new edge or by one that is there.           *)
LEMMA EdgesMeantGrows ==
    ASSUME NEW h, NEW S, MarkedSteps(S), EdgesMeant(h, S),
           h \in Graph, NEW s, StepOK(s), \A n \in S : Earlier(n.at, s.at),
           ~ HasEdge(h, s.key) => h.edgeAttrs[s.key] = << >>,
           NEW h2, EdgeAdded(h, h2, s.key, s.pos, UpdateAttrs(h.edgeAttrs[s.key], s.attrs))
    PROVE  MarkedSteps(S \cup {s}) /\ EdgesMeant(h2, S \cup {s})
<1> DEFINE U == S \cup {s}
           keys == {n.key : n \in S}
           keysU == {n.key : n \in U}
           place == [k \in keys |-> Least(OfEdge(S, k)).at]
           placeU == [k \in keysU |-> Least(OfEdge(U, k)).at]
<1>a. /\ h.edges \in Seq(EdgeKey) /\ h.edgePos \in [EdgeKey -> Position]
      /\ h.edgeAttrs \in [EdgeKey -> Seq(Pair)]
  BY DEF Graph
<1>b. /\ h2.edges = IF HasEdge(h, s.key) THEN h.edges ELSE Append(h.edges, s.key)
      /\ h2.edgePos = IF HasEdge(h, s.key) THEN h.edgePos
                      ELSE [h.edgePos EXCEPT ![s.key] = s.pos]
      /\ h2.edgeAttrs = [h.edgeAttrs EXCEPT ![s.key] = UpdateAttrs(h.edgeAttrs[s.key], s.attrs)]
  BY DEF EdgeAdded
<1>1. MarkedSteps(U)
  <2>1. s.at \in TextPlace /\ \A n \in S : n.at \in TextPlace /\ n.at # s.at
    BY EarlierOrder DEF MarkedSteps, Placed, StepOK
  <2> QED  BY <2>1 DEF MarkedSteps, Placed
<1>2. /\ \A k : k # s.key => OfEdge(U, k) = OfEdge(S, k)
      /\ OfEdge(U, s.key) = OfEdge(S, s.key) \cup {s}
      /\ keysU = keys \cup {s.key}
  BY DEF OfEdge
<1>3. ASSUME NEW k
      PROVE  /\ MarkedSteps(OfEdge(U, k)) /\ MarkedSteps(OfEdge(S, k))
             /\ \A n \in OfEdge(S, k) : Earlier(n.at, s.at)
  <2>1. OfEdge(U, k) \subseteq U /\ OfEdge(S, k) \subseteq S
    BY DEF OfEdge
  <2> QED  BY <1>1, <2>1, PlacedSubset DEF MarkedSteps
<1>4. ToSet(h.edges) = keys /\ InOrder(h.edges, keys, place)
  BY DEF EdgesMeant, EdgesInOrder, InOrder
<1>5. ASSUME NEW k \in keys
      PROVE  /\ Least(OfEdge(U, k)) = Least(OfEdge(S, k))
             /\ placeU[k] = place[k] /\ Earlier(place[k], s.at)
  <2>1. OfEdge(S, k) # {} /\ k \in keysU
    BY DEF OfEdge
  <2>2. Placed(OfEdge(S, k)) /\ Placed(OfEdge(U, k))
    BY <1>3 DEF MarkedSteps
  <2>3. Least(OfEdge(S, k)) \in OfEdge(S, k)
    BY <2>1, <2>2, LeastFacts
  <2>4. Earlier(Least(OfEdge(S, k)).at, s.at)
    BY <1>3, <2>3
  <2>5. Least(OfEdge(U, k)) = Least(OfEdge(S, k))
    <3>1. CASE k = s.key
      <4>1. Placed(OfEdge(S, k) \cup {s})
        BY <1>2, <2>2, <3>1
      <4>2. Least(OfEdge(S, k) \cup {s}) = Least(OfEdge(S, k))
        BY <1>3, <2>1, <4>1, LaterLeast
      <4> QED  BY <1>2, <3>1, <4>2
    <3>2. CASE k # s.key
      BY <1>2, <3>2
    <3> QED  BY <3>1, <3>2
  <2> QED  BY <2>1, <2>4, <2>5
<1>6. s.key \notin keys => OfEdge(S, s.key) = {} /\ Least(OfEdge(U, s.key)) = s
  <2> SUFFICES ASSUME s.key \notin keys
               PROVE  OfEdge(S, s.key) = {} /\ Least(OfEdge(U, s.key)) = s
    OBVIOUS
  <2>1. OfEdge(S, s.key) = {}
    BY DEF OfEdge
  <2>2. OfEdge(U, s.key) = {s}
    BY <1>2, <2>1
  <2>3. Placed({s})
    <3> HIDE DEF U
    <3>1. Placed(OfEdge(U, s.key))
      BY <1>3 DEF MarkedSteps
    <3> QED  BY <2>2, <3>1
  <2>4. Least({s}) = s
    BY <2>3, LeastOfOne
  <2> QED  BY <2>1, <2>2, <2>4
<1>7. ToSet(h2.edges) = keysU /\ EdgesInOrder(h2.edges, U)
  <2>1. \A y \in keys : placeU[y] = place[y]
    BY <1>5
  <2>2. s.key \notin keys => \A y \in keys : Earlier(place[y], placeU[s.key])
    <3>1. s.key \notin keys => placeU[s.key] = s.at
      BY <1>2, <1>6
    <3> QED  BY <1>5, <3>1
  <2>3. s.key \in EdgeKey
    BY DEF StepOK
  <2> HIDE DEF keys, keysU, place, placeU
  <2>4. PICK x \in EdgeKey : x = s.key
    BY <2>3
  <2>5. PICK t \in Seq(EdgeKey) : t = h.edges
    BY <1>a
  <2>6. InOrder(t, keys, placeU) /\ ToSet(t) = keys
    BY <1>4, <2>1, <2>5, InOrderSame
  <2>7. InOrder(h2.edges, keysU, placeU)
    <3>1. CASE x \in keys
      <4>1. keysU = keys /\ h2.edges = t
        BY <1>b, <1>2, <2>4, <2>5, <2>6, <3>1 DEF HasEdge
      <4> QED  BY <2>6, <4>1
    <3>2. CASE x \notin keys
      <4>1. \A y \in keys : Earlier(placeU[y], placeU[x])
        BY <2>1, <2>2, <2>4, <3>2
      <4>2. InOrder(Append(t, x), keys \cup {x}, placeU)
        BY <2>4, <2>5, <2>6, <3>2, <4>1, InOrderAppend
      <4>3. keysU = keys \cup {x} /\ h2.edges = Append(t, x)
        BY <1>b, <1>2, <2>4, <2>5, <2>6, <3>2 DEF HasEdge
      <4> QED  BY <4>2, <4>3
    <3> QED  BY <3>1, <3>2
  <2> QED  BY <2>7 DEF EdgesInOrder, InOrder, keysU, placeU
<1>8. ASSUME NEW k \in keysU
      PROVE  /\ h2.edgePos[k] = Least(OfEdge(U, k)).pos
             /\ AttrsMerged(h2.edgeAttrs[k], Assignments(OfEdge(U, k)))
  <2>0. PICK F : F = OfEdge(S, k)
    OBVIOUS
  <2>1. k \in EdgeKey
    BY <1>1 DEF MarkedSteps, StepOK
  <2>2. k \in keys => /\ h.edgePos[k] = Least(F).pos
                      /\ AttrsMerged(h.edgeAttrs[k], Assignments(F))
    BY <1>4, <2>0 DEF EdgesMeant
  <2>3. CASE k # s.key
    <3>1. k \in keys /\ OfEdge(U, k) = F
      BY <1>2, <2>0, <2>3
    <3>2. h2.edgePos[k] = h.edgePos[k] /\ h2.edgeAttrs[k] = h.edgeAttrs[k]
      BY <1>a, <1>b, <2>1, <2>3
    <3> HIDE DEF U
    <3> QED  BY <2>2, <3>1, <3>2
  <2>4. CASE k = s.key
    <3>1. h2.edgeAttrs[k] = UpdateAttrs(h.edgeAttrs[k], s.attrs)
      BY <1>a, <1>b, <2>1, <2>4
    <3>2. OfEdge(U, k) = F \cup {s} /\ MarkedSteps(F \cup {s}) /\ \A n \in F : Earlier(n.at, s.at)
      <4> HIDE DEF U
      <4>1. OfEdge(U, k) = F \cup {s}
        BY <1>2, <2>0, <2>4
      <4>2. MarkedSteps(OfEdge(U, k)) /\ \A n \in F : Earlier(n.at, s.at)
        BY <1>3, <2>0
      <4> QED  BY <4>1, <4>2
    <3>3. AttrsMerged(h.edgeAttrs[k], Assignments(F))
      <4>1. CASE k \in keys
        BY <2>2, <4>1
      <4>2. CASE k \notin keys
        <5>1. F = {} /\ ~ HasEdge(h, k)
          BY <1>4, <1>6, <2>0, <2>4, <4>2 DEF HasEdge
        <5>2. h.edgeAttrs[k] = << >>
          BY <2>4, <5>1
        <5> QED  BY <5>1, <5>2, NothingMerged
      <4> QED  BY <4>1, <4>2
    <3>4. AttrsMerged(h2.edgeAttrs[k], Assignments(F \cup {s}))
      <4>1. Annotated(F \cup {s})
        BY <3>2, MarkedAnnotated
      <4>2. PICK P \in Seq(Pair) : P = h.edgeAttrs[k]
        BY <1>a, <2>1
      <4>3. AttrsMerged(P, Assignments(F))
        BY <3>3, <4>2
      <4>4. AttrsMerged(UpdateAttrs(P, s.attrs), Assignments(F \cup {s}))
        BY <3>2, <4>1, <4>3, MergedGrows
      <4> QED  BY <3>1, <4>2, <4>4
    <3>5. h2.edgePos[k] = Least(OfEdge(U, k)).pos
      <4>1. CASE k \in keys
        <5>1. h2.edgePos = h.edgePos
          BY <1>b, <1>4, <2>4, <4>1 DEF HasEdge
        <5> QED  BY <1>5, <2>0, <2>2, <4>1, <5>1
      <4>2. CASE k \notin keys
        <5>1. h2.edgePos[k] = s.pos
          BY <1>a, <1>b, <1>4, <2>1, <2>4, <4>2 DEF HasEdge
        <5> QED  BY <1>6, <2>4, <4>2, <5>1
      <4> QED  BY <4>1, <4>2
    <3> HIDE DEF U
    <3> QED  BY <3>2, <3>4, <3>5
  <2> QED  BY <2>3, <2>4
<1> HIDE DEF U
<1>9. EdgesMeant(h2, U)
  BY <1>7, <1>8 DEF EdgesMeant
<1> QED  BY <1>1, <1>9 DEF U

-----------------------------------------------------------------------------
(* The faults of a document.                                                 *)

DocFaults(d) == Faults(Mentions(d), Steps(d))

(* The faults that buildFromAst can find at one mention of a node and the    *)
(* step to it.                                                               *)
RetypesAt(d, i, j) == MentionAt(d, i, j) \in Retypes(Mentions(d))
LoopsAt(d, i, j)   == j # 0 /\ StepAt(d, i, j).key[1] = StepAt(d, i, j).key[2]
NamesTypeAt(d, i, j) ==
    NamesType(MentionAt(d, i, j).attrs) \/ (j # 0 /\ NamesType(StepAt(d, i, j).attrs))
FaultAt(d, i, j, f) ==
    \/ RetypesAt(d, i, j) /\ f = [at |-> <<i, j, 0>>, err |-> "ErrTypeChange"]
    \/ LoopsAt(d, i, j) /\ f = [at |-> <<i, j, 0>>, err |-> "ErrLoop"]
    \/ NamesTypeAt(d, i, j) /\ f = [at |-> <<i, j, 1>>, err |-> "ErrTypeInAttrs"]

LEMMA FaultsAre ==
    ASSUME NEW d, DocOK(d), NEW f
    PROVE  f \in DocFaults(d) <=>
               \E i \in 1..Len(d) : \E j \in 0..StepsOf(d[i]) : FaultAt(d, i, j, f)
<1>0. PICK M, S : M = Mentions(d) /\ S = Steps(d)
  OBVIOUS
<1>1. /\ \A m \in M : \E i \in 1..Len(d) : \E j \in 0..StepsOf(d[i]) : m = MentionAt(d, i, j)
      /\ \A i \in 1..Len(d) : \A j \in 0..StepsOf(d[i]) :
            MentionAt(d, i, j) \in M /\ MentionAt(d, i, j).at = <<i, j, 0>>
  BY <1>0, MentionsAre, MentionFacts
<1>2. /\ \A s \in S : \E i \in 1..Len(d) : \E j \in 1..StepsOf(d[i]) : s = StepAt(d, i, j)
      /\ \A i \in 1..Len(d) : \A j \in 1..StepsOf(d[i]) :
            StepAt(d, i, j) \in S /\ StepAt(d, i, j).at = <<i, j, 0>>
  BY <1>0, MentionsAre, StepFacts
<1>3. \A i \in 1..Len(d) : /\ StepsOf(d[i]) \in Nat
                           /\ \A j : j \in 1..StepsOf(d[i]) <=> j \in 0..StepsOf(d[i]) /\ j # 0
  BY ItemFacts
<1>4. (\E m \in Retypes(M) : f = [at |-> m.at, err |-> "ErrTypeChange"]) <=>
      \E i \in 1..Len(d) : \E j \in 0..StepsOf(d[i]) :
          RetypesAt(d, i, j) /\ f = [at |-> <<i, j, 0>>, err |-> "ErrTypeChange"]
  <2>1. \A m \in Retypes(M) : m \in M
    BY DEF Retypes
  <2>2. ASSUME NEW m \in Retypes(M), f = [at |-> m.at, err |-> "ErrTypeChange"]
        PROVE  \E i \in 1..Len(d) : \E j \in 0..StepsOf(d[i]) :
                   RetypesAt(d, i, j) /\ f = [at |-> <<i, j, 0>>, err |-> "ErrTypeChange"]
    <3>1. PICK i \in 1..Len(d) : \E j \in 0..StepsOf(d[i]) : m = MentionAt(d, i, j)
      BY <1>1, <2>1
    <3>2. PICK j \in 0..StepsOf(d[i]) : m = MentionAt(d, i, j)
      BY <3>1
    <3>3. m.at = <<i, j, 0>> /\ RetypesAt(d, i, j)
      BY <1>0, <1>1, <3>2 DEF RetypesAt
    <3> QED  BY <2>2, <3>2, <3>3
  <2>3. ASSUME NEW i \in 1..Len(d), NEW j \in 0..StepsOf(d[i]), RetypesAt(d, i, j)
        PROVE  MentionAt(d, i, j) \in Retypes(M) /\ MentionAt(d, i, j).at = <<i, j, 0>>
    BY <1>0, <1>1, <2>3 DEF RetypesAt
  <2> QED  BY <2>2, <2>3
<1>5. (\E s \in Loops(S) : f = [at |-> s.at, err |-> "ErrLoop"]) <=>
      \E i \in 1..Len(d) : \E j \in 0..StepsOf(d[i]) :
          LoopsAt(d, i, j) /\ f = [at |-> <<i, j, 0>>, err |-> "ErrLoop"]
  <2>1. \A s : s \in Loops(S) <=> s \in S /\ s.key[1] = s.key[2]
    BY DEF Loops
  <2>2. ASSUME NEW s \in Loops(S), f = [at |-> s.at, err |-> "ErrLoop"]
        PROVE  \E i \in 1..Len(d) : \E j \in 0..StepsOf(d[i]) :
                   LoopsAt(d, i, j) /\ f = [at |-> <<i, j, 0>>, err |-> "ErrLoop"]
    <3>1. PICK i \in 1..Len(d) : \E j \in 1..StepsOf(d[i]) : s = StepAt(d, i, j)
      BY <1>2, <2>1
    <3>2. PICK j \in 1..StepsOf(d[i]) : s = StepAt(d, i, j)
      BY <3>1
    <3>3. s.at = <<i, j, 0>> /\ LoopsAt(d, i, j) /\ j \in 0..StepsOf(d[i])
      BY <1>2, <1>3, <2>1, <3>2 DEF LoopsAt
    <3> QED  BY <2>2, <3>3
  <2>3. ASSUME NEW i \in 1..Len(d), NEW j \in 0..StepsOf(d[i]), LoopsAt(d, i, j)
        PROVE  StepAt(d, i, j) \in Loops(S) /\ StepAt(d, i, j).at = <<i, j, 0>>
    BY <1>2, <1>3, <2>1, <2>3 DEF LoopsAt
  <2> QED  BY <2>2, <2>3
<1>6. (\E m \in NamingType(M) \cup NamingType(S) :
           f = [at |-> <<m.at[1], m.at[2], 1>>, err |-> "ErrTypeInAttrs"]) <=>
      \E i \in 1..Len(d) : \E j \in 0..StepsOf(d[i]) :
          NamesTypeAt(d, i, j) /\ f = [at |-> <<i, j, 1>>, err |-> "ErrTypeInAttrs"]
  <2>1. /\ \A m : m \in NamingType(M) <=> m \in M /\ NamesType(m.attrs)
        /\ \A s : s \in NamingType(S) <=> s \in S /\ NamesType(s.attrs)
    BY DEF NamingType, NamesType
  <2>2. (\E m \in M : NamesType(m.attrs) /\
             f = [at |-> <<m.at[1], m.at[2], 1>>, err |-> "ErrTypeInAttrs"]) <=>
        \E i \in 1..Len(d) : \E j \in 0..StepsOf(d[i]) :
            /\ NamesType(MentionAt(d, i, j).attrs)
            /\ f = [at |-> <<i, j, 1>>, err |-> "ErrTypeInAttrs"]
    BY <1>1
  <2>3. (\E s \in S : NamesType(s.attrs) /\
             f = [at |-> <<s.at[1], s.at[2], 1>>, err |-> "ErrTypeInAttrs"]) <=>
        \E i \in 1..Len(d) : \E j \in 1..StepsOf(d[i]) :
            /\ NamesType(StepAt(d, i, j).attrs)
            /\ f = [at |-> <<i, j, 1>>, err |-> "ErrTypeInAttrs"]
    BY <1>2
  <2> QED  BY <1>3, <2>1, <2>2, <2>3 DEF NamesTypeAt
<1>7. f \in DocFaults(d) <=>
          \/ \E m \in Retypes(M) : f = [at |-> m.at, err |-> "ErrTypeChange"]
          \/ \E s \in Loops(S) : f = [at |-> s.at, err |-> "ErrLoop"]
          \/ \E m \in NamingType(M) \cup NamingType(S) :
                 f = [at |-> <<m.at[1], m.at[2], 1>>, err |-> "ErrTypeInAttrs"]
  BY <1>0, Zenon DEF DocFaults, Faults
<1> QED  BY <1>4, <1>5, <1>6, <1>7 DEF FaultAt

LEMMA FaultFacts ==
    ASSUME NEW d, DocOK(d), NEW i \in 1..Len(d), NEW j \in 0..StepsOf(d[i]),
           NEW f, FaultAt(d, i, j, f)
    PROVE  /\ f.at \in TextPlace /\ f.at[1] = i /\ f.at[2] = j
           /\ f.at[3] = 1 => f = [at |-> <<i, j, 1>>, err |-> "ErrTypeInAttrs"]
           /\ f.at[3] # 1 => f.at[3] = 0
           /\ f.at[3] = 0 => f = [at |-> <<i, j, 0>>,
                                  err |-> IF j = 0 THEN "ErrTypeChange" ELSE "ErrLoop"]
<1>1. i \in Nat /\ j \in Nat /\ StepsOf(d[i]) \in Nat
  BY ItemFacts
<1>2. RetypesAt(d, i, j) => j = 0
  <2>1. RetypesAt(d, i, j) => MentionAt(d, i, j).type # Untyped
    BY DEF RetypesAt, Retypes
  <2>2. RetypesAt(d, i, j) => d[i].kind = "node"
    BY <2>1, MentionFacts
  <2> QED  BY <1>1, <2>2, ItemFacts
<1>3. PICK n, e : /\ n \in {0, 1} /\ f = [at |-> <<i, j, n>>, err |-> e]
                  /\ n = 1 => e = "ErrTypeInAttrs"
                  /\ n = 0 => e = IF j = 0 THEN "ErrTypeChange" ELSE "ErrLoop"
  BY <1>2 DEF FaultAt, LoopsAt
<1>4. f.at = <<i, j, n>> /\ <<i, j, n>> \in TextPlace
  BY <1>1, <1>3 DEF TextPlace
<1> QED  BY <1>3, <1>4

LEMMA FaultsPlaced ==
    ASSUME NEW d, DocOK(d)
    PROVE  Placed(DocFaults(d))
<1>1. ASSUME NEW f \in DocFaults(d)
      PROVE  /\ f.at \in TextPlace
             /\ f.at[3] = 1 \/ f.at[3] = 0
             /\ f.at[3] = 1 => f = [at |-> <<f.at[1], f.at[2], 1>>, err |-> "ErrTypeInAttrs"]
             /\ f.at[3] = 0 => f = [at |-> <<f.at[1], f.at[2], 0>>,
                                    err |-> IF f.at[2] = 0 THEN "ErrTypeChange" ELSE "ErrLoop"]
  <2>1. PICK i \in 1..Len(d) : \E j \in 0..StepsOf(d[i]) : FaultAt(d, i, j, f)
    BY FaultsAre
  <2>2. PICK j \in 0..StepsOf(d[i]) : FaultAt(d, i, j, f)
    BY <2>1
  <2> QED  BY <2>2, FaultFacts
<1>2. ASSUME NEW f \in DocFaults(d), NEW k \in DocFaults(d), f.at = k.at
      PROVE  f = k
  <2>1. CASE f.at[3] = 1
    BY <1>1, <1>2, <2>1
  <2>2. CASE f.at[3] = 0
    BY <1>1, <1>2, <2>2
  <2> QED  BY <1>1, <2>1, <2>2
<1> QED  BY <1>1, <1>2 DEF Placed

NoFaultBefore(d, i, j) == \A f \in DocFaults(d) : ~ Earlier(f.at, <<i, j, 0>>)

LEMMA NoFaultFirst ==
    ASSUME NEW d, DocOK(d)
    PROVE  NoFaultBefore(d, 1, 0)
<1> SUFFICES ASSUME NEW f \in DocFaults(d), Earlier(f.at, <<1, 0, 0>>) PROVE FALSE
  BY DEF NoFaultBefore
<1>1. PICK i \in 1..Len(d) : \E j \in 0..StepsOf(d[i]) : FaultAt(d, i, j, f)
  BY FaultsAre
<1>2. PICK j \in 0..StepsOf(d[i]) : FaultAt(d, i, j, f)
  BY <1>1
<1>3. f.at[1] = i /\ f.at[2] = j /\ f.at[3] \in {0, 1} /\ i \in Nat /\ j \in Nat /\ i >= 1
  BY <1>2, FaultFacts, ItemFacts
<1> QED  BY <1>3 DEF Earlier

LEMMA NoFaultLast ==
    ASSUME NEW d, DocOK(d), NoFaultBefore(d, Len(d) + 1, 0)
    PROVE  DocFaults(d) = {}
<1> SUFFICES ASSUME NEW f \in DocFaults(d) PROVE FALSE
  OBVIOUS
<1>1. PICK i \in 1..Len(d) : \E j \in 0..StepsOf(d[i]) : FaultAt(d, i, j, f)
  BY FaultsAre
<1>2. PICK j \in 0..StepsOf(d[i]) : FaultAt(d, i, j, f)
  BY <1>1
<1>3. f.at[1] = i /\ i \in Nat /\ i < Len(d) + 1
  BY <1>2, FaultFacts, ItemFacts DEF DocOK
<1> QED  BY <1>3 DEF Earlier, NoFaultBefore

LEMMA NoFaultNext ==
    ASSUME NEW d, DocOK(d), NEW i \in 1..Len(d), NEW j \in 0..StepsOf(d[i]),
           NoFaultBefore(d, i, j),
           ~ RetypesAt(d, i, j), ~ LoopsAt(d, i, j), ~ NamesTypeAt(d, i, j)
    PROVE  NoFaultBefore(d, i, j + 1)
<1> SUFFICES ASSUME NEW f \in DocFaults(d), Earlier(f.at, <<i, j + 1, 0>>) PROVE FALSE
  BY DEF NoFaultBefore
<1>1. PICK k \in 1..Len(d) : \E l \in 0..StepsOf(d[k]) : FaultAt(d, k, l, f)
  BY FaultsAre
<1>2. PICK l \in 0..StepsOf(d[k]) : FaultAt(d, k, l, f)
  BY <1>1
<1>3. /\ f.at[1] = k /\ f.at[2] = l /\ f.at[3] \in {0, 1}
      /\ i \in Nat /\ j \in Nat /\ k \in Nat /\ l \in Nat
  BY <1>2, FaultFacts, ItemFacts
<1>4. k = i /\ l = j
  <2>1. ~ Earlier(f.at, <<i, j, 0>>)
    BY DEF NoFaultBefore
  <2> QED  BY <1>3, <2>1 DEF Earlier
<1> QED  BY <1>2, <1>4 DEF FaultAt

LEMMA NoFaultNextItem ==
    ASSUME NEW d, DocOK(d), NEW i \in 1..Len(d), NoFaultBefore(d, i, StepsOf(d[i]) + 1)
    PROVE  NoFaultBefore(d, i + 1, 0)
<1> SUFFICES ASSUME NEW f \in DocFaults(d), Earlier(f.at, <<i + 1, 0, 0>>) PROVE FALSE
  BY DEF NoFaultBefore
<1>1. PICK k \in 1..Len(d) : \E l \in 0..StepsOf(d[k]) : FaultAt(d, k, l, f)
  BY FaultsAre
<1>2. PICK l \in 0..StepsOf(d[k]) : FaultAt(d, k, l, f)
  BY <1>1
<1>3. /\ f.at[1] = k /\ f.at[2] = l /\ f.at[3] \in {0, 1}
      /\ i \in Nat /\ k \in Nat /\ l \in Nat /\ l <= StepsOf(d[k])
      /\ StepsOf(d[k]) \in Nat /\ StepsOf(d[i]) \in Nat
  <2>1. f.at[1] = k /\ f.at[2] = l /\ f.at[3] \in {0, 1}
    BY <1>2, FaultFacts
  <2>2. i \in Nat /\ k \in Nat /\ StepsOf(d[k]) \in Nat /\ StepsOf(d[i]) \in Nat
    BY ItemFacts
  <2>3. l \in Nat /\ l <= StepsOf(d[k])
    BY <1>2, <2>2
  <2> QED  BY <2>1, <2>2, <2>3
<1>4. ~ Earlier(f.at, <<i, StepsOf(d[i]) + 1, 0>>)
  BY DEF NoFaultBefore
<1>5. k < i + 1
  BY <1>3 DEF Earlier
<1>6. k < i => FALSE
  BY <1>3, <1>4 DEF Earlier
<1>7. k = i => FALSE
  BY <1>3, <1>4 DEF Earlier
<1> QED  BY <1>3, <1>5, <1>6, <1>7

(* The fault at which buildFromAst gives up is the first one.                *)
LEMMA FirstFaultIs ==
    ASSUME NEW d, DocOK(d), NEW i \in 1..Len(d), NEW j \in 0..StepsOf(d[i]),
           NoFaultBefore(d, i, j), NEW f, FaultAt(d, i, j, f),
           f.at[3] = 0 \/ (~ RetypesAt(d, i, j) /\ ~ LoopsAt(d, i, j))
    PROVE  DocFaults(d) # {} /\ Least(DocFaults(d)) = f
<1>1. f \in DocFaults(d)
  BY FaultsAre
<1>2. f.at \in TextPlace /\ f.at[1] = i /\ f.at[2] = j /\ i \in Nat /\ j \in Nat
      /\ f.at[3] \in {0, 1}
  BY FaultFacts, ItemFacts
<1>3. ASSUME NEW k \in DocFaults(d), Earlier(k.at, f.at)
      PROVE  FALSE
  <2>1. PICK a \in 1..Len(d) : \E b \in 0..StepsOf(d[a]) : FaultAt(d, a, b, k)
    BY FaultsAre
  <2>2. PICK b \in 0..StepsOf(d[a]) : FaultAt(d, a, b, k)
    BY <2>1
  <2>3. k.at[1] = a /\ k.at[2] = b /\ k.at[3] \in {0, 1} /\ a \in Nat /\ b \in Nat
    BY <2>2, FaultFacts, ItemFacts
  <2>4. ~ Earlier(k.at, <<i, j, 0>>)
    BY DEF NoFaultBefore
  <2>5. a = i /\ b = j /\ k.at[3] = 0 /\ f.at[3] = 1
    BY <1>2, <1>3, <2>3, <2>4 DEF Earlier
  <2>6. FaultAt(d, i, j, k) /\ ~ RetypesAt(d, i, j) /\ ~ LoopsAt(d, i, j)
    BY <2>2, <2>5
  <2>7. k.at = <<i, j, 1>>
    BY <2>6 DEF FaultAt
  <2> QED  BY <2>5, <2>7
<1> QED  BY <1>1, <1>3, FaultsPlaced, LeastIs

(* upsertNodeFromAst finds a conflict of types by the type of the node so far. *)
LEMMA RetypesWhen ==
    ASSUME NEW d, DocOK(d), NEW i \in 1..Len(d), NEW j \in 0..StepsOf(d[i]),
           NEW h, NodesMeant(h, Before(Mentions(d), i, j)),
           NEW m, m = MentionAt(d, i, j)
    PROVE  RetypesAt(d, i, j) <=> RetypesNode(h, m.id, m.type)
<1>0. i \in Nat /\ j \in Nat
  BY ItemFacts
<1>1. PICK M, P : M = Mentions(d) /\ P = Before(Mentions(d), i, j)
  OBVIOUS
<1>2. /\ Marked(M) /\ Marked(P) /\ P \subseteq M /\ m \in M /\ m \notin P
      /\ m.at = <<i, j, 0>> /\ m.id \in Id
      /\ \A n \in P : Earlier(n.at, m.at)
      /\ \A n \in M \ P : ~ Earlier(n.at, m.at)
  <2>1. m \in M /\ m.at = <<i, j, 0>> /\ MentionOK(m)
    BY <1>1, MentionsAre, MentionFacts
  <2>2. ~ Earlier(m.at, m.at)
    BY <2>1, EarlierOrder DEF MentionOK
  <2> QED  BY <1>0, <1>1, <2>1, <2>2, DocMarked, BeforeMarked DEF Before, MentionOK
<1>3. PICK F, G : F = Typed(OfNode(M, m.id)) /\ G = Typed(OfNode(P, m.id))
  OBVIOUS
<1>4. /\ F \subseteq M /\ G \subseteq P /\ G \subseteq F
      /\ \A n \in F \ G : n \in M \ P
      /\ m.type # Untyped => m \in F /\ m \notin G
      /\ Placed(F) /\ Placed(G)
  <2>1. F \subseteq M /\ G \subseteq P /\ G \subseteq F /\ \A n \in F \ G : n \in M \ P
    BY <1>2, <1>3 DEF Typed, OfNode
  <2> QED  BY <1>2, <1>3, <2>1, PlacedSubset DEF Typed, OfNode, Marked
<1>5. RetypesAt(d, i, j) <=> m.type # Untyped /\ Least(F).type # m.type
  BY <1>1, <1>2, <1>3 DEF RetypesAt, Retypes
<1>6. h.typ[m.id] = IF G = {} THEN Untyped ELSE Least(G).type
  <2>1. h.typ[m.id] = TypeOf(OfNode(P, m.id))
    BY <1>1, <1>2 DEF NodesMeant
  <2> QED  BY <1>3, <2>1 DEF TypeOf
<1>7. CASE m.type = Untyped
  BY <1>5, <1>7 DEF RetypesNode
<1>8. CASE m.type # Untyped /\ G = {}
  <2>1. \A n \in F : ~ Earlier(n.at, m.at)
    BY <1>2, <1>4, <1>8
  <2>2. Least(F) = m
    BY <1>4, <1>8, <2>1, LeastIs
  <2> QED  BY <1>5, <1>6, <1>8, <2>2 DEF RetypesNode
<1>9. CASE m.type # Untyped /\ G # {}
  <2>1. \A n \in G, k \in F \ G : Earlier(n.at, k.at)
    <3> SUFFICES ASSUME NEW n \in G, NEW k \in F \ G PROVE Earlier(n.at, k.at)
      OBVIOUS
    <3>1. Earlier(n.at, m.at) /\ ~ Earlier(k.at, m.at)
      BY <1>2, <1>4
    <3>2. n.at \in TextPlace /\ k.at \in TextPlace /\ m.at \in TextPlace
      BY <1>2, <1>4 DEF Marked, Placed
    <3> QED  BY <3>1, <3>2, EarlierOrder
  <2>2. Least(F) = Least(G)
    BY <1>4, <1>9, <2>1, LeastStays
  <2>3. Least(G) \in G
    BY <1>4, <1>9, LeastFacts
  <2>4. Least(G).type # Untyped /\ Least(G).id = m.id
    BY <1>3, <2>3 DEF Typed, OfNode
  <2>5. HasNode(h, m.id)
    <3>1. Least(G) \in P
      BY <1>4, <2>3
    <3>2. ToSet(h.nodes) = {n.id : n \in P}
      BY <1>1 DEF NodesMeant, NodesInOrder, InOrder
    <3> QED  BY <2>4, <3>1, <3>2 DEF HasNode
  <2> QED  BY <1>5, <1>6, <1>9, <2>2, <2>4, <2>5 DEF RetypesNode
<1> QED  BY <1>7, <1>8, <1>9

-----------------------------------------------------------------------------
(* Graphs.                                                                   *)

(* Nodes and edges are listed once, the two ends of an edge are in the graph  *)
(* or deleted, no attribute is called 'type' or listed twice, and of what is  *)
(* not in the graph nothing is kept.                                         *)
NodesOK(h) ==
    /\ IsInjective(h.nodes)
    /\ \A x \in Id : Plain(h.attrs[x])
    /\ \A x \in Id : HasNode(h, x) \/ /\ h.typ[x] = Untyped /\ h.attrs[x] = << >>
                                      /\ h.declPos[x] = NoPos /\ h.typeFromPos[x] = NoPos
MayEnd(h, p) == HasNode(h, p) \/ p \in Gone
EdgesOK(h) ==
    /\ IsInjective(h.edges)
    /\ \A k \in ToSet(h.edges) : MayEnd(h, k[1]) /\ MayEnd(h, k[2]) /\ k[1] # k[2]
    /\ \A k \in EdgeKey : Plain(h.edgeAttrs[k])
    /\ \A k \in EdgeKey : HasEdge(h, k) \/ (h.edgePos[k] = NoPos /\ h.edgeAttrs[k] = << >>)
GraphOK(h) == h \in Graph /\ NodesOK(h) /\ EdgesOK(h)

LEMMA ExceptTyped ==
    ASSUME NEW D, NEW R, NEW f \in [D -> R], NEW x \in D, NEW y \in R
    PROVE  [f EXCEPT ![x] = y] \in [D -> R]
OBVIOUS

LEMMA NoPairsPlain == Plain(<< >>)
BY DEF Plain, DistinctKeys, NamesType

LEMMA EmptyGraphOK ==
    /\ GraphOK(EmptyGraph)
    /\ NodesMeant(EmptyGraph, {}) /\ EdgesMeant(EmptyGraph, {})
<1> DEFINE h == EmptyGraph
<1>1. /\ h.nodes = << >> /\ h.edges = << >>
      /\ h.typ = [x \in Id |-> Untyped] /\ h.attrs = [x \in Id |-> << >>]
      /\ h.declPos = [x \in Id |-> NoPos] /\ h.typeFromPos = [x \in Id |-> NoPos]
      /\ h.edgePos = [k \in EdgeKey |-> NoPos] /\ h.edgeAttrs = [k \in EdgeKey |-> << >>]
  BY DEF EmptyGraph
<1>2. h \in Graph
  BY BuildAssumption DEF EmptyGraph, Graph, Position
<1> HIDE DEF h
<1>3. ToSet(h.nodes) = {} /\ ToSet(h.edges) = {} /\ IsInjective(h.nodes) /\ IsInjective(h.edges)
  BY <1>1 DEF ToSet, IsInjective
<1>4. NodesOK(h) /\ EdgesOK(h)
  BY <1>1, <1>3, NoPairsPlain DEF NodesOK, EdgesOK
<1>5. InOrder(h.nodes, {}, [x \in {} |-> x]) /\ InOrder(h.edges, {}, [x \in {} |-> x])
  BY <1>1, <1>3 DEF InOrder
<1>6. NodesInOrder(h.nodes, {}) /\ EdgesInOrder(h.edges, {})
  BY <1>1, <1>3 DEF NodesInOrder, EdgesInOrder, InOrder
<1>7. NodesMeant(h, {})
  <2>1. \A x \in Id : OfNode({}, x) = {}
    BY DEF OfNode
  <2>2. TypeOf({}) = Untyped /\ TypePos({}) = NoPos /\ DeclPos({}) = NoPos
    BY DEF TypeOf, TypePos, DeclPos, Typed, Declared
  <2>3. ASSUME NEW x \in Id
        PROVE  /\ h.typ[x] = Untyped /\ h.typeFromPos[x] = NoPos /\ h.declPos[x] = NoPos
               /\ h.attrs[x] = << >>
    BY <1>1
  <2>4. AttrsMerged(<< >>, Assignments({}))
    BY NothingMerged
  <2>5. NodesInOrder(h.nodes, {})
    BY <1>6
  <2> QED  BY <2>1, <2>2, <2>3, <2>4, <2>5 DEF NodesMeant
<1>8. EdgesMeant(h, {})
  BY <1>3, <1>6 DEF EdgesMeant
<1> QED  BY <1>2, <1>4, <1>7, <1>8 DEF GraphOK, h

(* What NodesMeant and EdgesMeant look at.                                   *)
LEMMA NodesMeantSame ==
    ASSUME NEW h, NEW h2, SameNodes(h, h2), NEW M, NodesMeant(h, M)
    PROVE  NodesMeant(h2, M)
BY Zenon DEF NodesMeant, SameNodes

LEMMA EdgesMeantSame ==
    ASSUME NEW h, NEW h2, SameEdges(h, h2), NEW S, EdgesMeant(h, S)
    PROVE  EdgesMeant(h2, S)
BY Zenon DEF EdgesMeant, SameEdges

(* upsertNodeFromAst, with the attributes that updateAttrs leaves.            *)
PutNode(h, x, pos, t, P) == [Upsert(h, x, pos, t) EXCEPT !.attrs[x] = P]

LEMMA UpsertFacts ==
    ASSUME NEW h, GraphOK(h), NEW x \in Id, NEW pos \in Position, NEW t \in Type,
           NEW P, Plain(P), NEW h2, h2 = PutNode(h, x, pos, t, P)
    PROVE  /\ GraphOK(h2) /\ Upserted(h, h2, x, pos, t, P) /\ SameEdges(h, h2)
           /\ ToSet(h2.nodes) = ToSet(h.nodes) \cup {x}
<1>1. /\ h \in Graph /\ h.nodes \in Seq(Id) /\ h.typ \in [Id -> Type]
      /\ h.declPos \in [Id -> Position] /\ h.typeFromPos \in [Id -> Position]
      /\ h.attrs \in [Id -> Seq(Pair)] /\ h.edges \in Seq(EdgeKey)
      /\ h.edgePos \in [EdgeKey -> Position] /\ h.edgeAttrs \in [EdgeKey -> Seq(Pair)]
  BY DEF GraphOK, Graph
<1>2. /\ h2.nodes = IF HasNode(h, x) THEN h.nodes ELSE Append(h.nodes, x)
      /\ h2.typ = [h.typ EXCEPT ![x] = IF t = Untyped THEN @ ELSE t]
      /\ h2.declPos = [h.declPos EXCEPT ![x] = IF @ = NoPos THEN pos ELSE @]
      /\ h2.typeFromPos = [h.typeFromPos EXCEPT
                              ![x] = IF @ = NoPos /\ t # Untyped THEN pos ELSE @]
      /\ h2.attrs = [h.attrs EXCEPT ![x] = P]
      /\ h2.edges = h.edges /\ h2.edgePos = h.edgePos /\ h2.edgeAttrs = h.edgeAttrs
  BY <1>1 DEF PutNode, Upsert, Graph
<1>3. P \in Seq(Pair)
  BY DEF Plain
<1>4. /\ h2.nodes \in Seq(Id) /\ ToSet(h2.nodes) = ToSet(h.nodes) \cup {x}
      /\ IsInjective(h2.nodes)
  <2>1. CASE HasNode(h, x)
    BY <1>1, <1>2, <2>1 DEF HasNode, GraphOK, NodesOK
  <2>2. CASE ~ HasNode(h, x)
    <3>1. h2.nodes = Append(h.nodes, x) /\ x \notin ToSet(h.nodes) /\ IsInjective(h.nodes)
      BY <1>2, <2>2 DEF HasNode, GraphOK, NodesOK
    <3>2. PICK l \in Seq(Id) : l = h.nodes
      BY <1>1
    <3>3. /\ Append(l, x) \in Seq(Id) /\ ToSet(Append(l, x)) = ToSet(l) \cup {x}
          /\ IsInjective(l) /\ x \notin ToSet(l) => IsInjective(Append(l, x))
      BY <3>2, AppendFacts
    <3> QED  BY <3>1, <3>2, <3>3
  <2> QED  BY <2>1, <2>2
<1>5. h2 \in Graph
  <2>1. h2 = [nodes |-> h2.nodes, typ |-> h2.typ, declPos |-> h2.declPos,
              typeFromPos |-> h2.typeFromPos, attrs |-> h2.attrs,
              edges |-> h2.edges, edgePos |-> h2.edgePos, edgeAttrs |-> h2.edgeAttrs]
    BY <1>1 DEF PutNode, Upsert, Graph
  <2>2. /\ h2.nodes \in Seq(Id) /\ h2.typ \in [Id -> Type]
        /\ h2.declPos \in [Id -> Position] /\ h2.typeFromPos \in [Id -> Position]
        /\ h2.attrs \in [Id -> Seq(Pair)] /\ h2.edges \in Seq(EdgeKey)
        /\ h2.edgePos \in [EdgeKey -> Position] /\ h2.edgeAttrs \in [EdgeKey -> Seq(Pair)]
    <3>1. h2.nodes \in Seq(Id) /\ h2.edges \in Seq(EdgeKey)
      BY <1>1, <1>2, <1>4
    <3>2. h2.typ \in [Id -> Type]
      <4>1. PICK y \in Type : y = IF t = Untyped THEN h.typ[x] ELSE t
        BY <1>1
      <4>2. h2.typ = [h.typ EXCEPT ![x] = y]
        BY <1>2, <4>1
      <4>3. PICK f \in [Id -> Type] : f = h.typ
        BY <1>1
      <4>4. [f EXCEPT ![x] = y] \in [Id -> Type]
        BY <4>1, <4>3, ExceptTyped
      <4> QED  BY <4>2, <4>3, <4>4
    <3>3. h2.declPos \in [Id -> Position]
      <4>1. PICK y \in Position : y = IF h.declPos[x] = NoPos THEN pos ELSE h.declPos[x]
        BY <1>1
      <4>2. h2.declPos = [h.declPos EXCEPT ![x] = y]
        BY <1>2, <4>1
      <4>3. PICK f \in [Id -> Position] : f = h.declPos
        BY <1>1
      <4>4. [f EXCEPT ![x] = y] \in [Id -> Position]
        BY <4>1, <4>3, ExceptTyped
      <4> QED  BY <4>2, <4>3, <4>4
    <3>4. h2.typeFromPos \in [Id -> Position]
      <4>1. PICK y \in Position : y = IF h.typeFromPos[x] = NoPos /\ t # Untyped THEN pos ELSE h.typeFromPos[x]
        BY <1>1
      <4>2. h2.typeFromPos = [h.typeFromPos EXCEPT ![x] = y]
        BY <1>2, <4>1
      <4>3. PICK f \in [Id -> Position] : f = h.typeFromPos
        BY <1>1
      <4>4. [f EXCEPT ![x] = y] \in [Id -> Position]
        BY <4>1, <4>3, ExceptTyped
      <4> QED  BY <4>2, <4>3, <4>4
    <3>5. h2.attrs \in [Id -> Seq(Pair)]
      <4>1. PICK y \in Seq(Pair) : y = P
        BY <1>3
      <4>2. h2.attrs = [h.attrs EXCEPT ![x] = y]
        BY <1>2, <4>1
      <4>3. PICK f \in [Id -> Seq(Pair)] : f = h.attrs
        BY <1>1
      <4>4. [f EXCEPT ![x] = y] \in [Id -> Seq(Pair)]
        BY <4>1, <4>3, ExceptTyped
      <4> QED  BY <4>2, <4>3, <4>4
    <3>6. h2.edgePos \in [EdgeKey -> Position] /\ h2.edgeAttrs \in [EdgeKey -> Seq(Pair)]
      BY <1>1, <1>2
    <3> QED  BY <3>1, <3>2, <3>3, <3>4, <3>5, <3>6
  <2> QED  BY <2>1, <2>2 DEF Graph
<1>6. NodesOK(h2)
  <2>1. \A y \in Id : Plain(h2.attrs[y])
    BY <1>1, <1>2 DEF GraphOK, NodesOK
  <2>2. ASSUME NEW y \in Id, ~ HasNode(h2, y)
        PROVE  /\ h2.typ[y] = Untyped /\ h2.attrs[y] = << >>
               /\ h2.declPos[y] = NoPos /\ h2.typeFromPos[y] = NoPos
    <3>1. y # x /\ ~ HasNode(h, y)
      BY <1>4, <2>2 DEF HasNode
    <3>2. /\ h2.typ[y] = h.typ[y] /\ h2.attrs[y] = h.attrs[y]
          /\ h2.declPos[y] = h.declPos[y] /\ h2.typeFromPos[y] = h.typeFromPos[y]
      BY <1>1, <1>2, <3>1
    <3> QED  BY <3>1, <3>2 DEF GraphOK, NodesOK
  <2> QED  BY <1>4, <2>1, <2>2 DEF NodesOK
<1>7. EdgesOK(h2)
  <2>1. \A y : HasNode(h, y) => HasNode(h2, y)
    BY <1>4 DEF HasNode
  <2>2. \A k : HasEdge(h2, k) <=> HasEdge(h, k)
    BY <1>2 DEF HasEdge
  <2>3. \A p : MayEnd(h, p) => MayEnd(h2, p)
    BY <2>1 DEF MayEnd
  <2> QED  BY <1>2, <2>2, <2>3 DEF GraphOK, EdgesOK
<1> QED  BY <1>2, <1>4, <1>5, <1>6, <1>7 DEF GraphOK, Upserted, SameEdges

(* AddEdge, with the attributes that updateAttrs leaves.                     *)
PutEdge(h, k, pos, P) == [Link(h, k, pos) EXCEPT !.edgeAttrs[k] = P]

LEMMA LinkFacts ==
    ASSUME NEW h, GraphOK(h), NEW k \in EdgeKey, NEW pos \in Position, NEW P, Plain(P),
           MayEnd(h, k[1]), MayEnd(h, k[2]), k[1] # k[2],
           NEW h2, h2 = PutEdge(h, k, pos, P)
    PROVE  /\ GraphOK(h2) /\ EdgeAdded(h, h2, k, pos, P) /\ SameNodes(h, h2)
           /\ ToSet(h2.edges) = ToSet(h.edges) \cup {k}
<1>1. /\ h \in Graph /\ h.nodes \in Seq(Id) /\ h.typ \in [Id -> Type]
      /\ h.declPos \in [Id -> Position] /\ h.typeFromPos \in [Id -> Position]
      /\ h.attrs \in [Id -> Seq(Pair)] /\ h.edges \in Seq(EdgeKey)
      /\ h.edgePos \in [EdgeKey -> Position] /\ h.edgeAttrs \in [EdgeKey -> Seq(Pair)]
  BY DEF GraphOK, Graph
<1>2. /\ h2.edges = IF HasEdge(h, k) THEN h.edges ELSE Append(h.edges, k)
      /\ h2.edgePos = IF HasEdge(h, k) THEN h.edgePos ELSE [h.edgePos EXCEPT ![k] = pos]
      /\ h2.edgeAttrs = [h.edgeAttrs EXCEPT ![k] = P]
      /\ h2.nodes = h.nodes /\ h2.typ = h.typ /\ h2.attrs = h.attrs
      /\ h2.declPos = h.declPos /\ h2.typeFromPos = h.typeFromPos
  BY <1>1 DEF PutEdge, Link, Graph
<1>3. P \in Seq(Pair)
  BY DEF Plain
<1>4. /\ h2.edges \in Seq(EdgeKey) /\ ToSet(h2.edges) = ToSet(h.edges) \cup {k}
      /\ IsInjective(h2.edges)
  <2>1. CASE HasEdge(h, k)
    BY <1>1, <1>2, <2>1 DEF HasEdge, GraphOK, EdgesOK
  <2>2. CASE ~ HasEdge(h, k)
    <3>1. h2.edges = Append(h.edges, k) /\ k \notin ToSet(h.edges) /\ IsInjective(h.edges)
      BY <1>2, <2>2 DEF HasEdge, GraphOK, EdgesOK
    <3>2. PICK t \in Seq(EdgeKey) : t = h.edges
      BY <1>1
    <3>3. /\ Append(t, k) \in Seq(EdgeKey) /\ ToSet(Append(t, k)) = ToSet(t) \cup {k}
          /\ IsInjective(t) /\ k \notin ToSet(t) => IsInjective(Append(t, k))
      BY <3>2, AppendFacts
    <3> QED  BY <3>1, <3>2, <3>3
  <2> QED  BY <2>1, <2>2
<1>5. h2 \in Graph
  <2>1. h2 = [nodes |-> h2.nodes, typ |-> h2.typ, declPos |-> h2.declPos,
              typeFromPos |-> h2.typeFromPos, attrs |-> h2.attrs,
              edges |-> h2.edges, edgePos |-> h2.edgePos, edgeAttrs |-> h2.edgeAttrs]
    BY <1>1 DEF PutEdge, Link, Graph
  <2>2. /\ h2.nodes \in Seq(Id) /\ h2.typ \in [Id -> Type]
        /\ h2.declPos \in [Id -> Position] /\ h2.typeFromPos \in [Id -> Position]
        /\ h2.attrs \in [Id -> Seq(Pair)] /\ h2.edges \in Seq(EdgeKey)
        /\ h2.edgePos \in [EdgeKey -> Position] /\ h2.edgeAttrs \in [EdgeKey -> Seq(Pair)]
    <3>1. h2.nodes \in Seq(Id) /\ h2.edges \in Seq(EdgeKey)
      BY <1>1, <1>2, <1>4
    <3>2. h2.typ \in [Id -> Type] /\ h2.declPos \in [Id -> Position]
      BY <1>1, <1>2
    <3>3. h2.typeFromPos \in [Id -> Position] /\ h2.attrs \in [Id -> Seq(Pair)]
      BY <1>1, <1>2
    <3>4. h2.edgePos \in [EdgeKey -> Position]
      <4>1. CASE HasEdge(h, k)
        BY <1>1, <1>2, <4>1
      <4>2. CASE ~ HasEdge(h, k)
        <5>1. h2.edgePos = [h.edgePos EXCEPT ![k] = pos]
          BY <1>2, <4>2
        <5>2. PICK f \in [EdgeKey -> Position] : f = h.edgePos
          BY <1>1
        <5>3. [f EXCEPT ![k] = pos] \in [EdgeKey -> Position]
          BY <5>2, ExceptTyped
        <5> QED  BY <5>1, <5>2, <5>3
      <4> QED  BY <4>1, <4>2
    <3>5. h2.edgeAttrs \in [EdgeKey -> Seq(Pair)]
      <4>1. PICK y \in Seq(Pair) : y = P
        BY <1>3
      <4>2. h2.edgeAttrs = [h.edgeAttrs EXCEPT ![k] = y]
        BY <1>2, <4>1
      <4>3. PICK f \in [EdgeKey -> Seq(Pair)] : f = h.edgeAttrs
        BY <1>1
      <4>4. [f EXCEPT ![k] = y] \in [EdgeKey -> Seq(Pair)]
        BY <4>1, <4>3, ExceptTyped
      <4> QED  BY <4>2, <4>3, <4>4
    <3> QED  BY <3>1, <3>2, <3>3, <3>4, <3>5
  <2> QED  BY <2>1, <2>2 DEF Graph
<1>6. EdgesOK(h2)
  <2>1. \A l \in EdgeKey : Plain(h2.edgeAttrs[l])
    BY <1>1, <1>2 DEF GraphOK, EdgesOK
  <2>2. ASSUME NEW l \in EdgeKey, ~ HasEdge(h2, l)
        PROVE  h2.edgePos[l] = NoPos /\ h2.edgeAttrs[l] = << >>
    <3>1. l # k /\ ~ HasEdge(h, l)
      BY <1>4, <2>2 DEF HasEdge
    <3>2. h2.edgePos[l] = h.edgePos[l] /\ h2.edgeAttrs[l] = h.edgeAttrs[l]
      BY <1>1, <1>2, <3>1
    <3> QED  BY <3>1, <3>2 DEF GraphOK, EdgesOK
  <2>3. \A l \in ToSet(h2.edges) : MayEnd(h2, l[1]) /\ MayEnd(h2, l[2]) /\ l[1] # l[2]
    BY <1>2, <1>4 DEF GraphOK, EdgesOK, HasNode, MayEnd
  <2> QED  BY <1>4, <2>1, <2>2, <2>3 DEF EdgesOK
<1>7. NodesOK(h2)
  BY <1>2 DEF GraphOK, NodesOK, HasNode
<1> QED  BY <1>2, <1>4, <1>5, <1>6, <1>7 DEF GraphOK, EdgeAdded, SameNodes

(* DeleteEdge, for some edges.                                               *)
LEMMA WithoutFacts ==
    ASSUME NEW h, GraphOK(h), NEW gone, NEW h2, h2 = Without(h, gone)
    PROVE  /\ GraphOK(h2) /\ ToSet(h2.edges) = ToSet(h.edges) \ gone
           /\ SameNodes(h, h2)
           /\ \A k \in EdgeKey : h2.edgePos[k] = IF k \in gone THEN NoPos ELSE h.edgePos[k]
<1> DEFINE I == {j \in 1..Len(h.edges) : h.edges[j] \notin gone}
<1>1. /\ h \in Graph /\ h.nodes \in Seq(Id) /\ h.typ \in [Id -> Type]
      /\ h.declPos \in [Id -> Position] /\ h.typeFromPos \in [Id -> Position]
      /\ h.attrs \in [Id -> Seq(Pair)] /\ h.edges \in Seq(EdgeKey)
      /\ h.edgePos \in [EdgeKey -> Position] /\ h.edgeAttrs \in [EdgeKey -> Seq(Pair)]
  BY DEF GraphOK, Graph
<1>2. /\ h2.edges = KeepAt(h.edges, I)
      /\ h2.edgePos = [k \in EdgeKey |-> IF k \in gone THEN NoPos ELSE h.edgePos[k]]
      /\ h2.edgeAttrs = [k \in EdgeKey |-> IF k \in gone THEN << >> ELSE h.edgeAttrs[k]]
      /\ h2.nodes = h.nodes /\ h2.typ = h.typ /\ h2.attrs = h.attrs
      /\ h2.declPos = h.declPos /\ h2.typeFromPos = h.typeFromPos
  BY <1>1 DEF Without, Graph
<1>3. I \in SUBSET (1..Len(h.edges)) /\ \A j \in 1..Len(h.edges) : j \in I <=> h.edges[j] \notin gone
  OBVIOUS
<1> HIDE DEF I
<1>b. PICK s \in Seq(EdgeKey) : s = h.edges
  BY <1>1
<1> DEFINE t == KeepAt(s, I)
<1>4. /\ t \in Seq(EdgeKey)
      /\ \E f \in [1..Len(t) -> 1..Len(h.edges)] :
            /\ \A n \in 1..Len(t) : f[n] \in I /\ t[n] = h.edges[f[n]]
            /\ \A j \in I : \E n \in 1..Len(t) : f[n] = j
            /\ \A j, n \in 1..Len(t) : f[j] < f[n] <=> j < n
  <2>1. I \in SUBSET (1..Len(s)) /\ s \in Seq(EdgeKey)
    BY <1>3, <1>b
  <2>2. /\ t \in Seq(EdgeKey)
        /\ \E f \in [1..Len(t) -> 1..Len(s)] :
              /\ \A n \in 1..Len(t) : f[n] \in I /\ t[n] = s[f[n]]
              /\ \A j \in I : \E n \in 1..Len(t) : f[n] = j
              /\ \A j, n \in 1..Len(t) : f[j] < f[n] <=> j < n
    BY <2>1, KeepAtFacts
  <2> HIDE DEF t
  <2> QED  BY <1>b, <2>2
<1>a. h2.edges = t
  BY <1>2, <1>b
<1> HIDE DEF t
<1>5. PICK f \in [1..Len(t) -> 1..Len(h.edges)] :
          /\ \A n \in 1..Len(t) : f[n] \in I /\ t[n] = h.edges[f[n]]
          /\ \A j \in I : \E n \in 1..Len(t) : f[n] = j
          /\ \A j, n \in 1..Len(t) : f[j] < f[n] <=> j < n
  BY <1>4
<1>6. \A i, j \in 1..Len(h.edges) : h.edges[i] = h.edges[j] => i = j
  BY <1>1, InjectiveSeq DEF GraphOK, EdgesOK
<1>7. IsInjective(t)
  <2>1. ASSUME NEW i \in 1..Len(t), NEW j \in 1..Len(t), t[i] = t[j]
        PROVE  i = j
    <3>1. f[i] = f[j] /\ f[i] \in Nat
      BY <1>5, <1>6, <2>1
    <3>2. ~ (i < j) /\ ~ (j < i)
      BY <1>5, <3>1
    <3> QED  BY <3>2
  <2> QED  BY <1>4, <2>1, InjectiveSeq
<1>8. ToSet(t) = ToSet(h.edges) \ gone
  <2>1. ASSUME NEW k \in ToSet(t)
        PROVE  k \in ToSet(h.edges) \ gone
    <3>1. PICK n \in 1..Len(t) : t[n] = k
      BY <1>4, ToSetOfSeq
    <3>2. f[n] \in I /\ f[n] \in 1..Len(h.edges) /\ k = h.edges[f[n]]
      BY <1>5, <3>1
    <3> QED  BY <1>1, <1>3, <3>2, ToSetOfSeq
  <2>2. ASSUME NEW k \in ToSet(h.edges), k \notin gone
        PROVE  k \in ToSet(t)
    <3>1. PICK j \in 1..Len(h.edges) : h.edges[j] = k
      BY <1>1, ToSetOfSeq, Zenon
    <3>2. PICK n \in 1..Len(t) : f[n] = j
      BY <1>3, <1>5, <2>2, <3>1
    <3>3. t[n] = k
      BY <1>5, <3>1, <3>2
    <3> QED  BY <1>4, <3>3, ToSetOfSeq
  <2> QED  BY <2>1, <2>2
<1>9. h2 \in Graph
  <2>1. h2 = [nodes |-> h2.nodes, typ |-> h2.typ, declPos |-> h2.declPos,
              typeFromPos |-> h2.typeFromPos, attrs |-> h2.attrs,
              edges |-> h2.edges, edgePos |-> h2.edgePos, edgeAttrs |-> h2.edgeAttrs]
    BY <1>1 DEF Without, Graph
  <2>2. /\ h2.nodes \in Seq(Id) /\ h2.typ \in [Id -> Type]
        /\ h2.declPos \in [Id -> Position] /\ h2.typeFromPos \in [Id -> Position]
        /\ h2.attrs \in [Id -> Seq(Pair)] /\ h2.edges \in Seq(EdgeKey)
        /\ h2.edgePos \in [EdgeKey -> Position] /\ h2.edgeAttrs \in [EdgeKey -> Seq(Pair)]
    BY <1>1, <1>2, <1>4, <1>a DEF Position
  <2> QED  BY <2>1, <2>2 DEF Graph
<1>10. EdgesOK(h2)
  <2>1. h2.edges = t
    BY <1>a
  <2>2. \A l \in EdgeKey : Plain(h2.edgeAttrs[l])
    BY <1>2, NoPairsPlain DEF GraphOK, EdgesOK
  <2>3. ASSUME NEW l \in EdgeKey, ~ HasEdge(h2, l)
        PROVE  h2.edgePos[l] = NoPos /\ h2.edgeAttrs[l] = << >>
    <3>1. l \in gone \/ ~ HasEdge(h, l)
      BY <1>8, <2>1, <2>3 DEF HasEdge
    <3> QED  BY <1>2, <3>1 DEF GraphOK, EdgesOK
  <2>4. \A l \in ToSet(h2.edges) : MayEnd(h2, l[1]) /\ MayEnd(h2, l[2]) /\ l[1] # l[2]
    BY <1>2, <1>8, <2>1 DEF GraphOK, EdgesOK, HasNode, MayEnd
  <2> QED  BY <1>7, <2>1, <2>2, <2>3, <2>4 DEF EdgesOK
<1>11. NodesOK(h2)
  BY <1>2 DEF GraphOK, NodesOK, HasNode
<1> QED  BY <1>2, <1>a, <1>8, <1>9, <1>10, <1>11 DEF GraphOK, SameNodes

-----------------------------------------------------------------------------
(* buildFromAst: the graph is always what the part read so far means.        *)

Built(h, d, i, j) ==
    /\ GraphOK(h) /\ NoFaultBefore(d, i, j)
    /\ NodesMeant(h, Before(Mentions(d), i, j)) /\ EdgesMeant(h, Before(Steps(d), i, j))

LEMMA BuiltFirst ==
    ASSUME NEW d, DocOK(d)
    PROVE  Built(EmptyGraph, d, 1, 0)
BY EmptyGraphOK, NoFaultFirst, BeforeFirst DEF Built

(* How the set of nodes grows, and what comes after everything in a set.      *)
NodesWith(h2, h, x) == ToSet(h2.nodes) = ToSet(h.nodes) \cup {x}
AllEarlier(M, m) == \A n \in M : Earlier(n.at, m.at)

LEMMA PutNodeNodes ==
    ASSUME NEW h, GraphOK(h), NEW x \in Id, NEW pos \in Position, NEW t \in Type,
           NEW P, Plain(P), NEW h2, h2 = PutNode(h, x, pos, t, P)
    PROVE  NodesWith(h2, h, x)
BY UpsertFacts DEF NodesWith

(* A node is declared or mentioned.                                          *)
LEMMA PutNodeMeans ==
    ASSUME NEW h, GraphOK(h), NEW m, MentionOK(m),
           ~ RetypesNode(h, m.id, m.type), ~ NamesType(m.attrs),
           NEW M, Marked(M), NodesMeant(h, M), AllEarlier(M, m),
           NEW P, P = UpdateAttrs(h.attrs[m.id], m.attrs),
           NEW h2, h2 = PutNode(h, m.id, m.pos, m.type, P)
    PROVE  /\ GraphOK(h2) /\ NodesMeant(h2, M \cup {m})
           /\ NodesWith(h2, h, m.id) /\ SameEdges(h, h2)
<1>1. m.id \in Id /\ m.pos \in Position /\ m.type \in Type /\ m.attrs \in Seq(Pair)
  BY DEF MentionOK
<1>2. h \in Graph
  BY DEF GraphOK
<1>3. Plain(P)
  <2>1. Plain(h.attrs[m.id])
    BY <1>1 DEF GraphOK, NodesOK
  <2> QED  BY <1>1, <2>1, UpdateAttrsPlain
<1>4. PICK x, pos, t : x \in Id /\ pos \in Position /\ t \in Type
                       /\ x = m.id /\ pos = m.pos /\ t = m.type
  BY <1>1
<1>5. h2 = PutNode(h, x, pos, t, P)
  BY <1>4
<1>6. GraphOK(h2) /\ Upserted(h, h2, x, pos, t, P) /\ SameEdges(h, h2)
  BY <1>3, <1>4, <1>5, UpsertFacts
<1>7. NodesWith(h2, h, x)
  BY <1>3, <1>4, <1>5, PutNodeNodes
<1>8. NodesMeant(h2, M \cup {m})
  <2>1. Upserted(h, h2, m.id, m.pos, m.type, UpdateAttrs(h.attrs[m.id], m.attrs))
    BY <1>4, <1>6
  <2>2. \A n \in M : Earlier(n.at, m.at)
    BY DEF AllEarlier
  <2> QED  BY <1>2, <2>1, <2>2, NodesMeantGrows
<1> QED  BY <1>4, <1>6, <1>7, <1>8

LEMMA PutEdgeMeans ==
    ASSUME NEW h, GraphOK(h), NEW q, StepOK(q),
           MayEnd(h, q.key[1]), MayEnd(h, q.key[2]), q.key[1] # q.key[2],
           ~ NamesType(q.attrs),
           NEW M, NodesMeant(h, M),
           NEW S, MarkedSteps(S), EdgesMeant(h, S), AllEarlier(S, q),
           NEW P, P = UpdateAttrs(h.edgeAttrs[q.key], q.attrs),
           NEW h2, h2 = PutEdge(h, q.key, q.pos, P)
    PROVE  GraphOK(h2) /\ NodesMeant(h2, M) /\ EdgesMeant(h2, S \cup {q})
<1>1. q.key \in EdgeKey /\ q.pos \in Position /\ q.attrs \in Seq(Pair)
  BY DEF StepOK, Position
<1>2. h \in Graph
  BY DEF GraphOK
<1>3. Plain(P)
  <2>1. Plain(h.edgeAttrs[q.key])
    BY <1>1 DEF GraphOK, EdgesOK
  <2> QED  BY <1>1, <2>1, UpdateAttrsPlain
<1>4. PICK k, pos : k \in EdgeKey /\ pos \in Position /\ k = q.key /\ pos = q.pos
  BY <1>1
<1>5. h2 = PutEdge(h, k, pos, P)
  BY <1>4
<1>6. MayEnd(h, k[1]) /\ MayEnd(h, k[2]) /\ k[1] # k[2]
  BY <1>4
<1>7. GraphOK(h2) /\ EdgeAdded(h, h2, k, pos, P) /\ SameNodes(h, h2)
  BY <1>3, <1>4, <1>5, <1>6, LinkFacts
<1>8. NodesMeant(h2, M)
  BY <1>7, NodesMeantSame
<1>9. EdgesMeant(h2, S \cup {q})
  <2>1. EdgeAdded(h, h2, q.key, q.pos, UpdateAttrs(h.edgeAttrs[q.key], q.attrs))
    BY <1>4, <1>7
  <2>2. ~ HasEdge(h, q.key) => h.edgeAttrs[q.key] = << >>
    BY <1>1 DEF GraphOK, EdgesOK
  <2>4. \A n \in S : Earlier(n.at, q.at)
    BY DEF AllEarlier
  <2> QED  BY <1>2, <2>1, <2>2, <2>4, EdgesMeantGrows, Zenon
<1> QED  BY <1>7, <1>8, <1>9

LEMMA BuiltMention ==
    ASSUME NEW d, DocOK(d), NEW i \in 1..Len(d), NEW j \in 0..StepsOf(d[i]),
           NEW h, Built(h, d, i, j), NEW m, m = MentionAt(d, i, j),
           ~ RetypesNode(h, m.id, m.type), ~ NamesType(m.attrs),
           NEW h2, h2 = PutNode(h, m.id, m.pos, m.type, UpdateAttrs(h.attrs[m.id], m.attrs))
    PROVE  /\ GraphOK(h2) /\ NodesMeant(h2, Before(Mentions(d), i, j + 1))
           /\ NodesWith(h2, h, m.id) /\ SameEdges(h, h2)
<1>1. MentionOK(m) /\ m.at = <<i, j, 0>>
  BY MentionFacts
<1>2. GraphOK(h)
  BY DEF Built
<1>3. PICK P : P = UpdateAttrs(h.attrs[m.id], m.attrs)
  OBVIOUS
<1>4. PICK M : M = Before(Mentions(d), i, j)
  OBVIOUS
<1>5. Marked(M) /\ NodesMeant(h, M) /\ AllEarlier(M, m)
  BY <1>1, <1>4, BeforeMarked DEF Built, AllEarlier
<1>6. h2 = PutNode(h, m.id, m.pos, m.type, P)
  BY <1>3
<1>7. GraphOK(h2) /\ NodesMeant(h2, M \cup {m})
  BY <1>1, <1>2, <1>3, <1>5, <1>6, PutNodeMeans
<1>8. NodesWith(h2, h, m.id) /\ SameEdges(h, h2)
  BY <1>1, <1>2, <1>3, <1>5, <1>6, PutNodeMeans
<1>9. Before(Mentions(d), i, j + 1) = M \cup {m}
  BY <1>4, BeforeNext
<1> QED  BY <1>7, <1>8, <1>9

LEMMA DeclareBuilt ==
    ASSUME NEW d, DocOK(d), NEW i \in 1..Len(d), d[i].kind = "node",
           NEW h, Built(h, d, i, 0),
           ~ RetypesNode(h, d[i].id, d[i].type), ~ NamesType(d[i].attrs),
           NEW h2, h2 = PutNode(h, d[i].id, Offset(i, 0), d[i].type,
                                UpdateAttrs(h.attrs[d[i].id], d[i].attrs))
    PROVE  Built(h2, d, i + 1, 0)
<1>1. StepsOf(d[i]) = 0 /\ 0 \in 0..StepsOf(d[i])
  BY ItemFacts
<1>2. PICK m : m = MentionAt(d, i, 0)
  OBVIOUS
<1>3. m.id = d[i].id /\ m.type = d[i].type /\ m.pos = Offset(i, 0) /\ m.attrs = d[i].attrs
  BY <1>2 DEF MentionAt
<1>4. GraphOK(h2) /\ NodesMeant(h2, Before(Mentions(d), i, 0 + 1)) /\ SameEdges(h, h2)
  <2>1. h2 = PutNode(h, m.id, m.pos, m.type, UpdateAttrs(h.attrs[m.id], m.attrs))
    BY <1>3
  <2>2. ~ RetypesNode(h, m.id, m.type) /\ ~ NamesType(m.attrs)
    BY <1>3
  <2> QED  BY <1>1, <1>2, <2>1, <2>2, BuiltMention
<1>5. EdgesMeant(h2, Before(Steps(d), i, 0 + 1))
  <2>1. Before(Steps(d), i, 0 + 1) = Before(Steps(d), i, 0) \cup {StepAt(d, i, n) : n \in {0} \ {0}}
    BY <1>1, BeforeNext
  <2>2. Before(Steps(d), i, 0 + 1) = Before(Steps(d), i, 0)
    BY <2>1
  <2> QED  BY <1>4, <2>2, EdgesMeantSame DEF Built
<1>6. NoFaultBefore(d, i, 0 + 1)
  <2>1. ~ RetypesAt(d, i, 0)
    BY <1>1, <1>2, <1>3, RetypesWhen DEF Built
  <2>2. ~ LoopsAt(d, i, 0) /\ ~ NamesTypeAt(d, i, 0)
    BY <1>2, <1>3 DEF LoopsAt, NamesTypeAt
  <2> QED  BY <1>1, <2>1, <2>2, NoFaultNext DEF Built
<1>7. Before(Mentions(d), i + 1, 0) = Before(Mentions(d), i, 0 + 1)
      /\ Before(Steps(d), i + 1, 0) = Before(Steps(d), i, 0 + 1)
  BY <1>1, BeforeNextItem
<1>8. NoFaultBefore(d, i + 1, 0)
  BY <1>1, <1>6, NoFaultNextItem
<1> QED  BY <1>4, <1>5, <1>7, <1>8 DEF Built

(* A chain begins, or goes on to the end of its next step: upsertNodeFromAst  *)
(* with nothing but an id.                                                   *)
LEMMA MentionBuilt ==
    ASSUME NEW d, DocOK(d), NEW i \in 1..Len(d), d[i].kind = "chain",
           NEW j \in 0..StepsOf(d[i]), NEW h, Built(h, d, i, j),
           NEW x, x = MentionAt(d, i, j).id,
           NEW h2, h2 = Upsert(h, x, NoPos, Untyped)
    PROVE  /\ GraphOK(h2) /\ NodesMeant(h2, Before(Mentions(d), i, j + 1))
           /\ NodesWith(h2, h, x) /\ SameEdges(h, h2)
           /\ ~ RetypesAt(d, i, j)
<1>1. PICK m : m = MentionAt(d, i, j)
  OBVIOUS
<1>2. m.id = x /\ m.type = Untyped /\ m.pos = NoPos /\ m.attrs = << >>
  BY <1>1 DEF MentionAt
<1>3. MentionOK(m) /\ x \in Id
  BY <1>1, <1>2, MentionFacts DEF MentionOK
<1>4. ~ RetypesNode(h, m.id, m.type) /\ ~ NamesType(m.attrs)
  BY <1>2 DEF RetypesNode, NamesType
<1>5. h \in Graph
  BY DEF Built, GraphOK
<1>6. h2 = PutNode(h, m.id, m.pos, m.type, UpdateAttrs(h.attrs[m.id], m.attrs))
  <2>1. h2 = Upsert(h, m.id, m.pos, m.type)
    BY <1>2
  <2>2. h2.attrs = h.attrs /\ h.attrs \in [Id -> Seq(Pair)]
    BY <1>5, <2>1 DEF Upsert, Graph
  <2>3. UpdateAttrs(h.attrs[m.id], m.attrs) = h2.attrs[m.id]
    BY <1>2, <2>2, UpdateNoAttrs
  <2>4. [h2.attrs EXCEPT ![m.id] = h2.attrs[m.id]] = h2.attrs
    BY <2>2
  <2>5. [h2 EXCEPT !.attrs = h2.attrs] = h2
    BY <1>5, <2>1 DEF Upsert, Graph
  <2>6. [h2 EXCEPT !.attrs[m.id] = h2.attrs[m.id]] = h2
    BY <2>4, <2>5
  <2> QED  BY <2>1, <2>3, <2>6 DEF PutNode
<1>7. /\ GraphOK(h2) /\ NodesMeant(h2, Before(Mentions(d), i, j + 1))
      /\ NodesWith(h2, h, m.id) /\ SameEdges(h, h2)
  BY <1>1, <1>4, <1>6, BuiltMention
<1>8. ~ RetypesAt(d, i, j)
  BY <1>1, <1>4, RetypesWhen DEF Built
<1> QED  BY <1>2, <1>7, <1>8

LEMMA FromBuilt ==
    ASSUME NEW d, DocOK(d), NEW i \in 1..Len(d), d[i].kind = "chain",
           NEW h, Built(h, d, i, 0),
           NEW h2, h2 = Upsert(h, d[i].from, NoPos, Untyped)
    PROVE  /\ Built(h2, d, i, 1)
           /\ d[i].from = MentionAt(d, i, 0).id
<1>1. 0 \in 0..StepsOf(d[i])
  BY ItemFacts
<1>2. d[i].from = MentionAt(d, i, 0).id
  BY DEF MentionAt
<1>3. PICK x : x = MentionAt(d, i, 0).id
  OBVIOUS
<1>4. /\ GraphOK(h2) /\ NodesMeant(h2, Before(Mentions(d), i, 0 + 1))
      /\ SameEdges(h, h2) /\ ~ RetypesAt(d, i, 0)
  <2>1. h2 = Upsert(h, x, NoPos, Untyped)
    BY <1>2, <1>3
  <2> QED  BY <1>1, <1>3, <2>1, MentionBuilt
<1>5. EdgesMeant(h2, Before(Steps(d), i, 0 + 1))
  <2>1. Before(Steps(d), i, 0 + 1) = Before(Steps(d), i, 0) \cup {StepAt(d, i, n) : n \in {0} \ {0}}
    BY <1>1, BeforeNext
  <2>2. Before(Steps(d), i, 0 + 1) = Before(Steps(d), i, 0)
    BY <2>1
  <2> QED  BY <1>4, <2>2, EdgesMeantSame DEF Built
<1>6. NoFaultBefore(d, i, 0 + 1)
  <2>1. ~ LoopsAt(d, i, 0)
    BY DEF LoopsAt
  <2>2. ~ NamesTypeAt(d, i, 0)
    BY DEF NamesTypeAt, MentionAt, NamesType
  <2> QED  BY <1>1, <1>4, <2>1, <2>2, NoFaultNext DEF Built
<1> QED  BY <1>2, <1>4, <1>5, <1>6 DEF Built

(* A step: the node it leads to, then the edge.                              *)
StepAdded(h, h2, from, s, pos) ==
    LET h1 == Upsert(h, s.to, NoPos, Untyped)
        k  == <<from, s.to, s.type>>
    IN  h2 = PutEdge(h1, k, pos, UpdateAttrs(h1.edgeAttrs[k], s.attrs))

LEMMA StepBuilt ==
    ASSUME NEW d, DocOK(d), NEW i \in 1..Len(d), d[i].kind = "chain",
           NEW j \in 1..StepsOf(d[i]), NEW h, Built(h, d, i, j),
           NEW from, from = MentionAt(d, i, j - 1).id, from # d[i].steps[j].to,
           ~ NamesType(d[i].steps[j].attrs),
           NEW h2, StepAdded(h, h2, from, d[i].steps[j], Offset(i, j))
    PROVE  /\ Built(h2, d, i, j + 1)
           /\ d[i].steps[j].to = MentionAt(d, i, j).id
<1>0. i \in Nat /\ j \in Nat /\ j # 0 /\ j \in 0..StepsOf(d[i]) /\ j - 1 \in 0..StepsOf(d[i])
      /\ j - 1 \in Nat
  BY ItemFacts
<1>1. PICK s, x, k : s = d[i].steps[j] /\ x = s.to /\ k = <<from, x, s.type>>
  OBVIOUS
<1>2. x = MentionAt(d, i, j).id
  BY <1>0, <1>1 DEF MentionAt
<1>3. PICK q : q = StepAt(d, i, j)
  OBVIOUS
<1>4. /\ StepOK(q) /\ q.at = <<i, j, 0>> /\ q.pos = Offset(i, j)
      /\ q.key = k /\ q.attrs = s.attrs
  BY <1>1, <1>2, <1>3, StepFacts
<1>5. from # x /\ ~ NamesType(q.attrs) /\ q.key[1] = from /\ q.key[2] = x
  BY <1>1, <1>4
<1>6. PICK h1 : h1 = Upsert(h, x, NoPos, Untyped)
  OBVIOUS
<1>7. PICK P : P = UpdateAttrs(h1.edgeAttrs[q.key], q.attrs)
  OBVIOUS
<1>8. h2 = PutEdge(h1, q.key, q.pos, P)
  BY <1>1, <1>4, <1>6, <1>7, Zenon DEF StepAdded
<1>9. /\ GraphOK(h1) /\ NodesMeant(h1, Before(Mentions(d), i, j + 1))
      /\ SameEdges(h, h1) /\ ~ RetypesAt(d, i, j)
  BY <1>0, <1>2, <1>6, MentionBuilt
<1>10. NodesWith(h1, h, x)
  BY <1>0, <1>2, <1>6, MentionBuilt
<1>11. HasNode(h1, from) /\ HasNode(h1, x)
  <2>1. PICK n : n = MentionAt(d, i, j - 1)
    OBVIOUS
  <2>2. n.at = <<i, j - 1, 0>> /\ n \in Mentions(d)
    BY <1>0, <2>1, MentionFacts, MentionsAre
  <2>3. Earlier(n.at, <<i, j, 0>>)
    <3>1. n.at[1] = i /\ n.at[2] = j - 1
      BY <2>2
    <3> QED  BY <1>0, <3>1 DEF Earlier
  <2>4. n \in Before(Mentions(d), i, j)
    BY <2>2, <2>3 DEF Before
  <2>5. ToSet(h.nodes) = {y.id : y \in Before(Mentions(d), i, j)}
    BY DEF Built, NodesMeant, NodesInOrder, InOrder
  <2>6. from \in ToSet(h.nodes)
    BY <2>1, <2>4, <2>5
  <2> QED  BY <1>10, <2>6 DEF HasNode, NodesWith
<1>12. Before(Steps(d), i, j + 1) = Before(Steps(d), i, j) \cup {q}
  <2>1. Before(Steps(d), i, j + 1) =
            Before(Steps(d), i, j) \cup {StepAt(d, i, n) : n \in {j} \ {0}}
    BY <1>0, BeforeNext
  <2>2. {StepAt(d, i, n) : n \in {j} \ {0}} = {q}
    <3>1. {j} \ {0} = {j}
      BY <1>0
    <3> QED  BY <1>3, <3>1
  <2> QED  BY <2>1, <2>2
<1>13. PICK M, S : M = Before(Mentions(d), i, j + 1) /\ S = Before(Steps(d), i, j)
  OBVIOUS
<1>14. MarkedSteps(S) /\ AllEarlier(S, q)
  <2>1. MarkedSteps(S)
    BY <1>0, <1>13, BeforeMarked
  <2>2. \A n \in Before(Steps(d), i, j) : Earlier(n.at, <<i, j, 0>>)
    BY <1>0, BeforeMarked
  <2> QED  BY <1>4, <1>13, <2>1, <2>2 DEF AllEarlier
<1>15. NodesMeant(h1, M) /\ EdgesMeant(h1, S)
  <2>1. EdgesMeant(h, S)
    BY <1>13 DEF Built
  <2> QED  BY <1>9, <1>13, <2>1, EdgesMeantSame
<1>16. MayEnd(h1, q.key[1]) /\ MayEnd(h1, q.key[2]) /\ q.key[1] # q.key[2]
  BY <1>5, <1>11 DEF MayEnd
<1>17. GraphOK(h2) /\ NodesMeant(h2, M) /\ EdgesMeant(h2, S \cup {q})
  BY <1>4, <1>5, <1>7, <1>8, <1>9, <1>14, <1>15, <1>16, PutEdgeMeans
<1>18. NoFaultBefore(d, i, j + 1)
  <2>1. ~ LoopsAt(d, i, j)
    BY <1>3, <1>16 DEF LoopsAt
  <2>2. ~ NamesTypeAt(d, i, j)
    <3>1. MentionAt(d, i, j).attrs = << >>
      BY DEF MentionAt
    <3>2. ~ NamesType(<< >>)
      BY NoPairsPlain DEF Plain
    <3> QED  BY <1>3, <1>5, <3>1, <3>2 DEF NamesTypeAt
  <2>3. NoFaultBefore(d, i, j)
    BY DEF Built
  <2> QED  BY <1>0, <1>9, <2>1, <2>2, <2>3, NoFaultNext
<1> QED  BY <1>1, <1>2, <1>12, <1>13, <1>17, <1>18 DEF Built

LEMMA EndBuilt ==
    ASSUME NEW d, DocOK(d), NEW i \in 1..Len(d), NEW h, Built(h, d, i, StepsOf(d[i]) + 1)
    PROVE  Built(h, d, i + 1, 0)
BY BeforeNextItem, NoFaultNextItem DEF Built

-----------------------------------------------------------------------------
(* The loops of buildFromAst: where they are, and what is built by then.     *)

Reading(d, i, j, src, h) ==
    /\ i \in 1..Len(d) + 1 /\ j \in Nat
    /\ i = Len(d) + 1 => j = 0
    /\ i # Len(d) + 1 => /\ j <= StepsOf(d[i]) + 1
                         /\ d[i].kind = "node" => j = 0
                         /\ j # 0 => src = MentionAt(d, i, j - 1).id
    /\ Built(h, d, i, j)

LEMMA AtLine ==
    ASSUME NEW d, DocOK(d), NEW i \in 1..Len(d) + 1, i <= Len(d)
    PROVE  i \in 1..Len(d) /\ i # Len(d) + 1 /\ i + 1 \in 1..Len(d) + 1 /\ i \in Nat
BY DEF DocOK

LEMMA ReadFirst ==
    ASSUME NEW d, DocOK(d), NEW src
    PROVE  Reading(d, 1, 0, src, EmptyGraph)
<1>1. Len(d) \in Nat /\ Built(EmptyGraph, d, 1, 0)
  BY BuiltFirst DEF DocOK
<1>2. ASSUME 1 # Len(d) + 1
      PROVE  StepsOf(d[1]) \in Nat
  <2>1. 1 \in 1..Len(d)
    BY <1>1, <1>2
  <2> QED  BY <2>1, ItemFacts
<1> QED  BY <1>1, <1>2 DEF Reading

(* At the start of an item it does not matter what from was.                 *)
LEMMA ReadItem ==
    ASSUME NEW d, DocOK(d), NEW i \in 1..Len(d), NEW src, NEW h, Built(h, d, i + 1, 0)
    PROVE  Reading(d, i + 1, 0, src, h)
<1>1. Len(d) \in Nat /\ i + 1 \in 1..Len(d) + 1
  BY DEF DocOK
<1>2. ASSUME i + 1 # Len(d) + 1
      PROVE  StepsOf(d[i + 1]) \in Nat
  <2>1. i + 1 \in 1..Len(d)
    BY <1>1, <1>2
  <2> QED  BY <2>1, ItemFacts
<1> QED  BY <1>1, <1>2 DEF Reading

LEMMA ReadDeclare ==
    ASSUME NEW d, DocOK(d), NEW i \in 1..Len(d), d[i].kind = "node",
           NEW j, NEW src, NEW h, Reading(d, i, j, src, h),
           ~ RetypesNode(h, d[i].id, d[i].type), ~ NamesType(d[i].attrs),
           NEW h2, h2 = PutNode(h, d[i].id, Offset(i, 0), d[i].type,
                                UpdateAttrs(h.attrs[d[i].id], d[i].attrs))
    PROVE  j = 0 /\ Reading(d, i + 1, 0, src, h2)
<1>1. i # Len(d) + 1
  BY DEF DocOK
<1>2. j = 0 /\ Built(h, d, i, 0)
  BY <1>1 DEF Reading
<1>3. Built(h2, d, i + 1, 0)
  BY <1>2, DeclareBuilt
<1> QED  BY <1>2, <1>3, ReadItem

LEMMA ReadFrom ==
    ASSUME NEW d, DocOK(d), NEW i \in 1..Len(d), d[i].kind = "chain",
           NEW src, NEW h, Reading(d, i, 0, src, h),
           NEW h2, h2 = Upsert(h, d[i].from, NoPos, Untyped)
    PROVE  Reading(d, i, 1, d[i].from, h2)
<1>1. i # Len(d) + 1 /\ i \in 1..Len(d) + 1 /\ StepsOf(d[i]) \in Nat
  BY ItemFacts DEF DocOK
<1>2. Built(h, d, i, 0)
  BY DEF Reading
<1>3. Built(h2, d, i, 1) /\ d[i].from = MentionAt(d, i, 0).id
  BY <1>2, FromBuilt
<1>4. 1 - 1 = 0 /\ 1 <= StepsOf(d[i]) + 1
  BY <1>1
<1> QED  BY <1>1, <1>3, <1>4 DEF Reading

LEMMA ReadStep ==
    ASSUME NEW d, DocOK(d), NEW i \in 1..Len(d), d[i].kind = "chain",
           NEW j \in 1..StepsOf(d[i]), NEW from, NEW h, Reading(d, i, j, from, h),
           from # d[i].steps[j].to, ~ NamesType(d[i].steps[j].attrs),
           NEW h2, StepAdded(h, h2, from, d[i].steps[j], Offset(i, j))
    PROVE  Reading(d, i, j + 1, d[i].steps[j].to, h2)
<1>1. i # Len(d) + 1 /\ i \in 1..Len(d) + 1 /\ StepsOf(d[i]) \in Nat /\ j \in Nat /\ j # 0
  <2>1. Len(d) \in Nat
    BY DEF DocOK
  <2>2. StepsOf(d[i]) \in Nat
    BY ItemFacts
  <2>3. j \in Nat /\ j # 0
    BY <2>2
  <2>4. i # Len(d) + 1 /\ i \in 1..Len(d) + 1
    BY <2>1
  <2> QED  BY <2>2, <2>3, <2>4
<1>2. Built(h, d, i, j) /\ from = MentionAt(d, i, j - 1).id
  BY <1>1 DEF Reading
<1>3. Built(h2, d, i, j + 1) /\ d[i].steps[j].to = MentionAt(d, i, j).id
  BY <1>2, StepBuilt
<1>4. (j + 1) - 1 = j /\ j + 1 <= StepsOf(d[i]) + 1 /\ j + 1 \in Nat /\ j + 1 # 0
  BY <1>1, SMTT(30)
<1> QED  BY <1>1, <1>3, <1>4 DEF Reading

LEMMA ReadEnd ==
    ASSUME NEW d, DocOK(d), NEW i \in 1..Len(d), d[i].kind = "chain",
           NEW j, j > StepsOf(d[i]), NEW src, NEW h, Reading(d, i, j, src, h)
    PROVE  Reading(d, i + 1, 0, src, h)
<1>1. i # Len(d) + 1 /\ StepsOf(d[i]) \in Nat
  BY ItemFacts DEF DocOK
<1>2. j = StepsOf(d[i]) + 1
  BY <1>1 DEF Reading
<1>3. Built(h, d, i + 1, 0)
  BY <1>2, EndBuilt DEF Reading
<1> QED  BY <1>3, ReadItem

(* What buildFromAst returns.                                                *)
Meant(h, d) == NodesMeant(h, Mentions(d)) /\ EdgesMeant(h, Steps(d))
ErrOf(d) == IF DocFaults(d) = {} THEN "nil" ELSE Least(DocFaults(d)).err

LEMMA ReadAll ==
    ASSUME NEW d, DocOK(d), NEW i, i > Len(d), NEW j, NEW src, NEW h, Reading(d, i, j, src, h)
    PROVE  Meant(h, d) /\ ErrOf(d) = "nil"
<1>1. i = Len(d) + 1 /\ j = 0
  BY DEF Reading, DocOK
<1>2. Built(h, d, Len(d) + 1, 0)
  BY <1>1 DEF Reading
<1> QED  BY <1>2, BeforeLast, NoFaultLast DEF Built, Meant, ErrOf

LEMMA ReadFault ==
    ASSUME NEW d, DocOK(d), NEW i \in 1..Len(d), NEW j \in 0..StepsOf(d[i]),
           NEW src, NEW h, Reading(d, i, j, src, h),
           NEW n, NEW e, FaultAt(d, i, j, [at |-> <<i, j, n>>, err |-> e]),
           n = 0 \/ (~ RetypesAt(d, i, j) /\ ~ LoopsAt(d, i, j))
    PROVE  ErrOf(d) = e
<1>1. PICK f : f = [at |-> <<i, j, n>>, err |-> e]
  OBVIOUS
<1>2. f.at[3] = n /\ f.err = e
  BY <1>1
<1>3. FaultAt(d, i, j, f) /\ (f.at[3] = 0 \/ (~ RetypesAt(d, i, j) /\ ~ LoopsAt(d, i, j)))
  BY <1>1, <1>2
<1>4. DocFaults(d) # {} /\ Least(DocFaults(d)) = f
  BY <1>3, FirstFaultIs DEF Reading, Built
<1> QED  BY <1>2, <1>4 DEF ErrOf

LEMMA ReadRetypes ==
    ASSUME NEW d, DocOK(d), NEW i \in 1..Len(d), d[i].kind = "node",
           NEW j, NEW src, NEW h, Reading(d, i, j, src, h)
    PROVE  /\ RetypesNode(h, d[i].id, d[i].type) => ErrOf(d) = "ErrTypeChange"
           /\ ~ RetypesNode(h, d[i].id, d[i].type) /\ NamesType(d[i].attrs)
                => ErrOf(d) = "ErrTypeInAttrs"
<1>1. i # Len(d) + 1 /\ 0 \in 0..StepsOf(d[i])
  BY ItemFacts DEF DocOK
<1>2. j = 0
  BY <1>1 DEF Reading
<1>3. Reading(d, i, 0, src, h)
  BY <1>2
<1>4. MentionAt(d, i, 0).id = d[i].id /\ MentionAt(d, i, 0).type = d[i].type
      /\ MentionAt(d, i, 0).attrs = d[i].attrs
  BY DEF MentionAt
<1>5. RetypesAt(d, i, 0) <=> RetypesNode(h, d[i].id, d[i].type)
  <2>1. NodesMeant(h, Before(Mentions(d), i, 0))
    BY <1>3 DEF Reading, Built
  <2> QED  BY <1>1, <1>4, <2>1, RetypesWhen
<1>6. ~ LoopsAt(d, i, 0) /\ (NamesTypeAt(d, i, 0) <=> NamesType(d[i].attrs))
  BY <1>4 DEF LoopsAt, NamesTypeAt
<1>7. CASE RetypesNode(h, d[i].id, d[i].type)
  <2>1. FaultAt(d, i, 0, [at |-> <<i, 0, 0>>, err |-> "ErrTypeChange"])
    BY <1>5, <1>7 DEF FaultAt
  <2> QED  BY <1>1, <1>3, <1>7, <2>1, ReadFault
<1>8. CASE ~ RetypesNode(h, d[i].id, d[i].type) /\ NamesType(d[i].attrs)
  <2>1. FaultAt(d, i, 0, [at |-> <<i, 0, 1>>, err |-> "ErrTypeInAttrs"])
    BY <1>6, <1>8 DEF FaultAt
  <2> QED  BY <1>1, <1>3, <1>5, <1>6, <1>8, <2>1, ReadFault
<1> QED  BY <1>7, <1>8

LEMMA ReadLoops ==
    ASSUME NEW d, DocOK(d), NEW i \in 1..Len(d), d[i].kind = "chain",
           NEW j \in 1..StepsOf(d[i]), NEW from, NEW h, Reading(d, i, j, from, h),
           NEW s, s = d[i].steps[j]
    PROVE  /\ from = s.to => ErrOf(d) = "ErrLoop"
           /\ from # s.to /\ NamesType(s.attrs) => ErrOf(d) = "ErrTypeInAttrs"
<1>1. i # Len(d) + 1 /\ j \in Nat /\ j # 0 /\ j \in 0..StepsOf(d[i])
  BY ItemFacts DEF DocOK
<1>2. from = MentionAt(d, i, j - 1).id /\ s.to = MentionAt(d, i, j).id
  BY <1>1 DEF Reading, MentionAt
<1>3. PICK k : k = StepAt(d, i, j).key
  OBVIOUS
<1>4. k = <<from, s.to, s.type>> /\ StepAt(d, i, j).attrs = s.attrs
  BY <1>2, <1>3, StepFacts
<1>5. LoopsAt(d, i, j) <=> from = s.to
  BY <1>1, <1>3, <1>4 DEF LoopsAt
<1>6. NamesType(s.attrs) => NamesTypeAt(d, i, j)
  BY <1>1, <1>4 DEF NamesTypeAt
<1>7. ~ RetypesAt(d, i, j)
  <2>1. MentionAt(d, i, j).type = Untyped
    BY DEF MentionAt
  <2> QED  BY <2>1 DEF RetypesAt, Retypes
<1>8. CASE from = s.to
  <2>1. FaultAt(d, i, j, [at |-> <<i, j, 0>>, err |-> "ErrLoop"])
    BY <1>5, <1>8 DEF FaultAt
  <2> QED  BY <1>1, <1>8, <2>1, ReadFault
<1>9. CASE from # s.to /\ NamesType(s.attrs)
  <2>1. FaultAt(d, i, j, [at |-> <<i, j, 1>>, err |-> "ErrTypeInAttrs"])
    BY <1>6, <1>9 DEF FaultAt
  <2> QED  BY <1>1, <1>5, <1>7, <1>9, <2>1, ReadFault
<1> QED  BY <1>8, <1>9

-----------------------------------------------------------------------------
(* The inductive invariant.                                                  *)

(* The positions that a graph has are those of the text it was read from.    *)
PositionsOf(h, d) ==
    /\ \A x \in Id : h.declPos[x] # NoPos => h.declPos[x] = DeclPos(OfNode(Mentions(d), x))
    /\ \A k \in EdgeKey : h.edgePos[k] # NoPos =>
           OfEdge(Steps(d), k) # {} /\ h.edgePos[k] = Least(OfEdge(Steps(d), k)).pos

LEMMA MeantPositions ==
    ASSUME NEW h, GraphOK(h), NEW d, Meant(h, d)
    PROVE  PositionsOf(h, d)
<1>1. \A x \in Id : h.declPos[x] = DeclPos(OfNode(Mentions(d), x))
  BY DEF Meant, NodesMeant
<1>2. ASSUME NEW k \in EdgeKey, h.edgePos[k] # NoPos
      PROVE  OfEdge(Steps(d), k) # {} /\ h.edgePos[k] = Least(OfEdge(Steps(d), k)).pos
  <2>1. k \in ToSet(h.edges)
    BY <1>2 DEF GraphOK, EdgesOK, HasEdge
  <2>2. EdgesMeant(h, Steps(d))
    BY DEF Meant
  <2>3. h.edgePos[k] = Least(OfEdge(Steps(d), k)).pos
    BY <2>1, <2>2 DEF EdgesMeant
  <2>4. k \in {s.key : s \in Steps(d)}
    BY <2>1, <2>2 DEF EdgesMeant, EdgesInOrder, InOrder
  <2> QED  BY <2>3, <2>4 DEF OfEdge
<1> QED  BY <1>1, <1>2 DEF PositionsOf

Rewritten == text # NoText => /\ edits = MaxEdits /\ text = doc
                              /\ GraphOK(written) /\ text = MarshalText(written)

IInv ==
    /\ DocOK(doc) /\ GraphOK(g) /\ edits \in 0..MaxEdits /\ dead \subseteq Gone
    /\ err = "building" => Reading(doc, item, step, source, g)
    /\ err # "building" => err = ErrOf(doc)
    /\ err = "nil" => PositionsOf(g, doc)
    /\ err = "nil" /\ (edits = 0 \/ text # NoText) => Meant(g, doc)
    /\ Rewritten

Aside == UNCHANGED <<edits, text, written, keptVars>>

(* A step of the loops that goes on.                                         *)
LEMMA GoesOn ==
    ASSUME IInv, Aside, doc' = doc, err = "building", err' = err,
           Reading(doc, item', step', source', g')
    PROVE  IInv'
<1>1. GraphOK(g')
  BY DEF Reading, Built
<1>2. Reading(doc', item', step', source', g')
  OBVIOUS
<1>3. Rewritten'
  BY DEF IInv, Rewritten, Aside
<1> QED  BY <1>1, <1>2, <1>3 DEF IInv, Aside, keptVars

(* One that stops.                                                           *)
LEMMA Stops ==
    ASSUME IInv, Aside, UNCHANGED <<doc, item, step, source, g>>, err = "building",
           err' = ErrOf(doc), err' # "building",
           err' = "nil" => Meant(g, doc)
    PROVE  IInv'
<1>1. Rewritten'
  BY DEF IInv, Rewritten, Aside
<1>2. err' = "nil" => PositionsOf(g, doc)
  BY MeantPositions DEF IInv
<1> QED  BY <1>1, <1>2 DEF IInv, Aside, keptVars

(* What the guards of the loops say.                                         *)
LEMMA AtItemFacts ==
    ASSUME IInv, NEW kind, AtItem(kind)
    PROVE  /\ err = "building" /\ item \in 1..Len(doc) /\ doc[item].kind = kind
           /\ DocOK(doc) /\ Reading(doc, item, step, source, g)
<1>1. DocOK(doc) /\ Reading(doc, item, step, source, g)
  BY DEF IInv, AtItem
<1>2. item \in 1..Len(doc)
  BY <1>1, AtLine DEF AtItem, Reading
<1> QED  BY <1>1, <1>2 DEF AtItem

LEMMA DeclareNodeInv == IInv /\ DeclareNode /\ Aside => IInv'
<1> SUFFICES ASSUME IInv, DeclareNode, Aside PROVE IInv'
  OBVIOUS
<1>1. AtItem("node") /\ UNCHANGED <<doc, step, source, err>> /\ item' = item + 1
      /\ ~ RetypesNode(g, doc[item].id, doc[item].type) /\ ~ NamesType(doc[item].attrs)
  BY DEF DeclareNode
<1>2. /\ err = "building" /\ item \in 1..Len(doc) /\ doc[item].kind = "node"
      /\ DocOK(doc) /\ Reading(doc, item, step, source, g)
  BY <1>1, AtItemFacts
<1>3. PICK x, t : x = doc[item].id /\ t = doc[item].type
  OBVIOUS
<1>4. g' = PutNode(g, x, Offset(item, 0), t, UpdateAttrs(g.attrs[x], doc[item].attrs))
  <2>1. PICK u : u = Upsert(g, x, Offset(item, 0), t)
    OBVIOUS
  <2>2. g' = [u EXCEPT !.attrs[x] = UpdateAttrs(@, doc[item].attrs)]
    BY <1>3, <2>1 DEF DeclareNode
  <2>3. u.attrs = g.attrs /\ u = [u EXCEPT !.attrs = u.attrs]
    BY <2>1, Zenon DEF Upsert, IInv, GraphOK, Graph
  <2>4. g' = [u EXCEPT !.attrs[x] = UpdateAttrs(g.attrs[x], doc[item].attrs)]
    BY <2>2, <2>3
  <2> QED  BY <2>1, <2>4 DEF PutNode
<1>5. step = 0 /\ Reading(doc, item + 1, 0, source, g')
  BY <1>1, <1>2, <1>3, <1>4, ReadDeclare
<1> QED  BY <1>1, <1>2, <1>5, GoesOn

LEMMA RejectNodeInv == IInv /\ RejectNode /\ Aside => IInv'
<1> SUFFICES ASSUME IInv, RejectNode, Aside PROVE IInv'
  OBVIOUS
<1>1. PICK n : n = doc[item]
  OBVIOUS
<1>2. /\ AtItem("node") /\ UNCHANGED <<doc, item, step, source, g>>
      /\ \/ RetypesNode(g, n.id, n.type) /\ err' = "ErrTypeChange"
         \/ ~ RetypesNode(g, n.id, n.type) /\ NamesType(n.attrs) /\ err' = "ErrTypeInAttrs"
  BY <1>1 DEF RejectNode, Fail
<1>3. /\ err = "building" /\ item \in 1..Len(doc) /\ doc[item].kind = "node"
      /\ DocOK(doc) /\ Reading(doc, item, step, source, g)
  BY <1>2, AtItemFacts
<1>4. /\ RetypesNode(g, n.id, n.type) => ErrOf(doc) = "ErrTypeChange"
      /\ ~ RetypesNode(g, n.id, n.type) /\ NamesType(n.attrs) => ErrOf(doc) = "ErrTypeInAttrs"
  BY <1>1, <1>3, ReadRetypes
<1>5. err' = ErrOf(doc) /\ err' # "building" /\ err' # "nil"
  BY <1>2, <1>4
<1> QED  BY <1>2, <1>3, <1>5, Stops

LEMMA ChainFromInv == IInv /\ ChainFrom /\ Aside => IInv'
<1> SUFFICES ASSUME IInv, ChainFrom, Aside PROVE IInv'
  OBVIOUS
<1>1. /\ AtItem("chain") /\ step = 0 /\ g' = Upsert(g, doc[item].from, NoPos, Untyped)
      /\ source' = doc[item].from /\ step' = 1 /\ UNCHANGED <<doc, item, err>>
  BY DEF ChainFrom
<1>2. /\ err = "building" /\ item \in 1..Len(doc) /\ doc[item].kind = "chain"
      /\ DocOK(doc) /\ Reading(doc, item, 0, source, g)
  BY <1>1, AtItemFacts
<1>3. Reading(doc, item, 1, doc[item].from, g')
  BY <1>1, <1>2, ReadFrom
<1>4. Reading(doc, item', step', source', g')
  BY <1>1, <1>3
<1> QED  BY <1>1, <1>2, <1>4, GoesOn

LEMMA AtStepFacts ==
    ASSUME IInv, AtStep
    PROVE  /\ err = "building" /\ item \in 1..Len(doc) /\ doc[item].kind = "chain"
           /\ DocOK(doc) /\ Reading(doc, item, step, source, g)
           /\ step \in 1..StepsOf(doc[item])
<1>1. AtItem("chain") /\ step \in 1..Len(doc[item].steps)
  BY DEF AtStep
<1>2. /\ err = "building" /\ item \in 1..Len(doc) /\ doc[item].kind = "chain"
      /\ DocOK(doc) /\ Reading(doc, item, step, source, g)
  BY <1>1, AtItemFacts
<1>3. StepsOf(doc[item]) = Len(doc[item].steps)
  BY <1>2, ItemFacts
<1> QED  BY <1>1, <1>2, <1>3

LEMMA ChainStepInv == IInv /\ ChainStep /\ Aside => IInv'
<1> SUFFICES ASSUME IInv, ChainStep, Aside PROVE IInv'
  OBVIOUS
<1>1. PICK s, k, h1 : /\ s = doc[item].steps[step] /\ k = <<source, s.to, s.type>>
                      /\ h1 = Upsert(g, s.to, NoPos, Untyped)
  OBVIOUS
<1>2. /\ AtStep /\ source # s.to /\ ~ NamesType(s.attrs)
      /\ g' = [Link(h1, k, Offset(item, step))
                 EXCEPT !.edgeAttrs[k] = UpdateAttrs(@, s.attrs)]
      /\ source' = s.to /\ step' = step + 1 /\ UNCHANGED <<doc, item, err>>
  BY <1>1 DEF ChainStep
<1>3. /\ err = "building" /\ item \in 1..Len(doc) /\ doc[item].kind = "chain"
      /\ DocOK(doc) /\ Reading(doc, item, step, source, g)
      /\ step \in 1..StepsOf(doc[item])
  BY <1>2, AtStepFacts
<1>4. g' = PutEdge(h1, k, Offset(item, step), UpdateAttrs(h1.edgeAttrs[k], s.attrs))
  <2>1. PICK u : u = Link(h1, k, Offset(item, step))
    OBVIOUS
  <2>2. u.edgeAttrs = h1.edgeAttrs
    BY <2>1 DEF Link
  <2>3. g' = [u EXCEPT !.edgeAttrs[k] = UpdateAttrs(u.edgeAttrs[k], s.attrs)]
    BY <1>2, <2>1
  <2>4. g' = [u EXCEPT !.edgeAttrs[k] = UpdateAttrs(h1.edgeAttrs[k], s.attrs)]
    BY <2>2, <2>3
  <2> QED  BY <2>1, <2>4 DEF PutEdge
<1>5. Reading(doc, item, step + 1, s.to, g')
  <2>1. StepAdded(g, g', source, doc[item].steps[step], Offset(item, step))
    BY <1>1, <1>4 DEF StepAdded
  <2>2. source # doc[item].steps[step].to /\ ~ NamesType(doc[item].steps[step].attrs)
    BY <1>1, <1>2
  <2>3. Reading(doc, item, step + 1, doc[item].steps[step].to, g')
    BY <1>3, <2>1, <2>2, ReadStep
  <2> QED  BY <1>1, <2>3
<1>6. Reading(doc, item', step', source', g')
  BY <1>2, <1>5
<1> QED  BY <1>2, <1>3, <1>6, GoesOn

LEMMA RejectStepInv == IInv /\ RejectStep /\ Aside => IInv'
<1> SUFFICES ASSUME IInv, RejectStep, Aside PROVE IInv'
  OBVIOUS
<1>1. PICK s : s = doc[item].steps[step]
  OBVIOUS
<1>2. /\ AtStep /\ UNCHANGED <<doc, item, step, source, g>>
      /\ \/ source = s.to /\ err' = "ErrLoop"
         \/ source # s.to /\ NamesType(s.attrs) /\ err' = "ErrTypeInAttrs"
  BY <1>1 DEF RejectStep, Fail
<1>3. /\ err = "building" /\ item \in 1..Len(doc) /\ doc[item].kind = "chain"
      /\ DocOK(doc) /\ Reading(doc, item, step, source, g)
      /\ step \in 1..StepsOf(doc[item])
  BY <1>2, AtStepFacts
<1>4. /\ source = s.to => ErrOf(doc) = "ErrLoop"
      /\ source # s.to /\ NamesType(s.attrs) => ErrOf(doc) = "ErrTypeInAttrs"
  BY <1>1, <1>3, ReadLoops
<1>5. err' = ErrOf(doc) /\ err' # "building" /\ err' # "nil"
  BY <1>2, <1>4
<1> QED  BY <1>2, <1>3, <1>5, Stops

LEMMA ChainEndInv == IInv /\ ChainEnd /\ Aside => IInv'
<1> SUFFICES ASSUME IInv, ChainEnd, Aside PROVE IInv'
  OBVIOUS
<1>1. /\ AtItem("chain") /\ step > Len(doc[item].steps)
      /\ item' = item + 1 /\ step' = 0 /\ UNCHANGED <<doc, source, g, err>>
  BY DEF ChainEnd
<1>2. /\ err = "building" /\ item \in 1..Len(doc) /\ doc[item].kind = "chain"
      /\ DocOK(doc) /\ Reading(doc, item, step, source, g)
  BY <1>1, AtItemFacts
<1>3. StepsOf(doc[item]) = Len(doc[item].steps)
  BY <1>2, ItemFacts
<1>4. step > StepsOf(doc[item])
  BY <1>1, <1>3
<1>5. Reading(doc, item + 1, 0, source, g)
  BY <1>2, <1>4, ReadEnd
<1>6. Reading(doc, item', step', source', g')
  BY <1>1, <1>5
<1> QED  BY <1>1, <1>2, <1>6, GoesOn

LEMMA ReturnInv == IInv /\ Return /\ Aside => IInv'
<1> SUFFICES ASSUME IInv, Return, Aside PROVE IInv'
  OBVIOUS
<1>1. /\ err = "building" /\ item > Len(doc) /\ err' = "nil"
      /\ UNCHANGED <<doc, item, step, source, g>>
  BY DEF Return
<1>2. DocOK(doc) /\ Reading(doc, item, step, source, g)
  BY <1>1 DEF IInv
<1>3. Meant(g, doc) /\ ErrOf(doc) = "nil"
  BY <1>1, <1>2, ReadAll
<1> QED  BY <1>1, <1>3, Stops

LEMMA StepInv == IInv /\ Step /\ Aside => IInv'
BY DeclareNodeInv, RejectNodeInv, ChainFromInv, ChainStepInv, RejectStepInv, ChainEndInv,
   ReturnInv DEF Step

-----------------------------------------------------------------------------
(* The edits of the caller leave a graph that is well formed, and move       *)
(* nothing that has a position.                                              *)

PositionsFrom(h, h2) ==
    /\ \A x \in Id : h2.declPos[x] \in {h.declPos[x], NoPos}
    /\ \A k \in EdgeKey : h2.edgePos[k] \in {h.edgePos[k], NoPos}

LEMMA EditedInv ==
    ASSUME IInv, NEW h, EditedTo(h), dead' \subseteq Gone, GraphOK(h), PositionsFrom(g, h)
    PROVE  IInv'
<1>1. /\ err = "nil" /\ edits < MaxEdits /\ g' = h /\ edits' = edits + 1
      /\ UNCHANGED <<doc, item, step, source, err, text, written>>
  BY DEF EditedTo, doneVars
<1>2. text = NoText
  BY <1>1, MarshalAssumption DEF IInv, Rewritten
<1>3. edits' \in 0..MaxEdits /\ edits' # 0
  BY <1>1, MarshalAssumption DEF IInv
<1>4. PositionsOf(g, doc)
  BY <1>1 DEF IInv
<1>5. PositionsOf(h, doc)
  BY <1>4 DEF PositionsOf, PositionsFrom
<1>6. Rewritten'
  BY <1>1, <1>2 DEF Rewritten
<1> QED  BY <1>1, <1>2, <1>3, <1>5, <1>6 DEF IInv

LEMMA FieldsMake ==
    ASSUME NEW h \in Graph
    PROVE  /\ h.nodes \in Seq(Id) /\ h.typ \in [Id -> Type]
           /\ h.declPos \in [Id -> Position] /\ h.typeFromPos \in [Id -> Position]
           /\ h.attrs \in [Id -> Seq(Pair)] /\ h.edges \in Seq(EdgeKey)
           /\ h.edgePos \in [EdgeKey -> Position] /\ h.edgeAttrs \in [EdgeKey -> Seq(Pair)]
           /\ h = [nodes |-> h.nodes, typ |-> h.typ, declPos |-> h.declPos,
                   typeFromPos |-> h.typeFromPos, attrs |-> h.attrs,
                   edges |-> h.edges, edgePos |-> h.edgePos, edgeAttrs |-> h.edgeAttrs]
BY DEF Graph

LEMMA NothingMoved ==
    ASSUME NEW f \in [Id -> Position], NEW x \in Id, NEW t
    PROVE  /\ [f EXCEPT ![x] = IF @ = NoPos THEN NoPos ELSE @] = f
           /\ [f EXCEPT ![x] = IF @ = NoPos /\ t # Untyped THEN NoPos ELSE @] = f
OBVIOUS

(* AddNode and AddEdge are upsertNodeFromAst and the step of a chain, without *)
(* a position.                                                               *)
LEMMA AddNodeOK ==
    ASSUME NEW h, GraphOK(h), NEW n \in NodeItems,
           NEW h2, h2 = [h EXCEPT !.nodes = IF HasNode(h, n.id) THEN @ ELSE Append(@, n.id),
                                  !.typ[n.id] = IF n.type = Untyped THEN @ ELSE n.type,
                                  !.attrs[n.id] = UpdateAttrs(@, n.attrs)]
    PROVE  GraphOK(h2) /\ PositionsFrom(h, h2)
<1>1. /\ n.id \in Id /\ n.type \in Type /\ n.attrs \in Seq(Pair) /\ ~ NamesType(n.attrs)
  BY MarshalAssumption DEF AstNode
<1>2. PICK x, t, P : x = n.id /\ t = n.type /\ P = UpdateAttrs(h.attrs[n.id], n.attrs)
  OBVIOUS
<1>3. h \in Graph /\ x \in Id /\ t \in Type
  BY <1>1, <1>2 DEF GraphOK
<1>4. /\ h2.nodes = IF HasNode(h, x) THEN h.nodes ELSE Append(h.nodes, x)
      /\ h2.typ = [h.typ EXCEPT ![x] = IF t = Untyped THEN @ ELSE t]
      /\ h2.attrs = [h.attrs EXCEPT ![x] = P]
      /\ h2.declPos = h.declPos /\ h2.typeFromPos = h.typeFromPos
      /\ h2.edges = h.edges /\ h2.edgePos = h.edgePos /\ h2.edgeAttrs = h.edgeAttrs
      /\ h2 = [nodes |-> h2.nodes, typ |-> h2.typ, declPos |-> h2.declPos,
               typeFromPos |-> h2.typeFromPos, attrs |-> h2.attrs,
               edges |-> h2.edges, edgePos |-> h2.edgePos, edgeAttrs |-> h2.edgeAttrs]
  BY <1>2, <1>3 DEF Graph
<1>5. PICK u : u = PutNode(h, x, NoPos, t, P)
  OBVIOUS
<1>6. /\ u.nodes = IF HasNode(h, x) THEN h.nodes ELSE Append(h.nodes, x)
      /\ u.typ = [h.typ EXCEPT ![x] = IF t = Untyped THEN @ ELSE t]
      /\ u.attrs = [h.attrs EXCEPT ![x] = P]
      /\ u.declPos = [h.declPos EXCEPT ![x] = IF @ = NoPos THEN NoPos ELSE @]
      /\ u.typeFromPos = [h.typeFromPos EXCEPT
                             ![x] = IF @ = NoPos /\ t # Untyped THEN NoPos ELSE @]
      /\ u.edges = h.edges /\ u.edgePos = h.edgePos /\ u.edgeAttrs = h.edgeAttrs
      /\ u = [nodes |-> u.nodes, typ |-> u.typ, declPos |-> u.declPos,
              typeFromPos |-> u.typeFromPos, attrs |-> u.attrs,
              edges |-> u.edges, edgePos |-> u.edgePos, edgeAttrs |-> u.edgeAttrs]
  BY <1>3, <1>5 DEF PutNode, Upsert, Graph
<1>7. u.declPos = h.declPos /\ u.typeFromPos = h.typeFromPos
  <2>1. PICK f \in [Id -> Position], q \in [Id -> Position] :
            f = h.declPos /\ q = h.typeFromPos
    BY <1>3, FieldsMake
  <2>2. [f EXCEPT ![x] = IF @ = NoPos THEN NoPos ELSE @] = f
    BY <1>3, NothingMoved
  <2>3. [q EXCEPT ![x] = IF @ = NoPos /\ t # Untyped THEN NoPos ELSE @] = q
    BY <1>3, NothingMoved
  <2> QED  BY <1>6, <2>1, <2>2, <2>3
<1>8. h2 = u
  BY <1>4, <1>6, <1>7
<1>9. Plain(P)
  <2>1. Plain(h.attrs[x])
    BY <1>3 DEF GraphOK, NodesOK
  <2> QED  BY <1>1, <1>2, <2>1, UpdateAttrsPlain
<1>10. GraphOK(u)
  <2>1. PICK pos \in Position : pos = NoPos
    BY DEF Position
  <2>2. u = PutNode(h, x, pos, t, P)
    BY <1>5, <2>1
  <2> QED  BY <1>3, <1>9, <2>1, <2>2, UpsertFacts
<1> QED  BY <1>4, <1>8, <1>10 DEF PositionsFrom

LEMMA AddEdgeOK ==
    ASSUME NEW h, GraphOK(h), NEW k \in EdgeKey, NEW attrs \in Seq(Pair), ~ NamesType(attrs),
           MayEnd(h, k[1]), MayEnd(h, k[2]), k[1] # k[2],
           NEW h2, h2 = [Link(h, k, NoPos) EXCEPT !.edgeAttrs[k] = UpdateAttrs(@, attrs)]
    PROVE  GraphOK(h2) /\ PositionsFrom(h, h2)
<1>1. PICK u, P : u = Link(h, k, NoPos) /\ P = UpdateAttrs(h.edgeAttrs[k], attrs)
  OBVIOUS
<1>2. h2 = PutEdge(h, k, NoPos, P)
  <2>1. u.edgeAttrs = h.edgeAttrs
    BY <1>1 DEF Link
  <2>2. h2 = [u EXCEPT !.edgeAttrs[k] = UpdateAttrs(u.edgeAttrs[k], attrs)]
    BY <1>1
  <2>3. h2 = [u EXCEPT !.edgeAttrs[k] = P]
    BY <1>1, <2>1, <2>2
  <2> QED  BY <1>1, <2>3 DEF PutEdge
<1>3. Plain(P)
  <2>1. Plain(h.edgeAttrs[k])
    BY DEF GraphOK, EdgesOK
  <2> QED  BY <1>1, <2>1, UpdateAttrsPlain
<1>4. PICK pos \in Position : pos = NoPos
  BY DEF Position
<1>5. h2 = PutEdge(h, k, pos, P)
  BY <1>2, <1>4
<1>6. GraphOK(h2) /\ EdgeAdded(h, h2, k, pos, P) /\ SameNodes(h, h2)
  BY <1>3, <1>4, <1>5, LinkFacts
<1>7. h.edgePos \in [EdgeKey -> Position]
  BY FieldsMake DEF GraphOK
<1>8. \A l \in EdgeKey : h2.edgePos[l] \in {h.edgePos[l], NoPos}
  BY <1>4, <1>6, <1>7 DEF EdgeAdded
<1> QED  BY <1>6, <1>8 DEF PositionsFrom, SameNodes

(* DeleteEdge and DeleteNode.                                                *)
LEMMA DeleteEdgesOK ==
    ASSUME NEW h, GraphOK(h), NEW gone
    PROVE  GraphOK(Without(h, gone)) /\ PositionsFrom(h, Without(h, gone))
<1>1. PICK h2 : h2 = Without(h, gone)
  OBVIOUS
<1>2. GraphOK(h2) /\ SameNodes(h, h2)
  BY <1>1, WithoutFacts
<1>3. \A k \in EdgeKey : h2.edgePos[k] = IF k \in gone THEN NoPos ELSE h.edgePos[k]
  BY <1>1, WithoutFacts
<1> QED  BY <1>1, <1>2, <1>3 DEF PositionsFrom, SameNodes

NodeDropped(u, h2, x) ==
    /\ h2.nodes = DeleteFirst(u.nodes, x) /\ h2.typ = [u.typ EXCEPT ![x] = Untyped]
    /\ h2.attrs = [u.attrs EXCEPT ![x] = << >>]
    /\ h2.declPos = [u.declPos EXCEPT ![x] = NoPos]
    /\ h2.typeFromPos = [u.typeFromPos EXCEPT ![x] = NoPos]
    /\ h2.edges = u.edges /\ h2.edgePos = u.edgePos /\ h2.edgeAttrs = u.edgeAttrs
    /\ h2 = [nodes |-> h2.nodes, typ |-> h2.typ, declPos |-> h2.declPos,
             typeFromPos |-> h2.typeFromPos, attrs |-> h2.attrs,
             edges |-> h2.edges, edgePos |-> h2.edgePos, edgeAttrs |-> h2.edgeAttrs]

LEMMA DropNodeOK ==
    ASSUME NEW u, GraphOK(u), NEW x \in Id, HasNode(u, x),
           \A k \in ToSet(u.edges) : k[1] # x /\ k[2] # x,
           NEW h2, NodeDropped(u, h2, x)
    PROVE  GraphOK(h2) /\ PositionsFrom(u, h2)
<1>4. u \in Graph
  BY DEF GraphOK
<1>5. /\ u.nodes \in Seq(Id) /\ u.typ \in [Id -> Type]
      /\ u.declPos \in [Id -> Position] /\ u.typeFromPos \in [Id -> Position]
      /\ u.attrs \in [Id -> Seq(Pair)] /\ u.edges \in Seq(EdgeKey)
      /\ u.edgePos \in [EdgeKey -> Position] /\ u.edgeAttrs \in [EdgeKey -> Seq(Pair)]
  BY <1>4, FieldsMake
<1>6. /\ h2.nodes = DeleteFirst(u.nodes, x) /\ h2.typ = [u.typ EXCEPT ![x] = Untyped]
      /\ h2.attrs = [u.attrs EXCEPT ![x] = << >>]
      /\ h2.declPos = [u.declPos EXCEPT ![x] = NoPos]
      /\ h2.typeFromPos = [u.typeFromPos EXCEPT ![x] = NoPos]
      /\ h2.edges = u.edges /\ h2.edgePos = u.edgePos /\ h2.edgeAttrs = u.edgeAttrs
      /\ h2 = [nodes |-> h2.nodes, typ |-> h2.typ, declPos |-> h2.declPos,
               typeFromPos |-> h2.typeFromPos, attrs |-> h2.attrs,
               edges |-> h2.edges, edgePos |-> h2.edgePos, edgeAttrs |-> h2.edgeAttrs]
  BY Zenon DEF NodeDropped
<1>7. /\ h2.nodes \in Seq(Id) /\ ToSet(h2.nodes) = ToSet(u.nodes) \ {x}
      /\ IsInjective(h2.nodes)
  <2>1. PICK s \in Seq(Id) : s = u.nodes
    BY <1>5
  <2>2. IsInjective(s) /\ x \in ToSet(s)
    BY <2>1 DEF GraphOK, NodesOK, HasNode
  <2>3. /\ DeleteFirst(s, x) \in Seq(Id) /\ ToSet(DeleteFirst(s, x)) = ToSet(s) \ {x}
        /\ IsInjective(DeleteFirst(s, x))
    BY <2>2, DeleteFirstProperties
  <2> QED  BY <1>6, <2>1, <2>3
<1>8. h2 \in Graph
  <2>1. h2.typ \in [Id -> Type]
    BY <1>5, <1>6, BuildAssumption
  <2>2. NoPos \in Position
    BY DEF Position
  <2>3. h2.declPos \in [Id -> Position] /\ h2.typeFromPos \in [Id -> Position]
    BY <1>5, <1>6, <2>2
  <2>4. << >> \in Seq(Pair)
    OBVIOUS
  <2>5. h2.attrs \in [Id -> Seq(Pair)]
    BY <1>5, <1>6, <2>4
  <2>6. h2.edges \in Seq(EdgeKey) /\ h2.edgePos \in [EdgeKey -> Position]
        /\ h2.edgeAttrs \in [EdgeKey -> Seq(Pair)]
    BY <1>5, <1>6
  <2> QED  BY <1>6, <1>7, <2>1, <2>3, <2>5, <2>6 DEF Graph
<1>9. NodesOK(h2)
  <2>1. \A y \in Id : Plain(h2.attrs[y])
    BY <1>5, <1>6, NoPairsPlain DEF GraphOK, NodesOK
  <2>2. ASSUME NEW y \in Id, ~ HasNode(h2, y)
        PROVE  /\ h2.typ[y] = Untyped /\ h2.attrs[y] = << >>
               /\ h2.declPos[y] = NoPos /\ h2.typeFromPos[y] = NoPos
    <3>1. CASE y = x
      BY <1>5, <1>6, <3>1
    <3>2. CASE y # x
      <4>1. ~ HasNode(u, y)
        BY <1>7, <2>2, <3>2 DEF HasNode
      <4>2. /\ u.typ[y] = Untyped /\ u.attrs[y] = << >>
            /\ u.declPos[y] = NoPos /\ u.typeFromPos[y] = NoPos
        BY <4>1 DEF GraphOK, NodesOK
      <4> QED  BY <1>5, <1>6, <3>2, <4>2
    <3> QED  BY <3>1, <3>2
  <2> QED  BY <1>7, <2>1, <2>2 DEF NodesOK
<1>10. EdgesOK(h2)
  <2>1. ASSUME NEW k \in ToSet(h2.edges)
        PROVE  MayEnd(h2, k[1]) /\ MayEnd(h2, k[2]) /\ k[1] # k[2]
    <3>2. k[1] # x /\ k[2] # x
      BY <1>6
    <3>3. MayEnd(u, k[1]) /\ MayEnd(u, k[2]) /\ k[1] # k[2]
      BY <1>6 DEF GraphOK, EdgesOK
    <3> QED  BY <1>7, <3>2, <3>3 DEF MayEnd, HasNode
  <2>2. \A k : HasEdge(h2, k) <=> HasEdge(u, k)
    BY <1>6 DEF HasEdge
  <2> QED  BY <1>6, <2>1, <2>2 DEF GraphOK, EdgesOK
<1>11. PositionsFrom(u, h2)
  BY <1>5, <1>6 DEF PositionsFrom
<1> QED  BY <1>8, <1>9, <1>10, <1>11 DEF GraphOK

LEMMA DeleteNodeOK ==
    ASSUME NEW h, GraphOK(h), NEW x \in Id, HasNode(h, x),
           NEW u, u = Without(h, {k \in ToSet(h.edges) : x \in {k[1], k[2]}}),
           NEW h2, h2 = [u EXCEPT !.nodes = DeleteFirst(@, x), !.typ[x] = Untyped,
                                  !.attrs[x] = << >>,
                                  !.declPos[x] = NoPos, !.typeFromPos[x] = NoPos]
    PROVE  GraphOK(h2) /\ PositionsFrom(h, h2)
<1>1. PICK gone : gone = {k \in ToSet(h.edges) : x \in {k[1], k[2]}}
  OBVIOUS
<1>2. GraphOK(u) /\ ToSet(u.edges) = ToSet(h.edges) \ gone /\ SameNodes(h, u)
  BY <1>1, WithoutFacts
<1>3. PositionsFrom(h, u)
  BY DeleteEdgesOK
<1>4. NodeDropped(u, h2, x)
  BY <1>2 DEF GraphOK, Graph, NodeDropped
<1>5. HasNode(u, x)
  BY <1>2 DEF SameNodes, HasNode
<1>6. \A k \in ToSet(u.edges) : k[1] # x /\ k[2] # x
  BY <1>1, <1>2
<1>7. GraphOK(u)
  BY <1>2
<1>8. GraphOK(h2) /\ PositionsFrom(u, h2)
  BY <1>4, <1>5, <1>6, <1>7, DropNodeOK
<1> QED  BY <1>3, <1>8 DEF PositionsFrom

(* DeleteAttr.                                                               *)
LEMMA DeleteAttrPlain ==
    ASSUME NEW P, Plain(P), NEW key, Places(P, key) # {}
    PROVE  Plain(DeleteFirst(P, P[FirstPlace(P, key)]))
<1>1. P \in Seq(Pair) /\ \A i, j \in 1..Len(P) : P[i].key = P[j].key => i = j
  BY DEF Plain, DistinctKeys
<1>2. IsInjective(P)
  BY <1>1, InjectiveSeq
<1>3. P[FirstPlace(P, key)] \in ToSet(P)
  <2>1. PICK j \in Places(P, key) : \A m \in Places(P, key) : j <= m
    <3>1. Places(P, key) \in SUBSET Nat
      BY DEF Places
    <3> QED  BY <3>1, LeastNatural
  <2>2. FirstPlace(P, key) \in Places(P, key)
    BY <2>1 DEF FirstPlace
  <2>3. FirstPlace(P, key) \in 1..Len(P)
    BY <2>2 DEF Places
  <2> QED  BY <1>1, <2>3, ToSetOfSeq
<1>4. PICK e, Q : e = P[FirstPlace(P, key)] /\ Q = DeleteFirst(P, e)
  OBVIOUS
<1>5. Q \in Seq(Pair) /\ ToSet(Q) \subseteq ToSet(P) /\ IsInjective(Q)
  BY <1>1, <1>2, <1>3, <1>4, DeleteFirstProperties
<1>6. \A i \in 1..Len(Q) : \E m \in 1..Len(P) : P[m] = Q[i]
  BY <1>1, <1>5, ToSetOfSeq
<1>7. \A i, j \in 1..Len(Q) : Q[i].key = Q[j].key => i = j
  <2> SUFFICES ASSUME NEW i \in 1..Len(Q), NEW j \in 1..Len(Q), Q[i].key = Q[j].key PROVE i = j
    OBVIOUS
  <2>1. PICK m \in 1..Len(P) : P[m] = Q[i]
    BY <1>6
  <2>2. PICK n \in 1..Len(P) : P[n] = Q[j]
    BY <1>6
  <2>3. m = n
    BY <1>1, <2>1, <2>2
  <2>4. Q[i] = Q[j]
    BY <2>1, <2>2, <2>3
  <2> QED  BY <1>5, <2>4, InjectiveSeq
<1>8. ~ NamesType(Q)
  BY <1>6 DEF Plain, NamesType
<1> QED  BY <1>4, <1>5, <1>7, <1>8 DEF Plain, DistinctKeys

LEMMA DeleteAttrOK ==
    ASSUME NEW h, GraphOK(h), NEW x \in Id, NEW key,
           HasNode(h, x), Places(h.attrs[x], key) # {},
           NEW h2, h2 = [h EXCEPT !.attrs[x] = DeleteFirst(@, @[FirstPlace(@, key)])]
    PROVE  GraphOK(h2) /\ PositionsFrom(h, h2)
<1>1. PICK P : P = DeleteFirst(h.attrs[x], h.attrs[x][FirstPlace(h.attrs[x], key)])
  OBVIOUS
<1>2. h \in Graph /\ h2 = [h EXCEPT !.attrs[x] = P]
  BY <1>1 DEF GraphOK
<1>3. /\ h.nodes \in Seq(Id) /\ h.typ \in [Id -> Type]
      /\ h.declPos \in [Id -> Position] /\ h.typeFromPos \in [Id -> Position]
      /\ h.attrs \in [Id -> Seq(Pair)] /\ h.edges \in Seq(EdgeKey)
      /\ h.edgePos \in [EdgeKey -> Position] /\ h.edgeAttrs \in [EdgeKey -> Seq(Pair)]
  BY <1>2, FieldsMake
<1>4. /\ h2.nodes = h.nodes /\ h2.typ = h.typ /\ h2.attrs = [h.attrs EXCEPT ![x] = P]
      /\ h2.declPos = h.declPos /\ h2.typeFromPos = h.typeFromPos
      /\ h2.edges = h.edges /\ h2.edgePos = h.edgePos /\ h2.edgeAttrs = h.edgeAttrs
      /\ h2 = [nodes |-> h2.nodes, typ |-> h2.typ, declPos |-> h2.declPos,
               typeFromPos |-> h2.typeFromPos, attrs |-> h2.attrs,
               edges |-> h2.edges, edgePos |-> h2.edgePos, edgeAttrs |-> h2.edgeAttrs]
  BY <1>2 DEF Graph
<1>5. Plain(P)
  <2>1. PICK Q : Q = h.attrs[x]
    OBVIOUS
  <2>2. Plain(Q) /\ Places(Q, key) # {}
    BY <2>1 DEF GraphOK, NodesOK
  <2>3. Plain(DeleteFirst(Q, Q[FirstPlace(Q, key)]))
    BY <2>2, DeleteAttrPlain
  <2> QED  BY <1>1, <2>1, <2>3
<1>6. h2 \in Graph
  <2>1. h2.attrs \in [Id -> Seq(Pair)]
    BY <1>3, <1>4, <1>5 DEF Plain
  <2> QED  BY <1>3, <1>4, <2>1 DEF Graph
<1>7. NodesOK(h2)
  <2>1. \A y \in Id : Plain(h2.attrs[y])
    BY <1>3, <1>4, <1>5 DEF GraphOK, NodesOK
  <2>2. \A y : HasNode(h2, y) <=> HasNode(h, y)
    BY <1>4 DEF HasNode
  <2>3. \A y \in Id : y # x => h2.attrs[y] = h.attrs[y]
    BY <1>3, <1>4
  <2> QED  BY <1>4, <2>1, <2>2, <2>3 DEF GraphOK, NodesOK
<1>8. EdgesOK(h2)
  BY <1>4 DEF GraphOK, EdgesOK, HasNode, HasEdge, MayEnd
<1> QED  BY <1>4, <1>6, <1>7, <1>8 DEF GraphOK, PositionsFrom

(* A reordering of the nodes.                                                *)
LEMMA SortOK ==
    ASSUME NEW h, GraphOK(h), NEW s \in SetToSeqs(ToSet(h.nodes)),
           NEW h2, h2 = [h EXCEPT !.nodes = s]
    PROVE  GraphOK(h2) /\ PositionsFrom(h, h2)
<1>1. h \in Graph /\ h.nodes \in Seq(Id)
  BY FieldsMake DEF GraphOK
<1>2. PICK T : T = ToSet(h.nodes)
  OBVIOUS
<1>3. IsFiniteSet(T) /\ T \subseteq Id
  BY <1>1, <1>2, ToSetFinite, ToSetOfSeq
<1>4. /\ s \in Seq(T)
      /\ \A i, j \in 1..Len(s) : s[i] = s[j] => i = j
      /\ \A x \in T : \E i \in 1..Len(s) : s[i] = x
  BY <1>2, <1>3, SetToSeqsFacts
<1>5. s \in Seq(Id)
  BY <1>3, <1>4
<1>6. ToSet(s) = ToSet(h.nodes) /\ IsInjective(s)
  <2>1. \A x \in T : x \in ToSet(s)
    BY <1>4, ToSetOfSeq
  <2>2. \A x \in ToSet(s) : x \in T
    BY <1>4, ToSetOfSeq
  <2>3. IsInjective(s)
    BY <1>4, InjectiveSeq
  <2> QED  BY <1>2, <2>1, <2>2, <2>3
<1>7. /\ h2.nodes = s /\ h2.typ = h.typ /\ h2.attrs = h.attrs
      /\ h2.declPos = h.declPos /\ h2.typeFromPos = h.typeFromPos
      /\ h2.edges = h.edges /\ h2.edgePos = h.edgePos /\ h2.edgeAttrs = h.edgeAttrs
      /\ h2 \in Graph
  BY <1>1, <1>5 DEF Graph
<1>8. \A y : (HasNode(h2, y) <=> HasNode(h, y)) /\ (MayEnd(h2, y) <=> MayEnd(h, y))
  BY <1>6, <1>7 DEF HasNode, MayEnd
<1>9. NodesOK(h2)
  BY <1>6, <1>7, <1>8 DEF GraphOK, NodesOK
<1>10. EdgesOK(h2)
  BY <1>7, <1>8 DEF GraphOK, EdgesOK, HasEdge
<1> QED  BY <1>7, <1>9, <1>10 DEF GraphOK, PositionsFrom

LEMMA EditInv == IInv /\ Edit => IInv'
<1> SUFFICES ASSUME IInv, Edit PROVE IInv'
  OBVIOUS
<1>0. GraphOK(g) /\ dead \subseteq Gone
  BY DEF IInv
<1>a. ASSUME NEW h, Edited(h), GraphOK(h), PositionsFrom(g, h)
      PROVE  IInv'
  BY <1>0, <1>a, EditedInv DEF Edited, keptVars
<1>1. CASE \E n \in NodeItems : EditAddNode(n)
  <2>1. PICK n \in NodeItems : EditAddNode(n)
    BY <1>1
  <2>2. PICK h : h = [g EXCEPT !.nodes = IF HasNode(g, n.id) THEN @ ELSE Append(@, n.id),
                               !.typ[n.id] = IF n.type = Untyped THEN @ ELSE n.type,
                               !.attrs[n.id] = UpdateAttrs(@, n.attrs)]
    OBVIOUS
  <2>3. Edited(h)
    BY <2>1, <2>2 DEF EditAddNode
  <2>4. GraphOK(h) /\ PositionsFrom(g, h)
    BY <1>0, <2>2, AddNodeOK, Zenon
  <2> QED  BY <2>3, <2>4, <1>a
<1>2. CASE \E k \in EdgeKeys, attrs \in {n.attrs : n \in NodeItems} : EditAddEdge(k, attrs)
  <2>1. PICK k \in EdgeKeys, n \in NodeItems : EditAddEdge(k, n.attrs)
    BY <1>2
  <2>2. PICK attrs : attrs = n.attrs
    OBVIOUS
  <2>3. k \in EdgeKey /\ attrs \in Seq(Pair) /\ ~ NamesType(attrs)
    BY <2>1, <2>2, MarshalAssumption DEF AstNode
  <2>4. PICK h : h = [Link(g, k, NoPos) EXCEPT !.edgeAttrs[k] = UpdateAttrs(@, attrs)]
    OBVIOUS
  <2>5. CASE k \in stale
    <3>1. Edited(g)
      BY <2>1, <2>5 DEF EditAddEdge
    <3>2. PositionsFrom(g, g)
      BY DEF PositionsFrom
    <3> QED  BY <1>0, <1>a, <3>1, <3>2
  <2>6. CASE k \notin stale
    <3>1. Edited(h) /\ {k[1], k[2]} \subseteq ToSet(g.nodes) \cup dead /\ k[1] # k[2]
      BY <2>1, <2>2, <2>4, <2>6 DEF EditAddEdge
    <3>2. MayEnd(g, k[1]) /\ MayEnd(g, k[2])
      BY <1>0, <3>1 DEF MayEnd, HasNode
    <3>3. GraphOK(h) /\ PositionsFrom(g, h)
      BY <1>0, <2>3, <2>4, <3>1, <3>2, AddEdgeOK
    <3> QED  BY <1>a, <3>1, <3>3
  <2> QED  BY <2>5, <2>6
<1>3. CASE \E k \in EdgeKey : EditDeleteEdge(k)
  <2>1. PICK k \in EdgeKey : EditDeleteEdge(k)
    BY <1>3
  <2>2. PICK h : h = Without(g, {k})
    OBVIOUS
  <2>3. Edited(h)
    BY <2>1, <2>2 DEF EditDeleteEdge
  <2>4. GraphOK(h) /\ PositionsFrom(g, h)
    BY <1>0, <2>2, DeleteEdgesOK
  <2> QED  BY <2>3, <2>4, <1>a
<1>4. CASE \E x \in Id, keep \in {{}} \cup {{d} : d \in Gone} : EditDeleteNode(x, keep)
  <2>1. PICK x \in Id, keep \in {{}} \cup {{d} : d \in Gone} : EditDeleteNode(x, keep)
    BY <1>4
  <2>2. PICK u : u = Without(g, {k \in ToSet(g.edges) : x \in {k[1], k[2]}})
    OBVIOUS
  <2>3. PICK h : h = [u EXCEPT !.nodes = DeleteFirst(@, x), !.typ[x] = Untyped,
                               !.attrs[x] = << >>,
                               !.declPos[x] = NoPos, !.typeFromPos[x] = NoPos]
    OBVIOUS
  <2>4. EditedTo(h) /\ HasNode(g, x)
    BY <2>1, <2>2, <2>3 DEF EditDeleteNode
  <2>5. dead' \subseteq Gone
    BY <1>0, <2>1 DEF EditDeleteNode
  <2>6. GraphOK(h) /\ PositionsFrom(g, h)
    BY <1>0, <2>2, <2>3, <2>4, DeleteNodeOK, Zenon
  <2> QED  BY <2>4, <2>5, <2>6, EditedInv
<1>5. CASE \E x \in Id, key \in Key : EditDeleteAttr(x, key)
  <2>1. PICK x \in Id, key \in Key : EditDeleteAttr(x, key)
    BY <1>5
  <2>2. PICK h : h = [g EXCEPT !.attrs[x] = DeleteFirst(@, @[FirstPlace(@, key)])]
    OBVIOUS
  <2>3. Edited(h) /\ HasNode(g, x) /\ Places(g.attrs[x], key) # {}
    BY <2>1, <2>2 DEF EditDeleteAttr
  <2>4. GraphOK(h) /\ PositionsFrom(g, h)
    BY <1>0, <2>2, <2>3, DeleteAttrOK
  <2> QED  BY <2>3, <2>4, <1>a
<1>6. CASE EditSort
  <2>1. PICK s \in SetToSeqs(ToSet(g.nodes)) : Edited([g EXCEPT !.nodes = s])
    BY <1>6 DEF EditSort
  <2>2. PICK h : h = [g EXCEPT !.nodes = s]
    OBVIOUS
  <2>3. GraphOK(h) /\ PositionsFrom(g, h)
    BY <1>0, <2>2, SortOK
  <2> QED  BY <2>1, <2>2, <2>3, <1>a
<1> QED  BY <1>1, <1>2, <1>3, <1>4, <1>5, <1>6 DEF Edit

-----------------------------------------------------------------------------
(* inPrintOrder.                                                             *)

LEMMA GreatestValue ==
    ASSUME NEW T, IsFiniteSet(T), NEW f \in [T -> Int]
    PROVE  \E m \in {0} \cup {f[x] : x \in T} : \A y \in {0} \cup {f[x] : x \in T} : m >= y
<1> DEFINE up(x) == {y \in T : f[y] >= f[x]}
           F == {up(x) : x \in T}
<1>0. \A x \in T : f[x] \in Int
  OBVIOUS
<1>1. CASE T = {}
  BY <1>1
<1>2. CASE T # {}
  <2>1. PICK V \in F : \A W \in F : W \subseteq V => W = V
    <3>0. \A x \in T : up(x) \in SUBSET T
      OBVIOUS
    <3>1. F \in SUBSET (SUBSET T) /\ F # {}
      <4> HIDE DEF up
      <4> QED  BY <1>2, <3>0
    <3> HIDE DEF F
    <3> QED  BY <3>1, SmallestSet
  <2>2. PICK x \in T : V = up(x)
    BY <2>1
  <2>3. \A y \in T : f[x] >= f[y]
    <3> SUFFICES ASSUME NEW y \in T, f[y] > f[x] PROVE FALSE
      BY <1>0
    <3>1. up(y) \subseteq up(x) /\ x \in up(x) /\ x \notin up(y)
      BY <1>0
    <3>2. up(y) \in F
      OBVIOUS
    <3> HIDE DEF F, up
    <3> QED  BY <2>1, <2>2, <3>1, <3>2
  <2>4. CASE f[x] >= 0
    BY <1>0, <2>3, <2>4
  <2>5. CASE ~ (f[x] >= 0)
    <3>1. \A y \in T : 0 >= f[y]
      BY <1>0, <2>3, <2>5
    <3> QED  BY <3>1
  <2> QED  BY <2>4, <2>5
<1> QED  BY <1>1, <1>2

(* The items that inPrintOrder works on: every node and every edge.          *)
PrintItem == {<<"node", x>> : x \in Id} \cup {<<"edge", k>> : k \in EdgeKey}
NodeItem(x) == <<"node", x>>
EdgeItem(k) == <<"edge", k>>

LEMMA PrintItemFacts ==
    /\ \A x, y : NodeItem(x) # EdgeItem(y)
    /\ \A x, y : NodeItem(x) = NodeItem(y) => x = y
    /\ \A x, y : EdgeItem(x) = EdgeItem(y) => x = y
    /\ \A x : NodeItem(x)[1] = "node" /\ NodeItem(x)[2] = x
    /\ \A x : EdgeItem(x)[1] = "edge" /\ EdgeItem(x)[2] = x
    /\ \A x \in Id : NodeItem(x) \in PrintItem
    /\ \A k \in EdgeKey : EdgeItem(k) \in PrintItem
    /\ \A it \in PrintItem : \/ \E x \in Id : it = NodeItem(x)
                             \/ \E k \in EdgeKey : it = EdgeItem(k)
BY DEF NodeItem, EdgeItem, PrintItem

LEMMA MakeSeq ==
    ASSUME NEW S, NEW m \in Nat, NEW f \in [1..m -> S]
    PROVE  f \in Seq(S) /\ Len(f) = m
OBVIOUS

LEMMA PrintItemsFacts ==
    ASSUME NEW h, GraphOK(h)
    PROVE  /\ PrintItems(h) \in Seq(PrintItem) /\ Len(PrintItems(h)) = Len(h.nodes) + Len(h.edges)
           /\ \A i \in 1..Len(h.nodes) : PrintItems(h)[i] = NodeItem(h.nodes[i])
           /\ \A i \in 1..Len(h.edges) : PrintItems(h)[Len(h.nodes) + i] = EdgeItem(h.edges[i])
           /\ \A i \in 1..Len(PrintItems(h)) :
                 \/ i \in 1..Len(h.nodes)
                 \/ i - Len(h.nodes) \in 1..Len(h.edges)
           /\ \A x : NodeItem(x) \in ToSet(PrintItems(h)) <=> x \in ToSet(h.nodes)
           /\ \A k : EdgeItem(k) \in ToSet(PrintItems(h)) <=> k \in ToSet(h.edges)
           /\ IsInjective(PrintItems(h))
<1> DEFINE a == [j \in 1..Len(h.nodes) |-> <<"node", h.nodes[j]>>]
           b == [j \in 1..Len(h.edges) |-> <<"edge", h.edges[j]>>]
<1>1. /\ h.nodes \in Seq(Id) /\ h.edges \in Seq(EdgeKey)
      /\ IsInjective(h.nodes) /\ IsInjective(h.edges)
  BY FieldsMake DEF GraphOK, NodesOK, EdgesOK
<1>2. PICK n, e : n \in Seq(Id) /\ e \in Seq(EdgeKey) /\ n = h.nodes /\ e = h.edges
  BY <1>1
<1>3. /\ a \in Seq(PrintItem) /\ Len(a) = Len(n) /\ \A j \in 1..Len(n) : a[j] = NodeItem(n[j])
  <2>1. \A j \in 1..Len(n) : n[j] \in Id
    BY <1>2
  <2>2. a = [j \in 1..Len(n) |-> NodeItem(n[j])] /\ Len(n) \in Nat
    BY <1>2 DEF NodeItem
  <2>3. \A j \in 1..Len(n) : NodeItem(n[j]) \in PrintItem
    BY <2>1, PrintItemFacts
  <2>4. a \in [1..Len(n) -> PrintItem]
    BY <2>2, <2>3
  <2> QED  BY <2>2, <2>4, MakeSeq
<1>4. /\ b \in Seq(PrintItem) /\ Len(b) = Len(e) /\ \A j \in 1..Len(e) : b[j] = EdgeItem(e[j])
  <2>1. \A j \in 1..Len(e) : e[j] \in EdgeKey
    BY <1>2
  <2>2. b = [j \in 1..Len(e) |-> EdgeItem(e[j])] /\ Len(e) \in Nat
    BY <1>2 DEF EdgeItem
  <2>3. \A j \in 1..Len(e) : EdgeItem(e[j]) \in PrintItem
    BY <2>1, PrintItemFacts
  <2>4. b \in [1..Len(e) -> PrintItem]
    BY <2>2, <2>3
  <2> QED  BY <2>2, <2>4, MakeSeq
<1>5. PICK p : p = PrintItems(h)
  OBVIOUS
<1>6. p = a \o b
  BY <1>5 DEF PrintItems
<1> HIDE DEF a, b
<1>7. /\ p \in Seq(PrintItem) /\ Len(p) = Len(n) + Len(e)
      /\ \A i \in 1..Len(n) : p[i] = NodeItem(n[i]) /\ i \in 1..Len(p)
      /\ \A i \in 1..Len(e) : p[Len(n) + i] = EdgeItem(e[i]) /\ Len(n) + i \in 1..Len(p)
      /\ \A i \in 1..Len(p) : i \in 1..Len(n) \/ i - Len(n) \in 1..Len(e)
  <2>1. PICK t \in Seq(PrintItem), u \in Seq(PrintItem) : t = a /\ u = b
    BY <1>3, <1>4
  <2>2. /\ t \o u \in Seq(PrintItem) /\ Len(t \o u) = Len(t) + Len(u)
        /\ \A i \in 1..Len(t) : i \in 1..Len(t \o u) /\ (t \o u)[i] = t[i]
        /\ \A j \in 1..Len(u) : /\ Len(t) + j \in 1..Len(t \o u)
                                /\ (t \o u)[Len(t) + j] = u[j]
        /\ \A i \in 1..Len(t \o u) :
              \/ i \in 1..Len(t) /\ (t \o u)[i] = t[i]
              \/ /\ i - Len(t) \in 1..Len(u) /\ i > Len(t)
                 /\ (t \o u)[i] = u[i - Len(t)]
    BY ConcatFacts
  <2>3. PICK q : q = t \o u
    OBVIOUS
  <2>4. /\ q = p /\ Len(t) = Len(n) /\ Len(u) = Len(e)
        /\ \A j \in 1..Len(n) : t[j] = NodeItem(n[j])
        /\ \A j \in 1..Len(e) : u[j] = EdgeItem(e[j])
    BY <1>3, <1>4, <1>6, <2>1, <2>3
  <2>5. /\ q \in Seq(PrintItem) /\ Len(q) = Len(t) + Len(u)
        /\ \A i \in 1..Len(t) : i \in 1..Len(q) /\ q[i] = t[i]
        /\ \A j \in 1..Len(u) : Len(t) + j \in 1..Len(q) /\ q[Len(t) + j] = u[j]
        /\ \A i \in 1..Len(q) : i \in 1..Len(t) \/ i - Len(t) \in 1..Len(u)
    BY <2>2, <2>3
  <2> QED  BY <2>4, <2>5
<1>8. /\ Len(n) \in Nat /\ Len(e) \in Nat
      /\ \A i \in 1..Len(p) : \/ i \in 1..Len(n) /\ p[i] = NodeItem(n[i])
                              \/ \E j \in 1..Len(e) : i = Len(n) + j /\ p[i] = EdgeItem(e[j])
  <2>1. Len(n) \in Nat /\ Len(e) \in Nat
    BY <1>2
  <2>2. ASSUME NEW i \in 1..Len(p), i \notin 1..Len(n)
        PROVE  \E j \in 1..Len(e) : i = Len(n) + j /\ p[i] = EdgeItem(e[j])
    <3>1. i - Len(n) \in 1..Len(e) /\ i = Len(n) + (i - Len(n))
      BY <1>7, <2>1, <2>2
    <3> QED  BY <1>7, <3>1
  <2> QED  BY <1>7, <2>1, <2>2
<1>9. \A x : NodeItem(x) \in ToSet(p) <=> x \in ToSet(n)
  <2>1. ASSUME NEW x, NodeItem(x) \in ToSet(p)
        PROVE  x \in ToSet(n)
    <3>1. PICK i \in 1..Len(p) : p[i] = NodeItem(x)
      BY <1>7, <2>1, ToSetOfSeq
    <3>2. i \in 1..Len(n) /\ NodeItem(n[i]) = NodeItem(x)
      BY <1>8, <3>1, PrintItemFacts
    <3>3. n[i] = x
      BY <3>2, PrintItemFacts
    <3> QED  BY <1>2, <3>2, <3>3, ToSetOfSeq
  <2>2. ASSUME NEW x, x \in ToSet(n)
        PROVE  NodeItem(x) \in ToSet(p)
    <3>1. PICK i \in 1..Len(n) : n[i] = x
      BY <1>2, <2>2, ToSetOfSeq
    <3>2. i \in 1..Len(p) /\ p[i] = NodeItem(x)
      BY <1>7, <3>1
    <3> QED  BY <1>7, <3>2, ToSetOfSeq
  <2> QED  BY <2>1, <2>2
<1>10. \A k : EdgeItem(k) \in ToSet(p) <=> k \in ToSet(e)
  <2>1. ASSUME NEW k, EdgeItem(k) \in ToSet(p)
        PROVE  k \in ToSet(e)
    <3>1. PICK i \in 1..Len(p) : p[i] = EdgeItem(k)
      BY <1>7, <2>1, ToSetOfSeq
    <3>2. PICK j \in 1..Len(e) : EdgeItem(e[j]) = EdgeItem(k)
      BY <1>8, <3>1, PrintItemFacts
    <3>3. e[j] = k
      BY <3>2, PrintItemFacts
    <3> QED  BY <1>2, <3>2, <3>3, ToSetOfSeq
  <2>2. ASSUME NEW k, k \in ToSet(e)
        PROVE  EdgeItem(k) \in ToSet(p)
    <3>1. PICK i \in 1..Len(e) : e[i] = k
      BY <1>2, <2>2, ToSetOfSeq
    <3>2. Len(n) + i \in 1..Len(p) /\ p[Len(n) + i] = EdgeItem(k)
      BY <1>7, <3>1
    <3> QED  BY <1>7, <3>2, ToSetOfSeq
  <2> QED  BY <2>1, <2>2
<1>11. IsInjective(p)
  <2>0. /\ \A i, j \in 1..Len(n) : n[i] = n[j] => i = j
        /\ \A i, j \in 1..Len(e) : e[i] = e[j] => i = j
    BY <1>1, <1>2, InjectiveSeq
  <2>1. ASSUME NEW i \in 1..Len(p), NEW j \in 1..Len(p), p[i] = p[j]
        PROVE  i = j
    <3>1. CASE i \in 1..Len(n) /\ p[i] = NodeItem(n[i])
      <4>0. \A m \in 1..Len(e) : p[j] # EdgeItem(e[m])
        BY <2>1, <3>1, PrintItemFacts
      <4>1. j \in 1..Len(n) /\ p[j] = NodeItem(n[j])
        BY <1>8, <4>0
      <4>2. n[i] = n[j]
        BY <2>1, <3>1, <4>1, PrintItemFacts
      <4> QED  BY <2>0, <3>1, <4>1, <4>2
    <3>2. CASE \E k \in 1..Len(e) : i = Len(n) + k /\ p[i] = EdgeItem(e[k])
      <4>1. PICK k \in 1..Len(e) : i = Len(n) + k /\ p[i] = EdgeItem(e[k])
        BY <3>2
      <4>0. \A m \in 1..Len(n) : p[j] # NodeItem(n[m])
        BY <2>1, <4>1, PrintItemFacts
      <4>2. PICK m \in 1..Len(e) : j = Len(n) + m /\ p[j] = EdgeItem(e[m])
        BY <1>8, <4>0
      <4>3. e[k] = e[m]
        BY <2>1, <4>1, <4>2, PrintItemFacts
      <4>4. k = m
        BY <2>0, <4>3
      <4> QED  BY <4>1, <4>2, <4>4
    <3> QED  BY <1>8, <3>1, <3>2
  <2> QED  BY <1>7, <2>1, InjectiveSeq
<1> QED  BY <1>2, <1>5, <1>7, <1>9, <1>10, <1>11

LEMMA OffsetOfFacts ==
    ASSUME NEW h, h \in Graph
    PROVE  /\ \A x \in Id : OffsetOf(h, NodeItem(x)) =
                  IF h.declPos[x] = NoPos THEN -1 ELSE h.declPos[x]
           /\ \A k \in EdgeKey : OffsetOf(h, EdgeItem(k)) =
                  IF h.edgePos[k] = NoPos THEN -2 ELSE h.edgePos[k]
           /\ \A it \in PrintItem : OffsetOf(h, it) \in Int /\ OffsetOf(h, it) >= -2
<1>1. \A x \in Id : OffsetOf(h, NodeItem(x)) =
                  IF h.declPos[x] = NoPos THEN -1 ELSE h.declPos[x]
  BY PrintItemFacts DEF OffsetOf
<1>2. \A k \in EdgeKey : OffsetOf(h, EdgeItem(k)) =
                  IF h.edgePos[k] = NoPos THEN -2 ELSE h.edgePos[k]
  BY PrintItemFacts DEF OffsetOf
<1>3. /\ \A x \in Id : h.declPos[x] \in Nat \cup {NoPos}
      /\ \A k \in EdgeKey : h.edgePos[k] \in Nat \cup {NoPos}
  BY FieldsMake DEF Position
<1>4. /\ \A x \in Id : OffsetOf(h, NodeItem(x)) \in Int /\ OffsetOf(h, NodeItem(x)) >= -2
      /\ \A k \in EdgeKey : OffsetOf(h, EdgeItem(k)) \in Int /\ OffsetOf(h, EdgeItem(k)) >= -2
  BY <1>1, <1>2, <1>3
<1> QED  BY <1>1, <1>2, <1>4, PrintItemFacts

LEMMA BeyondFacts ==
    ASSUME NEW h, GraphOK(h)
    PROVE  /\ Beyond(h) \in Nat
           /\ \A it \in ToSet(PrintItems(h)) : OffsetOf(h, it) < Beyond(h)
<1> DEFINE T == ToSet(PrintItems(h))
           A == {0} \cup {OffsetOf(h, it) : it \in T}
           f == [it \in T |-> OffsetOf(h, it)]
<1>1. Beyond(h) = 1 + Max(A)
  BY DEF Beyond
<1>2. A = {0} \cup {f[it] : it \in T} /\ \A it \in T : OffsetOf(h, it) \in A
  OBVIOUS
<1>3. IsFiniteSet(T) /\ T \subseteq PrintItem
  BY PrintItemsFacts, ToSetFinite, ToSetOfSeq
<1> HIDE DEF T
<1>4. \A it \in T : OffsetOf(h, it) \in Int
  BY <1>3, OffsetOfFacts DEF GraphOK
<1>5. f \in [T -> Int] /\ A \subseteq Int /\ 0 \in A
  BY <1>4
<1> HIDE DEF A, f
<1>6. \E m \in A : \A y \in A : m >= y
  BY <1>2, <1>3, <1>5, GreatestValue
<1>7. PICK m : m = Max(A) /\ m \in A /\ \A y \in A : m >= y
  BY <1>6 DEF Max
<1>8. Beyond(h) = 1 + m /\ m \in Int /\ m >= 0 /\ Beyond(h) \in Nat
  BY <1>1, <1>5, <1>7
<1>9. \A it \in T : OffsetOf(h, it) < Beyond(h)
  BY <1>2, <1>4, <1>7, <1>8
<1> QED  BY <1>8, <1>9 DEF T

LEMMA KeepAtOnce ==
    ASSUME NEW S, NEW s \in Seq(S), IsInjective(s), NEW I \in SUBSET (1..Len(s)),
           NEW t, t = KeepAt(s, I)
    PROVE  /\ t \in Seq(S) /\ IsInjective(t)
           /\ \A x : x \in ToSet(t) <=> \E i \in I : s[i] = x
<1>1. t \in Seq(S)
  BY KeepAtFacts
<1>2. PICK f \in [1..Len(t) -> 1..Len(s)] :
          /\ \A n \in 1..Len(t) : f[n] \in I /\ t[n] = s[f[n]]
          /\ \A j \in I : \E n \in 1..Len(t) : f[n] = j
          /\ \A j, n \in 1..Len(t) : f[j] < f[n] <=> j < n
  BY KeepAtFacts
<1>3. \A i, j \in 1..Len(s) : s[i] = s[j] => i = j
  BY InjectiveSeq
<1>4. IsInjective(t)
  <2>1. ASSUME NEW i \in 1..Len(t), NEW j \in 1..Len(t), t[i] = t[j]
        PROVE  i = j
    <3>1. f[i] = f[j] /\ f[i] \in Nat
      BY <1>2, <1>3, <2>1
    <3>2. ~ (i < j) /\ ~ (j < i)
      BY <1>2, <3>1
    <3> QED  BY <3>2
  <2> QED  BY <1>1, <2>1, InjectiveSeq
<1>5. ASSUME NEW x, x \in ToSet(t)
      PROVE  \E i \in I : s[i] = x
  <2>1. PICK n \in 1..Len(t) : t[n] = x
    BY <1>1, <1>5, ToSetOfSeq
  <2> QED  BY <1>2, <2>1
<1>6. ASSUME NEW i \in I
      PROVE  s[i] \in ToSet(t)
  <2>1. PICK n \in 1..Len(t) : f[n] = i
    BY <1>2
  <2>2. t[n] = s[i]
    BY <1>2, <2>1
  <2> QED  BY <1>1, <2>2, ToSetOfSeq
<1> QED  BY <1>1, <1>4, <1>5, <1>6

(* What is printed.                                                          *)
LEMMA KeptFacts ==
    ASSUME NEW h, GraphOK(h)
    PROVE  /\ Kept(h) \in Seq(PrintItem) /\ IsInjective(Kept(h))
           /\ \A x : NodeItem(x) \in ToSet(Kept(h)) <=> x \in ToSet(h.nodes) /\ ~ Implied(h, x)
           /\ \A k : EdgeItem(k) \in ToSet(Kept(h)) <=> k \in ToSet(h.edges)
           /\ ToSet(Kept(h)) \subseteq ToSet(PrintItems(h))
<1> DEFINE p == PrintItems(h)
           I == {j \in 1..Len(p) : p[j][1] = "edge" \/ ~ Implied(h, p[j][2])}
           t == Kept(h)
<1>1. t = KeepAt(p, I)
  BY DEF Kept
<1>2. /\ p \in Seq(PrintItem) /\ IsInjective(p)
      /\ \A x : NodeItem(x) \in ToSet(p) <=> x \in ToSet(h.nodes)
      /\ \A k : EdgeItem(k) \in ToSet(p) <=> k \in ToSet(h.edges)
  BY PrintItemsFacts
<1> HIDE DEF p
<1>3. /\ I \in SUBSET (1..Len(p))
      /\ \A j \in 1..Len(p) : j \in I <=> (p[j][1] = "edge" \/ ~ Implied(h, p[j][2]))
  OBVIOUS
<1> HIDE DEF I, t
<1>4. /\ t \in Seq(PrintItem) /\ IsInjective(t)
      /\ \A x : x \in ToSet(t) <=> \E i \in I : p[i] = x
  BY <1>1, <1>2, <1>3, KeepAtOnce
<1>5. ASSUME NEW it
      PROVE  it \in ToSet(t) <=> it \in ToSet(p) /\ (it[1] = "edge" \/ ~ Implied(h, it[2]))
  <2>1. ASSUME it \in ToSet(t)
        PROVE  it \in ToSet(p) /\ (it[1] = "edge" \/ ~ Implied(h, it[2]))
    <3>1. PICK i \in I : p[i] = it
      BY <1>4, <2>1
    <3>2. i \in 1..Len(p)
      BY <1>3
    <3>3. it[1] = "edge" \/ ~ Implied(h, it[2])
      BY <1>3, <3>1, <3>2
    <3> QED  BY <1>2, <3>1, <3>2, <3>3, ToSetOfSeq
  <2>2. ASSUME it \in ToSet(p), it[1] = "edge" \/ ~ Implied(h, it[2])
        PROVE  it \in ToSet(t)
    <3>1. PICK i \in 1..Len(p) : p[i] = it
      BY <1>2, <2>2, ToSetOfSeq
    <3>2. i \in I
      BY <1>3, <2>2, <3>1
    <3> QED  BY <1>4, <3>1, <3>2
  <2> QED  BY <2>1, <2>2
<1>6. \A x : NodeItem(x) \in ToSet(t) <=> x \in ToSet(h.nodes) /\ ~ Implied(h, x)
  <2> TAKE x
  <2>1. NodeItem(x)[1] # "edge" /\ NodeItem(x)[2] = x
    BY PrintItemFacts
  <2>2. NodeItem(x) \in ToSet(p) <=> x \in ToSet(h.nodes)
    BY <1>2
  <2> QED  BY <1>5, <2>1, <2>2
<1>7. \A k : EdgeItem(k) \in ToSet(t) <=> k \in ToSet(h.edges)
  <2> TAKE k
  <2>1. EdgeItem(k)[1] = "edge"
    BY PrintItemFacts
  <2>2. EdgeItem(k) \in ToSet(p) <=> k \in ToSet(h.edges)
    BY <1>2
  <2> QED  BY <1>5, <2>1, <2>2
<1>8. ToSet(t) \subseteq ToSet(p)
  BY <1>5
<1> QED  BY <1>4, <1>6, <1>7, <1>8 DEF p, t

LEMMA SortKeyFacts ==
    ASSUME NEW h, GraphOK(h)
    PROVE  \A it \in ToSet(PrintItems(h)) :
                 /\ SortKey(h, it) \in Int
                 /\ OffsetOf(h, it) >= 0 => /\ SortKey(h, it) = OffsetOf(h, it)
                                            /\ SortKey(h, it) < Beyond(h)
                 /\ OffsetOf(h, it) < 0 => SortKey(h, it) = Beyond(h) - OffsetOf(h, it)
<1> TAKE it \in ToSet(PrintItems(h))
<1>1. it \in PrintItem
  BY PrintItemsFacts, ToSetOfSeq
<1>2. OffsetOf(h, it) \in Int
  BY <1>1, OffsetOfFacts DEF GraphOK
<1>3. Beyond(h) \in Nat /\ OffsetOf(h, it) < Beyond(h)
  BY BeyondFacts
<1>4. PICK o, b : o = OffsetOf(h, it) /\ b = Beyond(h)
  OBVIOUS
<1>5. SortKey(h, it) = IF o < 0 THEN b - o ELSE o
  BY <1>4 DEF SortKey
<1> QED  BY <1>2, <1>3, <1>4, <1>5

LEMMA InPrintOrderFacts ==
    ASSUME NEW h, GraphOK(h), NEW L, L = InPrintOrder(h)
    PROVE  /\ L \in Seq(PrintItem) /\ IsInjective(L) /\ ToSet(L) = ToSet(Kept(h))
           /\ \A i, j \in 1..Len(L) : i < j => SortKey(h, L[i]) <= SortKey(h, L[j])
           /\ \A i, j \in 1..Len(L) : i < j /\ SortKey(h, L[i]) = SortKey(h, L[j])
                  => \E a, b \in 1..Len(Kept(h)) : a < b /\ L[i] = Kept(h)[a] /\ L[j] = Kept(h)[b]
<1> DEFINE T == ToSet(Kept(h))
           key == [it \in T |-> SortKey(h, it)]
<1>1. L = StableSort(Kept(h), key)
  BY DEF InPrintOrder
<1>2. Kept(h) \in Seq(PrintItem) /\ IsInjective(Kept(h)) /\ T \subseteq ToSet(PrintItems(h))
  BY KeptFacts
<1>3. key \in [T -> Int] /\ \A it \in T : key[it] = SortKey(h, it)
  <2> HIDE DEF T
  <2>1. \A it \in T : SortKey(h, it) \in Int
    BY <1>2, SortKeyFacts
  <2> QED  BY <2>1
<1> HIDE DEF key
<1>4. PICK s : s = Kept(h)
  OBVIOUS
<1>5. s \in Seq(T) /\ T = ToSet(s) /\ IsInjective(s)
  <2>1. s \in Seq(PrintItem) /\ T = ToSet(s) /\ IsInjective(s)
    BY <1>2, <1>4
  <2> HIDE DEF T
  <2>2. \A i \in 1..Len(s) : s[i] \in T
    BY <2>1, ToSetOfSeq
  <2>3. Len(s) \in Nat /\ s \in [1..Len(s) -> T]
    BY <2>1, <2>2
  <2> QED  BY <2>1, <2>3, MakeSeq
<1> HIDE DEF T
<1>6. /\ L \in Seq(T) /\ Len(L) = Len(s) /\ ToSet(L) = T /\ IsInjective(L)
      /\ NonDecreasing(L, key) /\ KeepsTies(s, L, key)
  BY <1>1, <1>3, <1>4, <1>5, StableSortProperties
<1>7. L \in Seq(PrintItem) /\ \A i \in 1..Len(L) : L[i] \in T
  <2>1. T \subseteq PrintItem
    <3>1. T \subseteq ToSet(s) /\ s \in Seq(PrintItem)
      BY <1>2, <1>4, <1>5
    <3> QED  BY <3>1, ToSetOfSeq
  <2> QED  BY <1>6, <2>1
<1>8. \A i, j \in 1..Len(L) : i < j => SortKey(h, L[i]) <= SortKey(h, L[j])
  BY <1>3, <1>6, <1>7 DEF NonDecreasing
<1>9. ASSUME NEW i \in 1..Len(L), NEW j \in 1..Len(L), i < j, SortKey(h, L[i]) = SortKey(h, L[j])
      PROVE  \E a, b \in 1..Len(s) : a < b /\ L[i] = s[a] /\ L[j] = s[b]
  <2>1. key[L[i]] = key[L[j]]
    BY <1>3, <1>7, <1>9
  <2> QED  BY <1>6, <1>9, <2>1 DEF KeepsTies
<1> QED  BY <1>4, <1>6, <1>7, <1>8, <1>9 DEF T

-----------------------------------------------------------------------------
(* What marshalText writes, line by line.                                    *)

(* The ids that an edge is written with.                                      *)
LEMMA NamedFacts ==
    ASSUME NEW k \in EdgeKey
    PROVE  /\ k = <<k[1], k[2], k[3]>> /\ k[1] \in Ptr /\ k[2] \in Ptr /\ k[3] \in Type
           /\ IdOf(k[1]) \in Id /\ IdOf(k[2]) \in Id
           /\ Named(k) = <<IdOf(k[1]), IdOf(k[2]), k[3]>>
           /\ Named(k)[1] = IdOf(k[1]) /\ Named(k)[2] = IdOf(k[2]) /\ Named(k)[3] = k[3]
           /\ Named(k) \in EdgeKey /\ Named(Named(k)) = Named(k)
<1>1. k = <<k[1], k[2], k[3]>> /\ k[1] \in Ptr /\ k[2] \in Ptr /\ k[3] \in Type
  BY DEF EdgeKey
<1>2. ASSUME NEW p \in Ptr
      PROVE  IdOf(p) \in Id /\ IdOf(IdOf(p)) = IdOf(p)
  <2>1. CASE p \in Id
    BY <2>1 DEF IdOf
  <2>2. CASE p \notin Id
    <3>1. p \in Id \X Nat
      BY <2>2, BuildAssumption DEF Ptr
    <3>2. p[1] \in Id
      BY <3>1
    <3> QED  BY <2>2, <3>2 DEF IdOf
  <2> QED  BY <2>1, <2>2
<1>3. PICK x, y, t : x = IdOf(k[1]) /\ y = IdOf(k[2]) /\ t = k[3]
  OBVIOUS
<1>4. Named(k) = <<x, y, t>>
  BY <1>3 DEF Named
<1>5. x \in Id /\ y \in Id /\ t \in Type /\ IdOf(x) = x /\ IdOf(y) = y
  BY <1>1, <1>2, <1>3
<1>6. <<x, y, t>> \in EdgeKey
  BY <1>5 DEF EdgeKey, Ptr
<1>7. Named(<<x, y, t>>) = <<x, y, t>>
  BY <1>5 DEF Named
<1> QED  BY <1>1, <1>3, <1>4, <1>5, <1>6, <1>7

LEMMA NamedItself ==
    ASSUME NEW k \in EdgeKey, k[1] \in Id, k[2] \in Id
    PROVE  Named(k) = k
<1>1. IdOf(k[1]) = k[1] /\ IdOf(k[2]) = k[2]
  BY DEF IdOf
<1> QED  BY <1>1, NamedFacts

LEMMA NodeLine ==
    ASSUME NEW h, GraphOK(h), NEW x \in Id, NEW l, l = Line(h, NodeItem(x))
    PROVE  /\ l \in AstNode /\ l.kind = "node" /\ l.id = x /\ l.type = h.typ[x]
           /\ l.attrs = h.attrs[x] /\ StepsOf(l) = 0
<1>1. NodeItem(x)[1] = "node" /\ NodeItem(x)[2] = x
  BY PrintItemFacts
<1>2. l = [kind |-> "node", id |-> x, type |-> h.typ[x], attrs |-> h.attrs[x]]
  BY <1>1 DEF Line
<1>3. h.typ[x] \in Type /\ h.attrs[x] \in Seq(Pair)
  BY DEF GraphOK, Graph
<1>4. l.kind = "node"
  BY <1>2
<1> QED  BY <1>2, <1>3, <1>4 DEF AstNode, StepsOf

LEMMA EdgeLine ==
    ASSUME NEW h, GraphOK(h), NEW k \in EdgeKey, NEW l, l = Line(h, EdgeItem(k))
    PROVE  /\ l \in EdgeChain /\ l.kind = "chain" /\ l.from = IdOf(k[1]) /\ StepsOf(l) = 1
           /\ l.steps[1].to = IdOf(k[2]) /\ l.steps[1].type = k[3]
           /\ l.steps[1].attrs = h.edgeAttrs[k]
<1>1. EdgeItem(k)[1] # "node" /\ EdgeItem(k)[2] = k
  BY PrintItemFacts
<1>2. PICK s : s = [to |-> IdOf(k[2]), type |-> k[3], attrs |-> h.edgeAttrs[k]]
  OBVIOUS
<1>3. l = [kind |-> "chain", from |-> IdOf(k[1]), steps |-> <<s>>]
  BY <1>1, <1>2 DEF Line
<1>4. IdOf(k[1]) \in Id /\ IdOf(k[2]) \in Id /\ k[3] \in Type
  BY NamedFacts
<1>5. h.edgeAttrs[k] \in Seq(Pair)
  BY DEF GraphOK, Graph
<1>6. s \in EdgeStep
  BY <1>2, <1>4, <1>5 DEF EdgeStep
<1>7. <<s>> \in Seq(EdgeStep) /\ Len(<<s>>) = 1 /\ <<s>>[1] = s
  BY <1>6
<1>8. l \in EdgeChain /\ l.kind = "chain" /\ l.from = IdOf(k[1]) /\ l.steps = <<s>>
  BY <1>3, <1>4, <1>7 DEF EdgeChain
<1>9. StepsOf(l) = 1
  BY <1>7, <1>8 DEF StepsOf
<1> QED  BY <1>2, <1>7, <1>8, <1>9

(* d has the lines of the items L of h.                                      *)
Prints(h, L, d) ==
    /\ GraphOK(h) /\ L \in Seq(PrintItem) /\ IsInjective(L)
    /\ \A x : NodeItem(x) \in ToSet(L) <=> x \in ToSet(h.nodes) /\ ~ Implied(h, x)
    /\ \A k : EdgeItem(k) \in ToSet(L) <=> k \in ToSet(h.edges)
    /\ d = [j \in 1..Len(L) |-> Line(h, L[j])]

LEMMA TextPrints ==
    ASSUME NEW h, GraphOK(h)
    PROVE  Prints(h, InPrintOrder(h), MarshalText(h))
<1>1. PICK L : L = InPrintOrder(h)
  OBVIOUS
<1>2. L \in Seq(PrintItem) /\ IsInjective(L) /\ ToSet(L) = ToSet(Kept(h))
  BY <1>1, InPrintOrderFacts
<1>3. \A x : NodeItem(x) \in ToSet(Kept(h)) <=> x \in ToSet(h.nodes) /\ ~ Implied(h, x)
  BY KeptFacts
<1>4. \A k : EdgeItem(k) \in ToSet(Kept(h)) <=> k \in ToSet(h.edges)
  BY KeptFacts
<1>5. MarshalText(h) = [j \in 1..Len(L) |-> Line(h, L[j])]
  BY <1>1 DEF MarshalText
<1> QED  BY <1>1, <1>2, <1>3, <1>4, <1>5 DEF Prints

(* An item is a node or an edge.                                             *)
NodeAt(h, L, d, j, x) ==
    /\ x \in Id /\ L[j] = NodeItem(x) /\ d[j] = Line(h, NodeItem(x))
EdgeAt(h, L, d, j, k) ==
    /\ k \in EdgeKey /\ L[j] = EdgeItem(k) /\ d[j] = Line(h, EdgeItem(k))

LEMMA LinesAre ==
    ASSUME NEW h, NEW L, NEW d, Prints(h, L, d)
    PROVE  /\ Len(d) = Len(L) /\ Len(L) \in Nat
           /\ \A j \in 1..Len(L) : \/ \E x \in Id : NodeAt(h, L, d, j, x)
                                   \/ \E k \in EdgeKey : EdgeAt(h, L, d, j, k)
<1>1. L \in Seq(PrintItem) /\ d = [j \in 1..Len(L) |-> Line(h, L[j])]
  BY DEF Prints
<1>2. Len(L) \in Nat
  BY <1>1
<1>3. Len(d) = Len(L)
  BY <1>1, <1>2
<1>4. ASSUME NEW j \in 1..Len(L)
      PROVE  \/ \E x \in Id : NodeAt(h, L, d, j, x)
             \/ \E k \in EdgeKey : EdgeAt(h, L, d, j, k)
  <2>1. d[j] = Line(h, L[j]) /\ L[j] \in PrintItem
    BY <1>1
  <2>2. CASE \E x \in Id : L[j] = NodeItem(x)
    BY <2>1, <2>2 DEF NodeAt
  <2>3. CASE \E k \in EdgeKey : L[j] = EdgeItem(k)
    BY <2>1, <2>3 DEF EdgeAt
  <2> QED  BY <2>1, <2>2, <2>3, PrintItemFacts
<1> QED  BY <1>2, <1>3, <1>4

LEMMA NodeAtLine ==
    ASSUME NEW h, NEW L, NEW d, Prints(h, L, d), NEW j \in 1..Len(L),
           NEW x, NodeAt(h, L, d, j, x)
    PROVE  /\ d[j] \in AstNode /\ d[j].kind = "node" /\ StepsOf(d[j]) = 0
           /\ MentionAt(d, j, 0) = [at |-> <<j, 0, 0>>, id |-> x, type |-> h.typ[x],
                                    pos |-> Offset(j, 0), attrs |-> h.attrs[x]]
<1>1. x \in Id /\ GraphOK(h)
  BY DEF NodeAt, Prints
<1>2. PICK l : l = Line(h, NodeItem(x))
  OBVIOUS
<1>3. d[j] = l
  BY <1>2 DEF NodeAt
<1>4. l \in AstNode /\ l.kind = "node" /\ StepsOf(l) = 0
  BY <1>1, <1>2, NodeLine
<1>5. l.id = x /\ l.type = h.typ[x] /\ l.attrs = h.attrs[x]
  BY <1>1, <1>2, NodeLine
<1> QED  BY <1>3, <1>4, <1>5 DEF MentionAt

LEMMA EdgeAtLine ==
    ASSUME NEW h, NEW L, NEW d, Prints(h, L, d), NEW j \in 1..Len(L),
           NEW k, EdgeAt(h, L, d, j, k)
    PROVE  /\ d[j] \in EdgeChain /\ d[j].kind = "chain" /\ StepsOf(d[j]) = 1
           /\ \A n \in 0..1 : MentionAt(d, j, n) =
                  [at |-> <<j, n, 0>>, id |-> Named(k)[n + 1], type |-> Untyped,
                   pos |-> NoPos, attrs |-> << >>]
           /\ StepAt(d, j, 1) = [at |-> <<j, 1, 0>>, key |-> Named(k),
                                 pos |-> Offset(j, 1), attrs |-> h.edgeAttrs[k]]
<1>1. k \in EdgeKey /\ GraphOK(h)
  BY DEF EdgeAt, Prints
<1>2. PICK l : l = Line(h, EdgeItem(k))
  OBVIOUS
<1>3. d[j] = l
  BY <1>2 DEF EdgeAt
<1>4. l \in EdgeChain /\ l.kind = "chain" /\ StepsOf(l) = 1
  BY <1>1, <1>2, EdgeLine
<1>5. l.from = Named(k)[1] /\ l.steps[1].to = Named(k)[2] /\ l.steps[1].type = Named(k)[3]
  BY <1>1, <1>2, EdgeLine, NamedFacts
<1>6. l.steps[1].attrs = h.edgeAttrs[k]
  BY <1>1, <1>2, EdgeLine
<1>7. ASSUME NEW n \in 0..1
      PROVE  MentionAt(d, j, n) = [at |-> <<j, n, 0>>, id |-> Named(k)[n + 1], type |-> Untyped,
                                   pos |-> NoPos, attrs |-> << >>]
  <2>1. (IF n = 0 THEN l.from ELSE l.steps[n].to) = Named(k)[n + 1]
    <3>1. CASE n = 0
      BY <1>5, <3>1
    <3>2. CASE n = 1
      BY <1>5, <3>2
    <3> QED  BY <3>1, <3>2
  <2> QED  BY <1>3, <1>4, <2>1 DEF MentionAt
<1>8. StepAt(d, j, 1) = [at |-> <<j, 1, 0>>, key |-> Named(k),
                         pos |-> Offset(j, 1), attrs |-> h.edgeAttrs[k]]
  <2>1. MentionAt(d, j, 0).id = Named(k)[1]
    BY <1>7
  <2>2. Named(k) = <<Named(k)[1], Named(k)[2], Named(k)[3]>>
    BY <1>1, NamedFacts
  <2>3. 1 - 1 = 0
    OBVIOUS
  <2> QED  BY <1>3, <1>5, <1>6, <2>1, <2>2, <2>3 DEF StepAt
<1> QED  BY <1>3, <1>4, <1>7, <1>8

LEMMA PrintedOK ==
    ASSUME NEW h, NEW L, NEW d, Prints(h, L, d)
    PROVE  DocOK(d)
<1>1. Len(d) = Len(L) /\ Len(L) \in Nat
  BY LinesAre
<1>2. ASSUME NEW j \in 1..Len(L)
      PROVE  d[j] \in AstNode \cup EdgeChain /\ StepsOf(d[j]) < Room
  <2>1. Room \in Nat /\ Room >= 2
    BY BuildAssumption
  <2>2. CASE \E x \in Id : NodeAt(h, L, d, j, x)
    <3>1. d[j] \in AstNode /\ StepsOf(d[j]) = 0
      BY <2>2, NodeAtLine
    <3> QED  BY <2>1, <3>1
  <2>3. CASE \E k \in EdgeKey : EdgeAt(h, L, d, j, k)
    <3>1. d[j] \in EdgeChain /\ StepsOf(d[j]) = 1
      BY <2>3, EdgeAtLine
    <3> QED  BY <2>1, <3>1
  <2> QED  BY <2>2, <2>3, LinesAre
<1>3. d = [j \in 1..Len(L) |-> d[j]]
  BY DEF Prints
<1>4. d \in Seq(AstNode \cup EdgeChain)
  <2>1. d \in [1..Len(L) -> AstNode \cup EdgeChain]
    BY <1>2, <1>3
  <2> QED  BY <1>1, <2>1, MakeSeq
<1> QED  BY <1>1, <1>2, <1>4 DEF DocOK

-----------------------------------------------------------------------------
(* The invariant of the whole life of a graph.                                *)

LEMMA RewriteInv == IInv /\ Rewrite => IInv'
<1> SUFFICES ASSUME IInv, Rewrite PROVE IInv'
  OBVIOUS
<1>1. GraphOK(g)
  BY DEF IInv
<1>2. PICK t : t = MarshalText(g)
  OBVIOUS
<1>3. /\ text' = t /\ written' = g /\ doc' = t /\ item' = 1 /\ step' = 0 /\ source' = NoPos
      /\ g' = EmptyGraph /\ err' = "building" /\ edits' = MaxEdits
  BY <1>2 DEF Rewrite
<1>a. dead' \subseteq Gone
  BY DEF Rewrite
<1>4. DocOK(t)
  BY <1>1, <1>2, TextPrints, PrintedOK
<1>5. Reading(t, 1, 0, NoPos, EmptyGraph)
  BY <1>4, ReadFirst
<1>6. GraphOK(EmptyGraph)
  BY EmptyGraphOK
<1>7. MaxEdits \in 0..MaxEdits
  BY MarshalAssumption
<1>8. Rewritten'
  BY <1>1, <1>2, <1>3 DEF Rewritten
<1>9. Reading(doc', item', step', source', g') /\ GraphOK(g') /\ DocOK(doc')
  BY <1>3, <1>4, <1>5, <1>6
<1>10. edits' \in 0..MaxEdits /\ err' = "building"
  BY <1>3, <1>7
<1> QED  BY <1>8, <1>9, <1>10, <1>a DEF IInv

LEMMA StartInv == MarshalInit => IInv
<1> SUFFICES ASSUME MarshalInit PROVE IInv
  OBVIOUS
<1>1. PICK n \in 0..MaxItems : doc \in [1..n -> Items]
  BY DEF MarshalInit, Init
<1>2. n \in Nat /\ doc \in Seq(AstNode \cup EdgeChain) /\ Len(doc) = n
  <2>1. n \in Nat /\ Items \subseteq AstNode \cup EdgeChain
    BY <1>1, BuildAssumption
  <2>2. doc \in [1..n -> AstNode \cup EdgeChain]
    BY <1>1, <2>1
  <2> QED  BY <2>1, <2>2, MakeSeq
<1>3. ASSUME NEW i \in 1..Len(doc)
      PROVE  StepsOf(doc[i]) < Room
  <2>1. doc[i] \in Items
    BY <1>1, <1>2
  <2>2. CASE doc[i].kind = "node"
    BY <2>2, BuildAssumption DEF StepsOf
  <2>3. CASE doc[i].kind # "node"
    <3>1. doc[i].kind = "chain"
      BY <2>1, <2>3, BuildAssumption DEF AstNode, EdgeChain
    <3> QED  BY <2>1, <3>1, BuildAssumption DEF StepsOf
  <2> QED  BY <2>2, <2>3
<1>4. DocOK(doc)
  BY <1>2, <1>3 DEF DocOK
<1>5. /\ item = 1 /\ step = 0 /\ source = NoPos /\ g = EmptyGraph /\ err = "building"
      /\ edits = 0 /\ text = NoText /\ dead \subseteq Gone
  BY DEF MarshalInit, Init
<1>6. Reading(doc, item, step, source, g)
  BY <1>4, <1>5, ReadFirst
<1>7. GraphOK(g)
  BY <1>5, EmptyGraphOK
<1>8. edits \in 0..MaxEdits
  BY <1>5, MarshalAssumption
<1>9. Rewritten
  BY <1>5 DEF Rewritten
<1> QED  BY <1>4, <1>5, <1>6, <1>7, <1>8, <1>9 DEF IInv

LEMMA NextInv == IInv /\ [Next]_allVars => IInv'
<1> SUFFICES ASSUME IInv, [Next]_allVars PROVE IInv'
  OBVIOUS
<1>1. CASE Step /\ UNCHANGED <<edits, text, written, keptVars>>
  BY <1>1, StepInv DEF Aside
<1>2. CASE Edit
  BY <1>2, EditInv
<1>3. CASE Rewrite
  BY <1>3, RewriteInv
<1>4. CASE UNCHANGED allVars
  BY <1>4 DEF IInv, Rewritten, allVars, vars, keptVars
<1> QED  BY <1>1, <1>2, <1>3, <1>4 DEF Next

(* The inductive invariant: documents and graphs are well formed; while       *)
(* buildFromAst runs, its graph means the part of the document before the     *)
(* loops, which has no fault; what it has returned is the first fault or the  *)
(* graph meant; and edits move no position.                                   *)
THEOREM Invariant == MarshalSpec => []IInv
<1>1. MarshalInit => IInv
  BY StartInv
<1>2. IInv /\ [Next]_allVars => IInv'
  BY NextInv
<1> QED  BY <1>1, <1>2, PTL DEF MarshalSpec

(* The graph that buildFromAst returns, for the document first parsed and for *)
(* every text that MarshalText wrote, is the graph that the document means:   *)
(* nodes and edges in the order of their first mentions, with the types,      *)
(* positions and merged attributes that the document as a whole gives them.   *)
THEOREM GraphAsMeantHolds == MarshalSpec => []GraphAsMeant
<1>1. IInv => GraphAsMeant
  BY DEF IInv, GraphAsMeant, NodesMerged, EdgesMerged, Meant
<1> QED  BY <1>1, Invariant, PTL

(* buildFromAst refuses a document exactly when it has a fault, with the      *)
(* error of the fault that comes first in the text.                           *)
THEOREM FirstFaultHolds == MarshalSpec => []FirstFault
<1>1. IInv => FirstFault
  BY DEF IInv, FirstFault, ErrOf, DocFaults
<1> QED  BY <1>1, Invariant, PTL

-----------------------------------------------------------------------------
(* What a written text means.                                                *)

(* Assignments leave one list of attributes.                                  *)
LEMMA MergedOnce ==
    ASSUME NEW A, Placed(A), NEW P \in Seq(Pair), NEW Q \in Seq(Pair),
           AttrsMerged(P, A), AttrsMerged(Q, A)
    PROVE  P = Q
<1>1. \A x \in {a.key : a \in A} : [y \in {a.key : a \in A} |-> Least(OfKey(A, y)).at][x] \in TextPlace
  <2> SUFFICES ASSUME NEW x \in {a.key : a \in A}
               PROVE  Least(OfKey(A, x)).at \in TextPlace
    OBVIOUS
  <2>1. Placed(OfKey(A, x)) /\ OfKey(A, x) # {}
    BY PlacedSubset DEF OfKey
  <2>2. Least(OfKey(A, x)) \in A
    BY <2>1, LeastFacts DEF OfKey
  <2> QED  BY <2>2 DEF Placed
<1>2. PICK K, place : K = {a.key : a \in A} /\ place = [y \in K |-> Least(OfKey(A, y)).at]
  OBVIOUS
<1>3. \A x \in K : place[x] \in TextPlace
  BY <1>1, <1>2
<1>4. InOrder(KeyList(P), K, place) /\ InOrder(KeyList(Q), K, place)
  BY <1>2 DEF AttrsMerged
<1>5. /\ KeyList(P) \in Seq(Key) /\ Len(KeyList(P)) = Len(P)
      /\ KeyList(Q) \in Seq(Key) /\ Len(KeyList(Q)) = Len(Q)
  BY KeyListFacts
<1>6. KeyList(P) = KeyList(Q)
  BY <1>3, <1>4, <1>5, InOrderUnique
<1>7. Len(P) = Len(Q)
  BY <1>5, <1>6
<1>8. ASSUME NEW i \in 1..Len(P)
      PROVE  P[i] = Q[i]
  <2>1. KeyList(P)[i] = P[i].key /\ KeyList(Q)[i] = Q[i].key
    BY <1>7, KeyListFacts
  <2>2. P[i].key = Q[i].key
    BY <1>6, <2>1
  <2>3. P[i].value = Q[i].value
    BY <1>7, <2>2 DEF AttrsMerged
  <2>4. P[i] = [key |-> P[i].key, value |-> P[i].value]
    BY PairFacts
  <2>5. Q[i] = [key |-> Q[i].key, value |-> Q[i].value]
    BY <1>7, PairFacts
  <2> QED  BY <2>2, <2>3, <2>4, <2>5
<1> QED  BY <1>7, <1>8

(* A list with each key once merges to itself.                                *)
LEMMA PlainMerged ==
    ASSUME NEW m, Annotated({m}), DistinctKeys(m.attrs)
    PROVE  AttrsMerged(m.attrs, Assignments({m}))
<1> DEFINE A == Assignments({m})
<1>1. m.at \in TextPlace /\ m.at[3] = 0 /\ m.attrs \in Seq(Pair)
  BY DEF Annotated, Placed
<1>2. PICK P : P = m.attrs
  OBVIOUS
<1>3. P \in Seq(Pair) /\ DistinctKeys(P) /\ Len(P) \in Nat
  BY <1>1, <1>2
<1>4. ASSUME NEW n \in 1..Len(P)
      PROVE  /\ AssignmentAt(m, n).at = <<m.at[1], m.at[2], n>>
             /\ AssignmentAt(m, n).key = P[n].key
             /\ AssignmentAt(m, n).value = P[n].value
  BY <1>1, <1>2, AssignmentFacts
<1>5. \A a : a \in A <=> \E n \in 1..Len(P) : a = AssignmentAt(m, n)
  BY <1>2 DEF Assignments
<1>6. Placed(A)
  BY AssignmentsPlaced
<1> HIDE DEF A
<1>7. ASSUME NEW n \in 1..Len(P)
      PROVE  /\ Least(OfKey(A, P[n].key)).at = <<m.at[1], m.at[2], n>>
             /\ Greatest(OfKey(A, P[n].key)).value = P[n].value
  <2>1. PICK a : a = AssignmentAt(m, n)
    OBVIOUS
  <2>2. a \in A /\ a.key = P[n].key
    BY <1>4, <1>5, <2>1
  <2>3. ASSUME NEW b \in A, b.key = P[n].key
        PROVE  b = a
    <3>1. PICK k \in 1..Len(P) : b = AssignmentAt(m, k)
      BY <1>5
    <3>2. P[k].key = P[n].key
      BY <1>4, <2>3, <3>1
    <3>3. k = n
      BY <1>3, <3>2 DEF DistinctKeys
    <3> QED  BY <2>1, <3>1, <3>3
  <2>4. OfKey(A, P[n].key) = {a}
    BY <2>2, <2>3 DEF OfKey
  <2>5. Placed({a})
    BY <1>6, <2>2, PlacedSubset
  <2>6. Least({a}) = a
    BY <2>5, LeastOfOne
  <2>7. Greatest({a}) = a
    <3>1. ~ Earlier(a.at, a.at)
      BY <2>5, EarlierOrder DEF Placed
    <3> QED  BY <2>5, <3>1, GreatestIs
  <2> QED  BY <1>4, <2>1, <2>4, <2>6, <2>7
<1>8. PICK K, place : K = {a.key : a \in A} /\ place = [x \in K |-> Least(OfKey(A, x)).at]
  OBVIOUS
<1>9. /\ KeyList(P) \in Seq(Key) /\ Len(KeyList(P)) = Len(P)
      /\ \A i \in 1..Len(P) : KeyList(P)[i] = P[i].key
      /\ ToSet(KeyList(P)) = {P[i].key : i \in 1..Len(P)}
  BY <1>3, KeyListFacts
<1>10. {P[i].key : i \in 1..Len(P)} = K
  <2>1. ASSUME NEW i \in 1..Len(P)
        PROVE  P[i].key \in K
    BY <1>4, <1>5, <1>8
  <2>2. ASSUME NEW x \in K
        PROVE  \E i \in 1..Len(P) : P[i].key = x
    BY <1>4, <1>5, <1>8
  <2> QED  BY <2>1, <2>2
<1>11. ASSUME NEW i \in 1..Len(P), NEW j \in 1..Len(P), i < j
       PROVE  Earlier(place[P[i].key], place[P[j].key])
  <2>1. P[i].key \in K /\ P[j].key \in K
    BY <1>10
  <2>2. /\ place[P[i].key] = <<m.at[1], m.at[2], i>>
        /\ place[P[j].key] = <<m.at[1], m.at[2], j>>
    BY <1>7, <1>8, <2>1
  <2> QED  BY <1>11, <2>2 DEF Earlier
<1>12. InOrder(KeyList(P), K, place)
  <2>1. ToSet(KeyList(P)) = K
    BY <1>9, <1>10
  <2>2. \A i, j \in 1..Len(KeyList(P)) :
            i < j => Earlier(place[KeyList(P)[i]], place[KeyList(P)[j]])
    BY <1>9, <1>11
  <2> QED  BY <2>1, <2>2 DEF InOrder
<1>13. \A j \in 1..Len(P) : P[j].value = Greatest(OfKey(A, P[j].key)).value
  BY <1>7
<1>14. AttrsMerged(P, A)
  BY <1>8, <1>12, <1>13 DEF AttrsMerged
<1> QED  BY <1>2, <1>14 DEF A

(* Mentions that say nothing.                                                *)
Bare(n) == n.type = Untyped /\ n.pos = NoPos /\ n.attrs = << >>

LEMMA BareMentions ==
    ASSUME NEW M, \A n \in M : Bare(n)
    PROVE  /\ Typed(M) = {} /\ TypeOf(M) = Untyped /\ DeclPos(M) = NoPos
           /\ Assignments(M) = {}
<1>1. Typed(M) = {} /\ Declared(M) = {}
  BY DEF Bare, Typed, Declared
<1>2. Assignments(M) = {}
  BY DEF Bare, Assignments
<1> QED  BY <1>1, <1>2 DEF TypeOf, DeclPos

LEMMA OneMention ==
    ASSUME NEW M, NEW m \in M, \A n \in M : n = m \/ Bare(n), Placed(M), m.pos # NoPos
    PROVE  /\ Typed(M) = IF m.type = Untyped THEN {} ELSE {m}
           /\ TypeOf(M) = m.type /\ DeclPos(M) = m.pos
           /\ Assignments(M) = Assignments({m})
<1>1. Typed(M) = IF m.type = Untyped THEN {} ELSE {m}
  BY DEF Bare, Typed
<1>2. Declared(M) = {m}
  BY DEF Bare, Declared
<1>3. Least({m}) = m
  <2>1. Placed({m})
    BY PlacedSubset
  <2> QED  BY <2>1, LeastOfOne
<1>4. TypeOf(M) = m.type
  <2>1. CASE m.type = Untyped
    BY <1>1, <2>1 DEF TypeOf
  <2>2. CASE m.type # Untyped
    <3>1. Typed(M) = {m}
      BY <1>1, <2>2
    <3> QED  BY <1>3, <3>1 DEF TypeOf
  <2> QED  BY <2>1, <2>2
<1>5. DeclPos(M) = m.pos
  BY <1>2, <1>3 DEF DeclPos
<1>6. Assignments(M) = Assignments({m})
  <2>1. ASSUME NEW a
        PROVE  a \in Assignments(M) <=> \E n \in M : \E i \in 1..Len(n.attrs) : a = AssignmentAt(n, i)
    BY DEF Assignments
  <2>2. ASSUME NEW a
        PROVE  a \in Assignments({m}) <=> \E i \in 1..Len(m.attrs) : a = AssignmentAt(m, i)
    BY DEF Assignments
  <2>3. ASSUME NEW n \in M, NEW i \in 1..Len(n.attrs)
        PROVE  n = m
    <3>1. CASE Bare(n)
      <4>1. Len(<< >>) = 0
        OBVIOUS
      <4> QED  BY <3>1, <4>1, <2>3 DEF Bare
    <3> QED  BY <3>1
  <2> QED  BY <2>1, <2>2, <2>3
<1> QED  BY <1>1, <1>4, <1>5, <1>6

(* What a text mentions.                                                     *)
LEMMA PrintedMentions ==
    ASSUME NEW h, NEW L, NEW d, Prints(h, L, d), NEW m
    PROVE  m \in Mentions(d) <=>
               \E j \in 1..Len(L) :
                  \/ \E x : NodeAt(h, L, d, j, x) /\ m = MentionAt(d, j, 0)
                  \/ \E k : EdgeAt(h, L, d, j, k) /\ \E n \in 0..1 : m = MentionAt(d, j, n)
<1>1. Len(d) = Len(L) /\ DocOK(d)
  BY LinesAre, PrintedOK
<1>2. ASSUME m \in Mentions(d)
      PROVE  \E j \in 1..Len(L) :
                \/ \E x : NodeAt(h, L, d, j, x) /\ m = MentionAt(d, j, 0)
                \/ \E k : EdgeAt(h, L, d, j, k) /\ \E n \in 0..1 : m = MentionAt(d, j, n)
  <2>1. PICK j \in 1..Len(d) : \E n \in 0..StepsOf(d[j]) : m = MentionAt(d, j, n)
    BY <1>2, MentionsAre
  <2>2. PICK n \in 0..StepsOf(d[j]) : m = MentionAt(d, j, n)
    BY <2>1
  <2>3. j \in 1..Len(L)
    BY <1>1, <2>1
  <2>4. CASE \E x \in Id : NodeAt(h, L, d, j, x)
    <3>1. PICK x \in Id : NodeAt(h, L, d, j, x)
      BY <2>4
    <3>2. StepsOf(d[j]) = 0
      BY <2>3, <3>1, NodeAtLine
    <3>3. n = 0
      BY <2>2, <3>2
    <3> QED  BY <2>2, <2>3, <3>1, <3>3
  <2>5. CASE \E k \in EdgeKey : EdgeAt(h, L, d, j, k)
    <3>1. PICK k \in EdgeKey : EdgeAt(h, L, d, j, k)
      BY <2>5
    <3>2. StepsOf(d[j]) = 1
      BY <2>3, <3>1, EdgeAtLine
    <3>3. n \in 0..1
      BY <2>2, <3>2
    <3> QED  BY <2>2, <2>3, <3>1, <3>3
  <2> QED  BY <2>3, <2>4, <2>5, LinesAre
<1>3. ASSUME NEW j \in 1..Len(L), NEW x, NodeAt(h, L, d, j, x)
      PROVE  MentionAt(d, j, 0) \in Mentions(d)
  <2>1. StepsOf(d[j]) = 0
    BY <1>3, NodeAtLine
  <2>2. j \in 1..Len(d) /\ 0 \in 0..StepsOf(d[j])
    BY <1>1, <2>1
  <2> QED  BY <2>2, MentionsAre
<1>4. ASSUME NEW j \in 1..Len(L), NEW k, EdgeAt(h, L, d, j, k), NEW n \in 0..1
      PROVE  MentionAt(d, j, n) \in Mentions(d)
  <2>1. StepsOf(d[j]) = 1
    BY <1>4, EdgeAtLine
  <2>2. j \in 1..Len(d) /\ n \in 0..StepsOf(d[j])
    BY <1>1, <2>1
  <2> QED  BY <2>2, MentionsAre
<1> QED  BY <1>2, <1>3, <1>4

LEMMA PrintedSteps ==
    ASSUME NEW h, NEW L, NEW d, Prints(h, L, d), NEW s
    PROVE  s \in Steps(d) <=>
               \E j \in 1..Len(L) : \E k : EdgeAt(h, L, d, j, k) /\ s = StepAt(d, j, 1)
<1>1. Len(d) = Len(L) /\ DocOK(d)
  BY LinesAre, PrintedOK
<1>2. ASSUME s \in Steps(d)
      PROVE  \E j \in 1..Len(L) : \E k : EdgeAt(h, L, d, j, k) /\ s = StepAt(d, j, 1)
  <2>1. PICK j \in 1..Len(d) : \E n \in 1..StepsOf(d[j]) : s = StepAt(d, j, n)
    BY <1>2, MentionsAre
  <2>2. PICK n \in 1..StepsOf(d[j]) : s = StepAt(d, j, n)
    BY <2>1
  <2>3. j \in 1..Len(L)
    BY <1>1, <2>1
  <2>4. CASE \E x \in Id : NodeAt(h, L, d, j, x)
    <3>1. StepsOf(d[j]) = 0
      BY <2>3, <2>4, NodeAtLine
    <3> QED  BY <2>2, <3>1
  <2>5. CASE \E k \in EdgeKey : EdgeAt(h, L, d, j, k)
    <3>1. PICK k \in EdgeKey : EdgeAt(h, L, d, j, k)
      BY <2>5
    <3>2. StepsOf(d[j]) = 1
      BY <2>3, <3>1, EdgeAtLine
    <3>3. n = 1
      BY <2>2, <3>2
    <3> QED  BY <2>2, <2>3, <3>1, <3>3
  <2> QED  BY <2>3, <2>4, <2>5, LinesAre
<1>3. ASSUME NEW j \in 1..Len(L), NEW k, EdgeAt(h, L, d, j, k)
      PROVE  StepAt(d, j, 1) \in Steps(d)
  <2>1. StepsOf(d[j]) = 1
    BY <1>3, EdgeAtLine
  <2>2. j \in 1..Len(d) /\ 1 \in 1..StepsOf(d[j])
    BY <1>1, <2>1
  <2> QED  BY <2>2, MentionsAre
<1> QED  BY <1>2, <1>3

(* An item has one line.                                                      *)
LEMMA NodeLineAt ==
    ASSUME NEW h, NEW L, NEW d, Prints(h, L, d), NEW x \in Id
    PROVE  /\ NodeItem(x) \in ToSet(L) <=> \E j \in 1..Len(L) : NodeAt(h, L, d, j, x)
           /\ \A i, j \in 1..Len(L) :
                 NodeAt(h, L, d, i, x) /\ NodeAt(h, L, d, j, x) => i = j
<1>1. /\ L \in Seq(PrintItem) /\ IsInjective(L) /\ d = [j \in 1..Len(L) |-> Line(h, L[j])]
  BY DEF Prints
<1>2. ASSUME NEW j \in 1..Len(L), L[j] = NodeItem(x)
      PROVE  NodeAt(h, L, d, j, x)
  BY <1>1, <1>2 DEF NodeAt
<1>3. \A j \in 1..Len(L) : NodeAt(h, L, d, j, x) => L[j] = NodeItem(x)
  BY DEF NodeAt
<1>4. NodeItem(x) \in ToSet(L) <=> \E j \in 1..Len(L) : L[j] = NodeItem(x)
  BY <1>1, ToSetOfSeq
<1>5. \A i, j \in 1..Len(L) : L[i] = L[j] => i = j
  BY <1>1, InjectiveSeq
<1> QED  BY <1>2, <1>3, <1>4, <1>5

LEMMA EdgeLineAt ==
    ASSUME NEW h, NEW L, NEW d, Prints(h, L, d), NEW k \in EdgeKey
    PROVE  /\ EdgeItem(k) \in ToSet(L) <=> \E j \in 1..Len(L) : EdgeAt(h, L, d, j, k)
           /\ \A i, j \in 1..Len(L) :
                 EdgeAt(h, L, d, i, k) /\ EdgeAt(h, L, d, j, k) => i = j
<1>1. /\ L \in Seq(PrintItem) /\ IsInjective(L) /\ d = [j \in 1..Len(L) |-> Line(h, L[j])]
  BY DEF Prints
<1>2. ASSUME NEW j \in 1..Len(L), L[j] = EdgeItem(k)
      PROVE  EdgeAt(h, L, d, j, k)
  BY <1>1, <1>2 DEF EdgeAt
<1>3. \A j \in 1..Len(L) : EdgeAt(h, L, d, j, k) => L[j] = EdgeItem(k)
  BY DEF EdgeAt
<1>4. EdgeItem(k) \in ToSet(L) <=> \E j \in 1..Len(L) : L[j] = EdgeItem(k)
  BY <1>1, ToSetOfSeq
<1>5. \A i, j \in 1..Len(L) : L[i] = L[j] => i = j
  BY <1>1, InjectiveSeq
<1> QED  BY <1>2, <1>3, <1>4, <1>5

LEMMA PrintedNode ==
    ASSUME NEW h, NEW L, NEW d, Prints(h, L, d), NEW x \in Id,
           NEW M, M = OfNode(Mentions(d), x)
    PROVE  /\ TypeOf(M) = h.typ[x] /\ AttrsMerged(h.attrs[x], Assignments(M))
           /\ \A m \in Typed(M) : m.type = h.typ[x]
           /\ NodeItem(x) \notin ToSet(L) => DeclPos(M) = NoPos
           /\ \A j \in 1..Len(L) : NodeAt(h, L, d, j, x) => DeclPos(M) = Offset(j, 0)
<1>1. ASSUME NEW m \in M
      PROVE  \/ \E j \in 1..Len(L) : NodeAt(h, L, d, j, x) /\ m = MentionAt(d, j, 0)
             \/ Bare(m)
  <2>1. m \in Mentions(d) /\ m.id = x
    BY DEF OfNode
  <2>2. PICK j \in 1..Len(L) :
            \/ \E y : NodeAt(h, L, d, j, y) /\ m = MentionAt(d, j, 0)
            \/ \E k : EdgeAt(h, L, d, j, k) /\ \E n \in 0..1 : m = MentionAt(d, j, n)
    BY <2>1, PrintedMentions
  <2>3. CASE \E y : NodeAt(h, L, d, j, y) /\ m = MentionAt(d, j, 0)
    <3>1. PICK y : NodeAt(h, L, d, j, y) /\ m = MentionAt(d, j, 0)
      BY <2>3
    <3>2. MentionAt(d, j, 0).id = y
      BY <2>2, <3>1, NodeAtLine
    <3> QED  BY <2>1, <2>2, <3>1, <3>2
  <2>4. CASE \E k : EdgeAt(h, L, d, j, k) /\ \E n \in 0..1 : m = MentionAt(d, j, n)
    <3>1. PICK k : EdgeAt(h, L, d, j, k) /\ \E n \in 0..1 : m = MentionAt(d, j, n)
      BY <2>4
    <3>2. PICK n \in 0..1 : m = MentionAt(d, j, n)
      BY <3>1
    <3>3. m = [at |-> <<j, n, 0>>, id |-> Named(k)[n + 1], type |-> Untyped,
               pos |-> NoPos, attrs |-> << >>]
      BY <2>2, <3>1, <3>2, EdgeAtLine
    <3> QED  BY <3>3 DEF Bare
  <2> QED  BY <2>2, <2>3, <2>4
<1>2. Placed(M)
  <2>1. Marked(Mentions(d))
    BY PrintedOK, DocMarked
  <2> QED  BY <2>1, PlacedSubset DEF Marked, OfNode
<1>3. GraphOK(h) /\ NoPos \notin Nat
  BY BuildAssumption DEF Prints
<1>4. CASE NodeItem(x) \in ToSet(L)
  <2>1. PICK j \in 1..Len(L) : NodeAt(h, L, d, j, x)
    BY <1>4, NodeLineAt
  <2>2. PICK m : m = MentionAt(d, j, 0)
    OBVIOUS
  <2>3. /\ m.id = x /\ m.type = h.typ[x] /\ m.pos = Offset(j, 0) /\ m.attrs = h.attrs[x]
        /\ m.at = <<j, 0, 0>>
    BY <2>1, <2>2, NodeAtLine
  <2>4. m \in M
    <3>1. m \in Mentions(d)
      BY <2>1, <2>2, PrintedMentions
    <3> QED  BY <2>3, <3>1 DEF OfNode
  <2>5. \A n \in M : n = m \/ Bare(n)
    BY <1>1, <2>1, <2>2, NodeLineAt
  <2>6. m.pos # NoPos
    <3>1. j \in Nat
      BY <2>1
    <3>2. Offset(j, 0) \in Nat
      BY <3>1, OffsetOrder
    <3> QED  BY <1>3, <2>3, <3>2
  <2>7. /\ Typed(M) = IF m.type = Untyped THEN {} ELSE {m}
        /\ TypeOf(M) = m.type /\ DeclPos(M) = m.pos
        /\ Assignments(M) = Assignments({m})
    BY <1>2, <2>4, <2>5, <2>6, OneMention
  <2>8. AttrsMerged(m.attrs, Assignments({m}))
    <3>1. Placed({m})
      BY <1>2, <2>4, PlacedSubset
    <3>2. Plain(m.attrs)
      BY <1>3, <2>3 DEF GraphOK, NodesOK
    <3>3. m.at[3] = 0
      BY <2>3
    <3>4. Annotated({m}) /\ DistinctKeys(m.attrs)
      BY <3>1, <3>2, <3>3 DEF Annotated, Plain
    <3> QED  BY <3>4, PlainMerged
  <2>9. \A i \in 1..Len(L) : NodeAt(h, L, d, i, x) => i = j
    BY <2>1, NodeLineAt
  <2>10. \A n \in Typed(M) : n.type = h.typ[x]
    BY <2>3, <2>7
  <2> QED  BY <1>4, <2>3, <2>7, <2>8, <2>9, <2>10
<1>5. CASE NodeItem(x) \notin ToSet(L)
  <2>1. \A j \in 1..Len(L) : ~ NodeAt(h, L, d, j, x)
    BY <1>5, NodeLineAt
  <2>2. \A m \in M : Bare(m)
    BY <1>1, <2>1
  <2>3. /\ Typed(M) = {} /\ TypeOf(M) = Untyped /\ DeclPos(M) = NoPos
        /\ Assignments(M) = {}
    BY <2>2, BareMentions
  <2>4. h.typ[x] = Untyped /\ h.attrs[x] = << >>
    <3>1. x \notin ToSet(h.nodes) \/ Implied(h, x)
      BY <1>5 DEF Prints
    <3> QED  BY <1>3, <3>1 DEF GraphOK, NodesOK, HasNode, Implied
  <2> QED  BY <2>1, <2>3, <2>4, NothingMerged
<1> QED  BY <1>4, <1>5

(* Its steps are the edges of the graph, by the ids of their ends.            *)
LEMMA PrintedKeys ==
    ASSUME NEW h, NEW L, NEW d, Prints(h, L, d), NEW s
    PROVE  s \in Steps(d) <=>
               \E k \in ToSet(h.edges) :
                  \E j \in 1..Len(L) : EdgeAt(h, L, d, j, k) /\ s = StepAt(d, j, 1)
<1>1. ASSUME NEW j \in 1..Len(L), NEW k, EdgeAt(h, L, d, j, k)
      PROVE  k \in ToSet(h.edges)
  <2>1. k \in EdgeKey
    BY <1>1 DEF EdgeAt
  <2>2. EdgeItem(k) \in ToSet(L)
    BY <1>1, <2>1, EdgeLineAt
  <2> QED  BY <2>2 DEF Prints
<1> QED  BY <1>1, PrintedSteps

EdgesNamed(h) == {Named(k) : k \in ToSet(h.edges)}

LEMMA PrintedEdges ==
    ASSUME NEW h, NEW L, NEW d, Prints(h, L, d)
    PROVE  {s.key : s \in Steps(d)} = EdgesNamed(h)
<1>1. ASSUME NEW k \in ToSet(h.edges)
      PROVE  \E j \in 1..Len(L) : EdgeAt(h, L, d, j, k)
  <2>1. k \in EdgeKey
    BY ToSetOfSeq DEF Prints, GraphOK, Graph
  <2>2. EdgeItem(k) \in ToSet(L)
    BY DEF Prints
  <2> QED  BY <2>1, <2>2, EdgeLineAt
<1>2. \A k : \A j \in 1..Len(L) : EdgeAt(h, L, d, j, k) => StepAt(d, j, 1).key = Named(k)
  BY EdgeAtLine
<1>3. ASSUME NEW s \in Steps(d)
      PROVE  s.key \in EdgesNamed(h)
  BY <1>2, PrintedKeys DEF EdgesNamed
<1>4. ASSUME NEW k \in ToSet(h.edges)
      PROVE  \E s \in Steps(d) : s.key = Named(k)
  BY <1>1, <1>2, PrintedKeys
<1> QED  BY <1>3, <1>4 DEF EdgesNamed

LEMMA PrintedEdge ==
    ASSUME NEW h, NEW L, NEW d, Prints(h, L, d), NEW k \in ToSet(h.edges), ~ Clash(h, k),
           NEW S, S = OfEdge(Steps(d), Named(k))
    PROVE  /\ AttrsMerged(h.edgeAttrs[k], Assignments(S))
           /\ \A j \in 1..Len(L) : EdgeAt(h, L, d, j, k) => Least(S).pos = Offset(j, 1)
<1>1. GraphOK(h) /\ k \in EdgeKey
  BY ToSetOfSeq DEF Prints, GraphOK, Graph
<1>2. ASSUME NEW s \in S
      PROVE  \E j \in 1..Len(L) : EdgeAt(h, L, d, j, k) /\ s = StepAt(d, j, 1)
  <2>1. s \in Steps(d) /\ s.key = Named(k)
    BY DEF OfEdge
  <2>2. PICK q \in ToSet(h.edges) :
            \E j \in 1..Len(L) : EdgeAt(h, L, d, j, q) /\ s = StepAt(d, j, 1)
    BY <2>1, PrintedKeys
  <2>3. PICK j \in 1..Len(L) : EdgeAt(h, L, d, j, q) /\ s = StepAt(d, j, 1)
    BY <2>2
  <2>4. StepAt(d, j, 1).key = Named(q)
    BY <2>3, EdgeAtLine
  <2>5. q = k
    BY <2>1, <2>3, <2>4 DEF Clash
  <2> QED  BY <2>3, <2>5
<1>3. Placed(S) /\ Annotated(S)
  <2>1. MarkedSteps(Steps(d))
    BY PrintedOK, DocMarked
  <2>2. MarkedSteps(S)
    BY <2>1, PlacedSubset DEF MarkedSteps, OfEdge
  <2> QED  BY <2>2, MarkedAnnotated DEF MarkedSteps
<1>4. PICK j \in 1..Len(L) : EdgeAt(h, L, d, j, k)
  <2>1. EdgeItem(k) \in ToSet(L)
    BY DEF Prints
  <2> QED  BY <1>1, <2>1, EdgeLineAt
<1>5. PICK s : s = StepAt(d, j, 1)
  OBVIOUS
<1>6. s.key = Named(k) /\ s.pos = Offset(j, 1) /\ s.attrs = h.edgeAttrs[k]
  BY <1>4, <1>5, EdgeAtLine
<1>7. s \in S
  <2>1. s \in Steps(d)
    BY <1>4, <1>5, PrintedSteps
  <2> QED  BY <1>6, <2>1 DEF OfEdge
<1>8. S = {s}
  BY <1>1, <1>2, <1>4, <1>5, <1>7, EdgeLineAt
<1>9. Least(S) = s
  BY <1>3, <1>8, LeastOfOne
<1>10. AttrsMerged(s.attrs, Assignments(S))
  <2>1. Plain(s.attrs)
    BY <1>1, <1>6 DEF GraphOK, EdgesOK
  <2> QED  BY <1>3, <1>8, <2>1, PlainMerged DEF Plain
<1>11. \A i \in 1..Len(L) : EdgeAt(h, L, d, i, k) => i = j
  BY <1>1, <1>4, EdgeLineAt
<1> QED  BY <1>6, <1>9, <1>10, <1>11

(* The ids that edges are written with.                                       *)
IdsNamed(h) == UNION {{IdOf(k[1]), IdOf(k[2])} : k \in ToSet(h.edges)}

LEMMA PrintedIds ==
    ASSUME NEW h, NEW L, NEW d, Prints(h, L, d)
    PROVE  {m.id : m \in Mentions(d)} = ToSet(h.nodes) \cup IdsNamed(h)
<1>1. GraphOK(h) /\ h.nodes \in Seq(Id) /\ h.edges \in Seq(EdgeKey)
  BY DEF Prints, GraphOK, Graph
<1>2. /\ \A x : NodeItem(x) \in ToSet(L) <=> x \in ToSet(h.nodes) /\ ~ Implied(h, x)
      /\ \A k : EdgeItem(k) \in ToSet(L) <=> k \in ToSet(h.edges)
  BY DEF Prints
<1>3. ASSUME NEW m \in Mentions(d)
      PROVE  m.id \in ToSet(h.nodes) \cup IdsNamed(h)
  <2>1. PICK j \in 1..Len(L) :
            \/ \E y : NodeAt(h, L, d, j, y) /\ m = MentionAt(d, j, 0)
            \/ \E k : EdgeAt(h, L, d, j, k) /\ \E n \in 0..1 : m = MentionAt(d, j, n)
    BY PrintedMentions
  <2>2. CASE \E y : NodeAt(h, L, d, j, y) /\ m = MentionAt(d, j, 0)
    <3>1. PICK y : NodeAt(h, L, d, j, y) /\ m = MentionAt(d, j, 0)
      BY <2>2
    <3>2. MentionAt(d, j, 0).id = y
      BY <2>1, <3>1, NodeAtLine
    <3>3. y \in Id
      BY <3>1 DEF NodeAt
    <3>4. NodeItem(y) \in ToSet(L)
      BY <2>1, <3>1, <3>3, NodeLineAt
    <3> QED  BY <1>2, <3>1, <3>2, <3>4
  <2>3. CASE \E k : EdgeAt(h, L, d, j, k) /\ \E n \in 0..1 : m = MentionAt(d, j, n)
    <3>1. PICK k : EdgeAt(h, L, d, j, k) /\ \E n \in 0..1 : m = MentionAt(d, j, n)
      BY <2>3
    <3>2. PICK n \in 0..1 : m = MentionAt(d, j, n)
      BY <3>1
    <3>3. m = [at |-> <<j, n, 0>>, id |-> Named(k)[n + 1], type |-> Untyped,
               pos |-> NoPos, attrs |-> << >>]
      BY <2>1, <3>1, <3>2, EdgeAtLine
    <3>4. k \in EdgeKey
      BY <3>1 DEF EdgeAt
    <3>5. EdgeItem(k) \in ToSet(L)
      BY <2>1, <3>1, <3>4, EdgeLineAt
    <3>6. k \in ToSet(h.edges)
      BY <1>2, <3>5
    <3>7. Named(k)[n + 1] \in {IdOf(k[1]), IdOf(k[2])}
      BY <3>2, <3>4, NamedFacts
    <3> QED  BY <3>3, <3>6, <3>7 DEF IdsNamed
  <2> QED  BY <2>1, <2>2, <2>3
<1>5. ASSUME NEW x \in IdsNamed(h)
      PROVE  \E m \in Mentions(d) : m.id = x
  <2>1. PICK k \in ToSet(h.edges) : x \in {IdOf(k[1]), IdOf(k[2])}
    BY DEF IdsNamed
  <2>2. k \in EdgeKey
    BY <1>1, <2>1, ToSetOfSeq
  <2>3. EdgeItem(k) \in ToSet(L)
    BY <1>2, <2>1
  <2>4. PICK j \in 1..Len(L) : EdgeAt(h, L, d, j, k)
    BY <2>2, <2>3, EdgeLineAt
  <2>5. PICK n \in 0..1 : x = Named(k)[n + 1]
    <3>1. 0 + 1 = 1 /\ 1 + 1 = 2 /\ 0 \in 0..1 /\ 1 \in 0..1
      OBVIOUS
    <3> QED  BY <2>1, <2>2, <3>1, NamedFacts
  <2>6. MentionAt(d, j, n).id = x
    BY <2>4, <2>5, EdgeAtLine
  <2>7. MentionAt(d, j, n) \in Mentions(d)
    BY <2>4, <2>5, PrintedMentions
  <2> QED  BY <2>6, <2>7
<1>4. ASSUME NEW x \in ToSet(h.nodes)
      PROVE  \E m \in Mentions(d) : m.id = x
  <2>1. x \in Id
    BY <1>1, ToSetOfSeq
  <2>2. CASE ~ Implied(h, x)
    <3>1. NodeItem(x) \in ToSet(L)
      BY <1>2, <2>2
    <3>2. PICK j \in 1..Len(L) : NodeAt(h, L, d, j, x)
      BY <2>1, <3>1, NodeLineAt
    <3>3. MentionAt(d, j, 0).id = x
      BY <3>2, NodeAtLine
    <3>4. MentionAt(d, j, 0) \in Mentions(d)
      BY <3>2, PrintedMentions
    <3> QED  BY <3>3, <3>4
  <2>3. CASE Implied(h, x)
    <3>1. PICK k \in ToSet(h.edges) : x \in {k[1], k[2]}
      BY <2>3 DEF Implied, Linked
    <3>2. x \in {IdOf(k[1]), IdOf(k[2])}
      BY <2>1, <3>1 DEF IdOf
    <3> QED  BY <1>5, <3>1, <3>2 DEF IdsNamed
  <2> QED  BY <2>2, <2>3
<1>6. ASSUME NEW x \in IdsNamed(h)
      PROVE  \E m \in Mentions(d) : m.id = x
  BY <1>5
<1> QED  BY <1>3, <1>4, <1>6

(* A written text is refused only for an edge between nodes with the same id.  *)
LEMMA PrintedFaults ==
    ASSUME NEW h, NEW L, NEW d, Prints(h, L, d)
    PROVE  ErrOf(d) = IF LoopByName(h) THEN "ErrLoop" ELSE "nil"
<1>1. GraphOK(h) /\ DocOK(d)
  BY PrintedOK DEF Prints
<1>2. ASSUME NEW m \in Mentions(d)
      PROVE  /\ ~ NamesType(m.attrs)
             /\ m.id \in Id
  <2>1. m.id \in Id
    BY <1>1, DocMarked DEF Marked, MentionOK
  <2>2. PICK j \in 1..Len(L) :
            \/ \E y : NodeAt(h, L, d, j, y) /\ m = MentionAt(d, j, 0)
            \/ \E k : EdgeAt(h, L, d, j, k) /\ \E n \in 0..1 : m = MentionAt(d, j, n)
    BY PrintedMentions
  <2>3. CASE \E y : NodeAt(h, L, d, j, y) /\ m = MentionAt(d, j, 0)
    <3>1. PICK y : NodeAt(h, L, d, j, y) /\ m = MentionAt(d, j, 0)
      BY <2>3
    <3>2. MentionAt(d, j, 0).attrs = h.attrs[y] /\ y \in Id
      BY <2>2, <3>1, NodeAtLine DEF NodeAt
    <3>3. Plain(h.attrs[y])
      BY <1>1, <3>2 DEF GraphOK, NodesOK
    <3> QED  BY <2>1, <3>1, <3>2, <3>3 DEF Plain
  <2>4. CASE \E k : EdgeAt(h, L, d, j, k) /\ \E n \in 0..1 : m = MentionAt(d, j, n)
    <3>1. PICK k : EdgeAt(h, L, d, j, k) /\ \E n \in 0..1 : m = MentionAt(d, j, n)
      BY <2>4
    <3>2. PICK n \in 0..1 : m = MentionAt(d, j, n)
      BY <3>1
    <3>3. m = [at |-> <<j, n, 0>>, id |-> Named(k)[n + 1], type |-> Untyped,
               pos |-> NoPos, attrs |-> << >>]
      BY <2>2, <3>1, <3>2, EdgeAtLine
    <3>4. m.attrs = << >>
      BY <3>3
    <3> QED  BY <2>1, <3>4, NoPairsPlain DEF Plain
  <2> QED  BY <2>2, <2>3, <2>4
<1>3. ASSUME NEW s \in Steps(d)
      PROVE  ~ NamesType(s.attrs)
  <2>1. PICK k \in ToSet(h.edges) :
            \E j \in 1..Len(L) : EdgeAt(h, L, d, j, k) /\ s = StepAt(d, j, 1)
    BY PrintedKeys
  <2>2. PICK j \in 1..Len(L) : EdgeAt(h, L, d, j, k) /\ s = StepAt(d, j, 1)
    BY <2>1
  <2>3. s.attrs = h.edgeAttrs[k] /\ k \in EdgeKey
    BY <2>2, EdgeAtLine DEF EdgeAt
  <2>4. Plain(h.edgeAttrs[k])
    BY <1>1, <2>3 DEF GraphOK, EdgesOK
  <2> QED  BY <2>3, <2>4 DEF Plain
<1>4. Retypes(Mentions(d)) = {}
  <2> SUFFICES ASSUME NEW m \in Mentions(d), m.type # Untyped,
                      Least(Typed(OfNode(Mentions(d), m.id))).type # m.type
               PROVE  FALSE
    BY DEF Retypes
  <2>1. PICK M : M = OfNode(Mentions(d), m.id)
    OBVIOUS
  <2>2. \A n \in Typed(M) : n.type = h.typ[m.id]
    BY <1>2, <2>1, PrintedNode
  <2>3. m \in Typed(M)
    BY <2>1 DEF Typed, OfNode
  <2>4. Placed(Typed(M))
    BY <1>1, <2>1, DocMarked, PlacedSubset DEF Typed, OfNode, Marked
  <2>5. Least(Typed(M)) \in Typed(M)
    BY <2>3, <2>4, LeastFacts
  <2> QED  BY <2>1, <2>2, <2>3, <2>5
<1>5. Loops(Steps(d)) # {} <=> LoopByName(h)
  <2>1. \A k \in ToSet(h.edges) : k \in EdgeKey
    BY <1>1, ToSetOfSeq DEF GraphOK, Graph
  <2>2. LoopByName(h) <=> \E k \in EdgesNamed(h) : k[1] = k[2]
    BY <2>1, NamedFacts DEF LoopByName, EdgesNamed
  <2> QED  BY <2>2, PrintedEdges DEF Loops
<1>6. NamingType(Mentions(d)) = {} /\ NamingType(Steps(d)) = {}
  BY <1>2, <1>3 DEF NamingType, NamesType
<1>7. DocFaults(d) = {[at |-> s.at, err |-> "ErrLoop"] : s \in Loops(Steps(d))}
  BY <1>4, <1>6 DEF DocFaults, Faults
<1>8. CASE LoopByName(h)
  <2>1. DocFaults(d) # {} /\ \A f \in DocFaults(d) : f.err = "ErrLoop"
    <3>1. PICK s : s \in Loops(Steps(d))
      BY <1>5, <1>8
    <3>2. [at |-> s.at, err |-> "ErrLoop"] \in DocFaults(d)
      BY <1>7, <3>1
    <3>3. ASSUME NEW f \in DocFaults(d)
          PROVE  f.err = "ErrLoop"
      <4>1. PICK q \in Loops(Steps(d)) : f = [at |-> q.at, err |-> "ErrLoop"]
        BY <1>7
      <4> QED  BY <4>1
    <3> QED  BY <3>2, <3>3
  <2>2. Least(DocFaults(d)) \in DocFaults(d)
    BY <1>1, <2>1, FaultsPlaced, LeastFacts
  <2> QED  BY <1>8, <2>1, <2>2 DEF ErrOf
<1>9. CASE ~ LoopByName(h)
  BY <1>5, <1>7, <1>9 DEF ErrOf
<1> QED  BY <1>8, <1>9

(* The graph that a written text means is the one that was written, up to the  *)
(* deleted nodes in it.                                                       *)
LEMMA PrintedSame ==
    ASSUME NEW h, NEW L, NEW d, Prints(h, L, d), NEW f, GraphOK(f), Meant(f, d)
    PROVE  ReadsAs(f, h)
<1>1. GraphOK(h) /\ DocOK(d)
  BY PrintedOK DEF Prints
<1>2. ToSet(f.nodes) = ToSet(h.nodes) \cup IdsNamed(h)
  <2>1. {m.id : m \in Mentions(d)} = ToSet(h.nodes) \cup IdsNamed(h)
    BY PrintedIds
  <2> QED  BY <2>1 DEF Meant, NodesMeant, NodesInOrder, InOrder
<1>3. /\ f.typ \in [Id -> Type] /\ h.typ \in [Id -> Type]
      /\ f.attrs \in [Id -> Seq(Pair)] /\ h.attrs \in [Id -> Seq(Pair)]
      /\ f.edgeAttrs \in [EdgeKey -> Seq(Pair)] /\ h.edgeAttrs \in [EdgeKey -> Seq(Pair)]
      /\ f.edges \in Seq(EdgeKey) /\ h.edges \in Seq(EdgeKey)
  BY <1>1 DEF GraphOK, Graph
<1>4. ASSUME NEW x \in Id
      PROVE  f.typ[x] = h.typ[x] /\ f.attrs[x] = h.attrs[x]
  <2>1. PICK M : M = OfNode(Mentions(d), x)
    OBVIOUS
  <2>2. TypeOf(M) = h.typ[x] /\ AttrsMerged(h.attrs[x], Assignments(M))
    BY <2>1, PrintedNode
  <2>3. f.typ[x] = TypeOf(M) /\ AttrsMerged(f.attrs[x], Assignments(M))
    BY <2>1 DEF Meant, NodesMeant
  <2>4. Placed(Assignments(M))
    <3>1. Marked(Mentions(d))
      BY <1>1, DocMarked
    <3>2. Marked(M)
      BY <2>1, <3>1, PlacedSubset DEF Marked, OfNode
    <3> QED  BY <3>2, MarkedAnnotated, AssignmentsPlaced
  <2>5. f.attrs[x] \in Seq(Pair) /\ h.attrs[x] \in Seq(Pair)
    BY <1>3
  <2>6. f.attrs[x] = h.attrs[x]
    BY <2>2, <2>3, <2>4, <2>5, MergedOnce
  <2> QED  BY <2>2, <2>3, <2>6
<1>5. f.typ = h.typ /\ f.attrs = h.attrs
  BY <1>3, <1>4
<1>6. ToSet(f.edges) = EdgesNamed(h)
  BY PrintedEdges DEF Meant, EdgesMeant, EdgesInOrder, InOrder
<1>7. ASSUME NEW k \in ToSet(h.edges), ~ Clash(h, k)
      PROVE  f.edgeAttrs[Named(k)] = h.edgeAttrs[k]
  <2>1. PICK e, S : e = Named(k) /\ S = OfEdge(Steps(d), e)
    OBVIOUS
  <2>2. k \in EdgeKey /\ e \in EdgeKey /\ e \in ToSet(f.edges)
    BY <1>3, <1>6, <2>1, ToSetOfSeq, NamedFacts DEF EdgesNamed
  <2>3. AttrsMerged(h.edgeAttrs[k], Assignments(S))
    BY <1>7, <2>1, PrintedEdge
  <2>4. AttrsMerged(f.edgeAttrs[e], Assignments(S))
    BY <2>1, <2>2 DEF Meant, EdgesMeant
  <2>5. Placed(Assignments(S))
    <3>1. MarkedSteps(Steps(d))
      BY <1>1, DocMarked
    <3>2. MarkedSteps(S)
      BY <2>1, <3>1, PlacedSubset DEF MarkedSteps, OfEdge
    <3> QED  BY <3>2, MarkedAnnotated, AssignmentsPlaced
  <2>6. f.edgeAttrs[e] \in Seq(Pair) /\ h.edgeAttrs[k] \in Seq(Pair)
    BY <1>3, <2>2
  <2> QED  BY <2>1, <2>3, <2>4, <2>5, <2>6, MergedOnce
<1> QED  BY <1>2, <1>5, <1>6, <1>7 DEF ReadsAs, IdsNamed, EdgesNamed

(* What MarshalText writes can be parsed, whatever edits have been made, also  *)
(* with pointers to deleted nodes, and gives the same nodes and edges with the *)
(* same types and attributes in their order; the parser refuses it (ErrLoop)   *)
(* exactly if an edge joins two nodes, one of them deleted, with the same id.  *)
THEOREM RoundTripHolds == MarshalSpec => []RoundTrip
<1>1. IInv => RoundTrip
  <2> SUFFICES ASSUME IInv, text # NoText, err # "building"
               PROVE  IF LoopByName(written) THEN err = "ErrLoop"
                      ELSE err = "nil" /\ ReadsAs(g, written)
    BY DEF RoundTrip
  <2>1. text = doc /\ GraphOK(written) /\ text = MarshalText(written)
    BY DEF IInv, Rewritten
  <2>2. PICK L : L = InPrintOrder(written)
    OBVIOUS
  <2>3. Prints(written, L, doc)
    BY <2>1, <2>2, TextPrints
  <2>4. err = IF LoopByName(written) THEN "ErrLoop" ELSE "nil"
    BY <2>3, PrintedFaults DEF IInv
  <2>5. ASSUME err = "nil"
        PROVE  ReadsAs(g, written)
    <3>1. GraphOK(g) /\ Meant(g, doc)
      BY <2>5 DEF IInv
    <3> QED  BY <2>3, <3>1, PrintedSame
  <2> QED  BY <2>4, <2>5
<1> QED  BY <1>1, Invariant, PTL

-----------------------------------------------------------------------------
(* The graph that was read from a text is written as that text.               *)

LEMMA OffsetsOfLines ==
    ASSUME NEW T, NEW L \in Seq(T), NEW j \in 1..Len(L), NEW n \in 0..1
    PROVE  Offset(j, n) \in Nat
<1>1. j \in Nat /\ n \in Nat
  OBVIOUS
<1> QED  BY <1>1, OffsetOrder

(* The items that the lines are read as.                                      *)
Reread(it) == IF it[1] = "node" THEN it ELSE EdgeItem(Named(it[2]))
RereadAll(L) == [j \in 1..Len(L) |-> Reread(L[j])]

LEMMA RereadFacts ==
    ASSUME NEW h, NEW L, NEW d, Prints(h, L, d), ~ Clashes(h), NEW T, T = RereadAll(L)
    PROVE  /\ T \in Seq(PrintItem) /\ Len(T) = Len(L) /\ IsInjective(T)
           /\ \A j \in 1..Len(L) : \A x : NodeAt(h, L, d, j, x) => T[j] = NodeItem(x)
           /\ \A j \in 1..Len(L) : \A k : EdgeAt(h, L, d, j, k) =>
                 k \in ToSet(h.edges) /\ T[j] = EdgeItem(Named(k))
           /\ \A x \in Id : NodeItem(x) \in ToSet(T) <=> NodeItem(x) \in ToSet(L)
           /\ \A k : EdgeItem(k) \in ToSet(T) <=> k \in EdgesNamed(h)
<1>1. /\ L \in Seq(PrintItem) /\ IsInjective(L) /\ Len(L) \in Nat
      /\ \A k : EdgeItem(k) \in ToSet(L) <=> k \in ToSet(h.edges)
  BY DEF Prints
<1>2. ASSUME NEW j \in 1..Len(L), NEW x, NodeAt(h, L, d, j, x)
      PROVE  x \in Id /\ L[j] = NodeItem(x) /\ T[j] = NodeItem(x)
  <2>1. x \in Id /\ L[j] = NodeItem(x)
    BY <1>2 DEF NodeAt
  <2>2. T[j] = Reread(L[j])
    BY DEF RereadAll
  <2> QED  BY <2>1, <2>2, PrintItemFacts DEF Reread
<1>3. ASSUME NEW j \in 1..Len(L), NEW k, EdgeAt(h, L, d, j, k)
      PROVE  /\ k \in EdgeKey /\ k \in ToSet(h.edges) /\ L[j] = EdgeItem(k)
             /\ T[j] = EdgeItem(Named(k))
  <2>1. k \in EdgeKey /\ L[j] = EdgeItem(k)
    BY <1>3 DEF EdgeAt
  <2>2. T[j] = Reread(L[j])
    BY DEF RereadAll
  <2>3. k \in ToSet(h.edges)
    BY <1>1, <2>1, ToSetOfSeq
  <2>4. EdgeItem(k)[1] # "node" /\ EdgeItem(k)[2] = k
    BY PrintItemFacts
  <2> QED  BY <2>1, <2>2, <2>3, <2>4 DEF Reread
<1>4. \A j \in 1..Len(L) : \/ \E x \in Id : NodeAt(h, L, d, j, x)
                           \/ \E k \in EdgeKey : EdgeAt(h, L, d, j, k)
  BY LinesAre
<1>5. T \in Seq(PrintItem) /\ Len(T) = Len(L)
  <2>1. ASSUME NEW j \in 1..Len(L)
        PROVE  T[j] \in PrintItem
    BY <1>2, <1>3, <1>4, NamedFacts, PrintItemFacts
  <2>2. T = [j \in 1..Len(L) |-> T[j]]
    BY DEF RereadAll
  <2>3. T \in [1..Len(L) -> PrintItem]
    BY <2>1, <2>2
  <2> QED  BY <1>1, <2>3, MakeSeq
<1>6. IsInjective(T)
  <2>1. \A i, j \in 1..Len(L) : L[i] = L[j] => i = j
    BY <1>1, InjectiveSeq
  <2>2. ASSUME NEW i \in 1..Len(L), NEW j \in 1..Len(L), T[i] = T[j]
        PROVE  L[i] = L[j]
    <3>1. CASE \E x \in Id : NodeAt(h, L, d, i, x)
      <4>1. PICK x \in Id : NodeAt(h, L, d, i, x)
        BY <3>1
      <4>2. L[i] = NodeItem(x) /\ T[i] = NodeItem(x)
        BY <1>2, <4>1
      <4>3. \A k : T[j] # EdgeItem(k)
        BY <2>2, <4>2, PrintItemFacts
      <4>4. PICK y \in Id : NodeAt(h, L, d, j, y)
        BY <1>3, <1>4, <4>3
      <4>5. L[j] = NodeItem(y) /\ T[j] = NodeItem(y)
        BY <1>2, <4>4
      <4> QED  BY <2>2, <4>2, <4>5
    <3>2. CASE \E k \in EdgeKey : EdgeAt(h, L, d, i, k)
      <4>1. PICK k \in EdgeKey : EdgeAt(h, L, d, i, k)
        BY <3>2
      <4>2. k \in ToSet(h.edges) /\ L[i] = EdgeItem(k) /\ T[i] = EdgeItem(Named(k))
        BY <1>3, <4>1
      <4>3. \A x : T[j] # NodeItem(x)
        BY <2>2, <4>2, PrintItemFacts
      <4>4. PICK l \in EdgeKey : EdgeAt(h, L, d, j, l)
        BY <1>2, <1>4, <4>3
      <4>5. l \in ToSet(h.edges) /\ L[j] = EdgeItem(l) /\ T[j] = EdgeItem(Named(l))
        BY <1>3, <4>4
      <4>6. Named(k) = Named(l)
        <5>1. PICK u, v : u = Named(k) /\ v = Named(l)
          OBVIOUS
        <5>2. EdgeItem(u) = EdgeItem(v)
          BY <2>2, <4>2, <4>5, <5>1
        <5>3. u = v
          BY <5>2, PrintItemFacts
        <5> QED  BY <5>1, <5>3
      <4>7. k = l
        BY <4>2, <4>5, <4>6 DEF Clashes, Clash
      <4> QED  BY <4>2, <4>5, <4>7
    <3> QED  BY <1>4, <3>1, <3>2
  <2> QED  BY <1>5, <2>1, <2>2, InjectiveSeq
<1>7. ASSUME NEW x \in Id
      PROVE  NodeItem(x) \in ToSet(T) <=> NodeItem(x) \in ToSet(L)
  <2>1. ASSUME NodeItem(x) \in ToSet(T)
        PROVE  NodeItem(x) \in ToSet(L)
    <3>1. PICK j \in 1..Len(L) : T[j] = NodeItem(x)
      BY <1>5, <2>1, ToSetOfSeq
    <3>2. PICK y \in Id : NodeAt(h, L, d, j, y)
      BY <1>3, <1>4, <3>1, PrintItemFacts
    <3>3. L[j] = NodeItem(x)
      BY <1>2, <3>1, <3>2
    <3> QED  BY <1>1, <3>3, ToSetOfSeq
  <2>2. ASSUME NodeItem(x) \in ToSet(L)
        PROVE  NodeItem(x) \in ToSet(T)
    <3>1. PICK j \in 1..Len(L) : NodeAt(h, L, d, j, x)
      BY <2>2, NodeLineAt
    <3>2. T[j] = NodeItem(x)
      BY <1>2, <3>1
    <3> QED  BY <1>5, <3>2, ToSetOfSeq
  <2> QED  BY <2>1, <2>2
<1>8. ASSUME NEW k
      PROVE  EdgeItem(k) \in ToSet(T) <=> k \in EdgesNamed(h)
  <2>1. ASSUME EdgeItem(k) \in ToSet(T)
        PROVE  k \in EdgesNamed(h)
    <3>1. PICK j \in 1..Len(L) : T[j] = EdgeItem(k)
      BY <1>5, <2>1, ToSetOfSeq
    <3>2. PICK l \in EdgeKey : EdgeAt(h, L, d, j, l)
      BY <1>2, <1>4, <3>1, PrintItemFacts
    <3>3. l \in ToSet(h.edges) /\ T[j] = EdgeItem(Named(l))
      BY <1>3, <3>2
    <3>4. k = Named(l)
      BY <3>1, <3>3, PrintItemFacts
    <3> QED  BY <3>3, <3>4 DEF EdgesNamed
  <2>2. ASSUME NEW l \in ToSet(h.edges), k = Named(l)
        PROVE  EdgeItem(k) \in ToSet(T)
    <3>1. l \in EdgeKey
      BY ToSetOfSeq DEF Prints, GraphOK, Graph
    <3>2. PICK j \in 1..Len(L) : EdgeAt(h, L, d, j, l)
      BY <1>1, <3>1, EdgeLineAt
    <3>3. T[j] = EdgeItem(k)
      BY <1>3, <2>2, <3>2
    <3> QED  BY <1>5, <3>3, ToSetOfSeq
  <2> QED  BY <2>1, <2>2 DEF EdgesNamed
<1> QED  BY <1>2, <1>3, <1>5, <1>6, <1>7, <1>8

(* Every item of the text has its position there; nothing else has one.       *)
LEMMA ReadBackItems ==
    ASSUME NEW h, NEW L, NEW d, Prints(h, L, d), ~ Clashes(h), NEW T, T = RereadAll(L),
           NEW f, GraphOK(f), Meant(f, d), ReadsAs(f, h)
    PROVE  /\ ToSet(Kept(f)) = ToSet(T)
           /\ \A j \in 1..Len(L) : \E n \in 0..1 : OffsetOf(f, T[j]) = Offset(j, n)
<1>1. GraphOK(h) /\ L \in Seq(PrintItem) /\ NoPos \notin Nat
  BY BuildAssumption DEF Prints
<1>2. \A x : NodeItem(x) \in ToSet(L) <=> x \in ToSet(h.nodes) /\ ~ Implied(h, x)
  BY DEF Prints
<1>a. T \in Seq(PrintItem)
  BY RereadFacts
<1>b. \A j \in 1..Len(L) : \A x : NodeAt(h, L, d, j, x) => T[j] = NodeItem(x)
  BY RereadFacts
<1>c. \A j \in 1..Len(L) : \A k : EdgeAt(h, L, d, j, k) =>
          k \in ToSet(h.edges) /\ T[j] = EdgeItem(Named(k))
  BY RereadFacts
<1>d. \A x \in Id : NodeItem(x) \in ToSet(T) <=> NodeItem(x) \in ToSet(L)
  BY RereadFacts
<1>e. \A k : EdgeItem(k) \in ToSet(T) <=> k \in EdgesNamed(h)
  BY RereadFacts
<1>f. ToSet(f.nodes) = ToSet(h.nodes) \cup IdsNamed(h) /\ ToSet(f.edges) = EdgesNamed(h)
  BY DEF ReadsAs, IdsNamed, EdgesNamed
<1>3. /\ \A x : NodeItem(x) \in ToSet(Kept(f)) <=> x \in ToSet(f.nodes) /\ ~ Implied(f, x)
      /\ \A k : EdgeItem(k) \in ToSet(Kept(f)) <=> k \in ToSet(f.edges)
      /\ Kept(f) \in Seq(PrintItem)
  <2>1. \A x : NodeItem(x) \in ToSet(Kept(f)) <=> x \in ToSet(f.nodes) /\ ~ Implied(f, x)
    BY KeptFacts
  <2>2. \A k : EdgeItem(k) \in ToSet(Kept(f)) <=> k \in ToSet(f.edges)
    BY KeptFacts
  <2>3. Kept(f) \in Seq(PrintItem)
    BY KeptFacts
  <2> QED  BY <2>1, <2>2, <2>3
<1>4. ASSUME NEW x \in Id
      PROVE  /\ NodeItem(x) \notin ToSet(L) => f.declPos[x] = NoPos
             /\ \A j \in 1..Len(L) : NodeAt(h, L, d, j, x) => f.declPos[x] = Offset(j, 0)
  <2>1. PICK M : M = OfNode(Mentions(d), x)
    OBVIOUS
  <2>2. f.declPos[x] = DeclPos(M)
    BY <2>1 DEF Meant, NodesMeant
  <2>3. NodeItem(x) \notin ToSet(L) => DeclPos(M) = NoPos
    BY <2>1, PrintedNode
  <2>4. \A j \in 1..Len(L) : NodeAt(h, L, d, j, x) => DeclPos(M) = Offset(j, 0)
    BY <2>1, PrintedNode
  <2> QED  BY <2>2, <2>3, <2>4
<1>5. ASSUME NEW k \in EdgeKey, NEW j \in 1..Len(L), EdgeAt(h, L, d, j, k)
      PROVE  Named(k) \in EdgeKey /\ f.edgePos[Named(k)] = Offset(j, 1)
  <2>1. PICK S : S = OfEdge(Steps(d), Named(k))
    OBVIOUS
  <2>2. k \in ToSet(h.edges) /\ ~ Clash(h, k)
    BY <1>5, <1>c DEF Clashes
  <2>3. Least(S).pos = Offset(j, 1)
    BY <1>5, <2>1, <2>2, PrintedEdge
  <2>4. Named(k) \in ToSet(f.edges)
    BY <1>f, <2>2 DEF EdgesNamed
  <2>5. f.edgePos[Named(k)] = Least(S).pos
    BY <2>1, <2>4 DEF Meant, EdgesMeant
  <2> QED  BY <2>3, <2>5, NamedFacts
<1>6. \A j \in 1..Len(L) : \A n \in 0..1 : Offset(j, n) \in Nat
  BY <1>1, OffsetsOfLines
<1>7. ASSUME NEW x \in Id
      PROVE  NodeItem(x) \in ToSet(Kept(f)) <=> NodeItem(x) \in ToSet(T)
  <2>1. ASSUME NodeItem(x) \in ToSet(L)
        PROVE  f.declPos[x] # NoPos
    <3>1. PICK j \in 1..Len(L) : NodeAt(h, L, d, j, x)
      BY <2>1, NodeLineAt
    <3>2. f.declPos[x] = Offset(j, 0)
      BY <1>4, <3>1
    <3> QED  BY <1>1, <1>6, <3>2
  <2>2. ASSUME NodeItem(x) \notin ToSet(L), x \in ToSet(f.nodes)
        PROVE  Implied(f, x)
    <3>1. f.declPos[x] = NoPos
      BY <1>4, <2>2
    <3>2. f.typ[x] = h.typ[x] /\ f.attrs[x] = h.attrs[x]
      BY DEF ReadsAs
    <3>3. h.typ[x] = Untyped /\ h.attrs[x] = << >>
      BY <1>1, <1>2, <2>2 DEF Implied, GraphOK, NodesOK, HasNode
    <3>4. x \in IdsNamed(h)
      <4>1. CASE x \in ToSet(h.nodes)
        <5>1. PICK k \in ToSet(h.edges) : x \in {k[1], k[2]}
          BY <1>2, <2>2, <4>1 DEF Implied, Linked
        <5>2. x \in {IdOf(k[1]), IdOf(k[2])}
          BY <5>1 DEF IdOf
        <5> QED  BY <5>1, <5>2 DEF IdsNamed
      <4>2. CASE x \notin ToSet(h.nodes)
        BY <1>f, <2>2, <4>2
      <4> QED  BY <4>1, <4>2
    <3>5. PICK k \in ToSet(h.edges) : x \in {IdOf(k[1]), IdOf(k[2])}
      BY <3>4 DEF IdsNamed
    <3>6. k \in EdgeKey
      BY <1>1, ToSetOfSeq DEF GraphOK, Graph
    <3>7. Named(k) \in ToSet(f.edges) /\ x \in {Named(k)[1], Named(k)[2]}
      BY <1>f, <3>5, <3>6, NamedFacts DEF EdgesNamed
    <3>8. Linked(f, x)
      BY <3>7 DEF Linked
    <3> QED  BY <3>1, <3>2, <3>3, <3>8 DEF Implied
  <2>3. f.declPos[x] # NoPos => ~ Implied(f, x)
    BY DEF Implied
  <2>4. NodeItem(x) \in ToSet(L) => x \in ToSet(f.nodes)
    BY <1>2, <1>f
  <2> QED  BY <1>3, <1>d, <2>1, <2>2, <2>3, <2>4
<1>8. \A k : EdgeItem(k) \in ToSet(Kept(f)) <=> EdgeItem(k) \in ToSet(T)
  BY <1>3, <1>e, <1>f
<1>9. ToSet(Kept(f)) = ToSet(T)
  <2>1. ToSet(Kept(f)) \subseteq PrintItem /\ ToSet(T) \subseteq PrintItem
    BY <1>3, <1>a, ToSetOfSeq
  <2>2. ASSUME NEW it \in PrintItem
        PROVE  it \in ToSet(Kept(f)) <=> it \in ToSet(T)
    <3>1. \/ \E x \in Id : it = NodeItem(x)
          \/ \E k \in EdgeKey : it = EdgeItem(k)
      BY PrintItemFacts
    <3> QED  BY <1>7, <1>8, <3>1
  <2> QED  BY <2>1, <2>2
<1>10. ASSUME NEW j \in 1..Len(L)
       PROVE  \E n \in 0..1 : OffsetOf(f, T[j]) = Offset(j, n)
  <2>1. f \in Graph
    BY DEF GraphOK
  <2>2. CASE \E x \in Id : NodeAt(h, L, d, j, x)
    <3>1. PICK x \in Id : NodeAt(h, L, d, j, x)
      BY <2>2
    <3>2. f.declPos[x] = Offset(j, 0) /\ f.declPos[x] # NoPos
      BY <1>1, <1>4, <1>6, <3>1
    <3>3. T[j] = NodeItem(x)
      BY <1>b, <3>1
    <3>4. OffsetOf(f, NodeItem(x)) = Offset(j, 0)
      BY <2>1, <3>2, OffsetOfFacts
    <3> QED  BY <3>3, <3>4
  <2>3. CASE \E k \in EdgeKey : EdgeAt(h, L, d, j, k)
    <3>1. PICK k \in EdgeKey : EdgeAt(h, L, d, j, k)
      BY <2>3
    <3>2. /\ Named(k) \in EdgeKey /\ f.edgePos[Named(k)] = Offset(j, 1)
          /\ f.edgePos[Named(k)] # NoPos
      BY <1>1, <1>5, <1>6, <3>1
    <3>3. T[j] = EdgeItem(Named(k))
      BY <1>c, <3>1
    <3>4. OffsetOf(f, EdgeItem(Named(k))) = Offset(j, 1)
      BY <2>1, <3>2, OffsetOfFacts
    <3> QED  BY <3>3, <3>4
  <2> QED  BY <2>2, <2>3, LinesAre
<1> QED  BY <1>9, <1>10

LEMMA ReadBackOrder ==
    ASSUME NEW h, NEW L, NEW d, Prints(h, L, d), ~ Clashes(h), NEW T, T = RereadAll(L),
           NEW f, GraphOK(f), Meant(f, d), ReadsAs(f, h)
    PROVE  InPrintOrder(f) = T
<1>1. T \in Seq(PrintItem) /\ IsInjective(T) /\ Len(T) = Len(L)
  BY RereadFacts
<1>2. PICK K : K = InPrintOrder(f)
  OBVIOUS
<1>3. /\ K \in Seq(PrintItem) /\ IsInjective(K) /\ ToSet(K) = ToSet(Kept(f))
      /\ \A i, j \in 1..Len(K) : i < j => SortKey(f, K[i]) <= SortKey(f, K[j])
  BY <1>2, InPrintOrderFacts
<1>4. ToSet(Kept(f)) = ToSet(T)
  BY ReadBackItems
<1>5. \A j \in 1..Len(T) : \E n \in 0..1 : OffsetOf(f, T[j]) = Offset(j, n)
  BY <1>1, ReadBackItems
<1>6. ASSUME NEW j \in 1..Len(T)
      PROVE  \E n \in 0..1 : SortKey(f, T[j]) = Offset(j, n)
  <2>1. PICK n \in 0..1 : OffsetOf(f, T[j]) = Offset(j, n)
    BY <1>5
  <2>2. Offset(j, n) \in Nat
    BY <1>1, OffsetsOfLines
  <2>3. T[j] \in ToSet(PrintItems(f))
    <3>1. T[j] \in ToSet(T)
      BY <1>1, ToSetOfSeq
    <3>2. ToSet(Kept(f)) \subseteq ToSet(PrintItems(f))
      BY KeptFacts
    <3> QED  BY <1>4, <3>1, <3>2
  <2>4. SortKey(f, T[j]) = OffsetOf(f, T[j])
    <3>1. OffsetOf(f, T[j]) >= 0
      BY <2>1, <2>2
    <3> QED  BY <2>3, <3>1, SortKeyFacts
  <2> QED  BY <2>1, <2>4
<1>7. ASSUME NEW i \in 1..Len(T), NEW j \in 1..Len(T), i < j
      PROVE  SortKey(f, T[i]) < SortKey(f, T[j])
  <2>1. PICK m \in 0..1 : SortKey(f, T[i]) = Offset(i, m)
    BY <1>6
  <2>2. PICK n \in 0..1 : SortKey(f, T[j]) = Offset(j, n)
    BY <1>6
  <2>3. m < Room
    BY BuildAssumption
  <2>4. i \in Nat /\ j \in Nat /\ m \in Nat /\ n \in Nat
    BY <1>1
  <2>5. Offset(i, m) < Offset(j, n)
    BY <1>7, <2>3, <2>4, OffsetOrder
  <2> QED  BY <2>1, <2>2, <2>5
<1>8. PICK V, R : V = ToSet(T) /\ R = {p \in V \X V : SortKey(f, p[1]) < SortKey(f, p[2])}
  OBVIOUS
<1>9. \A x \in V : SortKey(f, x) \in Int
  <2>1. ASSUME NEW x \in V
        PROVE  SortKey(f, x) \in Nat
    <3>1. PICK j \in 1..Len(T) : T[j] = x
      BY <1>1, <1>8, ToSetOfSeq
    <3>2. PICK n \in 0..1 : SortKey(f, T[j]) = Offset(j, n)
      BY <1>6
    <3>3. Offset(j, n) \in Nat
      BY <1>1, OffsetsOfLines
    <3> QED  BY <3>1, <3>2, <3>3
  <2> QED  BY <2>1
<1>10. \A x, y \in V : ~ (<<x, y>> \in R /\ <<y, x>> \in R)
  BY <1>8, <1>9
<1>11. /\ K \in Seq(V) /\ T \in Seq(V) /\ ToSet(K) = ToSet(T)
       /\ \A i \in 1..Len(K) : K[i] \in V
       /\ \A i \in 1..Len(T) : T[i] \in V
  <2>1. \A i \in 1..Len(T) : T[i] \in V
    BY <1>1, <1>8, ToSetOfSeq
  <2>2. \A i \in 1..Len(K) : K[i] \in V
    BY <1>3, <1>4, <1>8, ToSetOfSeq
  <2> QED  BY <1>1, <1>3, <1>4, <2>1, <2>2
<1>12. \A i, j \in 1..Len(T) : i < j => <<T[i], T[j]>> \in R
  BY <1>7, <1>8, <1>11
<1>13. ASSUME NEW i \in 1..Len(K), NEW j \in 1..Len(K), i < j
       PROVE  <<K[i], K[j]>> \in R
  <2>1. SortKey(f, K[i]) <= SortKey(f, K[j])
    BY <1>3, <1>13
  <2>2. K[i] # K[j]
    <3>1. \A a, b \in 1..Len(K) : K[a] = K[b] => a = b
      BY <1>3, InjectiveSeq
    <3> QED  BY <1>13, <3>1
  <2>3. PICK a \in 1..Len(T) : T[a] = K[i]
    BY <1>1, <1>8, <1>11, ToSetOfSeq
  <2>4. PICK b \in 1..Len(T) : T[b] = K[j]
    BY <1>1, <1>8, <1>11, ToSetOfSeq
  <2>5. a # b
    BY <2>2, <2>3, <2>4
  <2>6. a < b \/ b < a
    BY <2>5
  <2>7. K[i] \in V /\ K[j] \in V
    BY <1>11
  <2>8. SortKey(f, K[i]) \in Int /\ SortKey(f, K[j]) \in Int
    BY <1>9, <2>7
  <2>9. SortKey(f, K[i]) < SortKey(f, K[j])
    <3>1. b < a => SortKey(f, K[j]) < SortKey(f, K[i])
      BY <1>7, <2>3, <2>4
    <3>2. a < b => SortKey(f, K[i]) < SortKey(f, K[j])
      BY <1>7, <2>3, <2>4
    <3> QED  BY <2>1, <2>6, <2>8, <3>1, <3>2
  <2> QED  BY <1>8, <2>7, <2>9
<1>14. K = T
  BY <1>10, <1>11, <1>12, <1>13, OneSortedList
<1> QED  BY <1>2, <1>14

LEMMA EditKeepsText ==
    ASSUME Edit
    PROVE  text' = text
<1>0. \A h : EditedTo(h) => text' = text
  BY DEF EditedTo
<1>1. \A h : Edited(h) => text' = text
  BY DEF Edited, EditedTo
<1>2. \A n \in NodeItems : EditAddNode(n) => text' = text
  BY <1>1, Zenon DEF EditAddNode
<1>3. \A k, attrs : EditAddEdge(k, attrs) => text' = text
  BY <1>1, Zenon DEF EditAddEdge
<1>4. \A k : EditDeleteEdge(k) => text' = text
  BY <1>1, Zenon DEF EditDeleteEdge
<1>5. ASSUME NEW x, NEW keep, EditDeleteNode(x, keep)
      PROVE  text' = text
  <2>1. PICK mine : mine = {k \in ToSet(g.edges) : x \in {k[1], k[2]}}
    OBVIOUS
  <2>2. PICK h : h = [Without(g, mine)
                       EXCEPT !.nodes = DeleteFirst(@, x), !.typ[x] = Untyped,
                              !.attrs[x] = << >>,
                              !.declPos[x] = NoPos, !.typeFromPos[x] = NoPos]
    OBVIOUS
  <2>3. EditedTo(h)
    BY <1>5, <2>1, <2>2 DEF EditDeleteNode
  <2> QED  BY <1>0, <2>3
<1>6. \A x, key : EditDeleteAttr(x, key) => text' = text
  BY <1>1, Zenon DEF EditDeleteAttr
<1>7. EditSort => text' = text
  BY <1>1, Zenon DEF EditSort
<1> QED  BY <1>2, <1>3, <1>4, <1>5, <1>6, <1>7, Zenon DEF Edit

LEMMA WrittenAgain ==
    ASSUME NEW h, GraphOK(h), ~ Clashes(h), NEW f, GraphOK(f), Meant(f, MarshalText(h))
    PROVE  MarshalText(f) = MarshalText(h)
<1>1. PICK L, d : L = InPrintOrder(h) /\ d = MarshalText(h)
  OBVIOUS
<1>2. Prints(h, L, d)
  BY <1>1, TextPrints
<1>3. Meant(f, d) /\ ReadsAs(f, h)
  BY <1>1, <1>2, PrintedSame
<1>4. PICK T : T = RereadAll(L)
  OBVIOUS
<1>5. InPrintOrder(f) = T
  BY <1>2, <1>3, <1>4, ReadBackOrder
<1>6. Len(T) = Len(L)
  BY <1>2, <1>4, RereadFacts
<1>7. ASSUME NEW j \in 1..Len(L)
      PROVE  Line(f, T[j]) = Line(h, L[j])
  <2>1. CASE \E x \in Id : NodeAt(h, L, d, j, x)
    <3>1. PICK x \in Id : NodeAt(h, L, d, j, x)
      BY <2>1
    <3>2. T[j] = NodeItem(x) /\ L[j] = NodeItem(x)
      BY <1>2, <1>4, <3>1, RereadFacts DEF NodeAt
    <3>3. f.typ[x] = h.typ[x] /\ f.attrs[x] = h.attrs[x]
      BY <1>3 DEF ReadsAs
    <3> QED  BY <3>2, <3>3, PrintItemFacts DEF Line
  <2>2. CASE \E k \in EdgeKey : EdgeAt(h, L, d, j, k)
    <3>1. PICK k \in EdgeKey : EdgeAt(h, L, d, j, k)
      BY <2>2
    <3>2. PICK e : e = Named(k)
      OBVIOUS
    <3>3. T[j] = EdgeItem(e) /\ L[j] = EdgeItem(k) /\ k \in ToSet(h.edges)
      BY <1>2, <1>4, <3>1, <3>2, RereadFacts DEF EdgeAt
    <3>4. f.edgeAttrs[e] = h.edgeAttrs[k]
      BY <1>3, <3>2, <3>3 DEF ReadsAs, Clashes
    <3>5. /\ e[1] = IdOf(k[1]) /\ e[2] = IdOf(k[2]) /\ e[3] = k[3]
          /\ e[1] \in Id /\ e[2] \in Id
      BY <3>2, NamedFacts
    <3>6. IdOf(e[1]) = IdOf(k[1]) /\ IdOf(e[2]) = IdOf(k[2])
      BY <3>5 DEF IdOf
    <3>7. /\ EdgeItem(e)[1] # "node" /\ EdgeItem(e)[2] = e
          /\ EdgeItem(k)[1] # "node" /\ EdgeItem(k)[2] = k
      BY PrintItemFacts
    <3> QED  BY <3>3, <3>4, <3>5, <3>6, <3>7, Zenon DEF Line
  <2> QED  BY <1>2, <2>1, <2>2, LinesAre
<1>8. MarshalText(f) = [j \in 1..Len(T) |-> Line(f, T[j])]
  BY <1>5 DEF MarshalText
<1>9. d = [j \in 1..Len(L) |-> Line(h, L[j])]
  BY <1>2 DEF Prints
<1> QED  BY <1>1, <1>6, <1>7, <1>8, <1>9

(* The format is canonical: the graph that was parsed from a written text is  *)
(* written as that text again, if no two edges have the same line but for     *)
(* their attributes; two edges can only have if one of them is at a deleted   *)
(* node.                                                                      *)
THEOREM CanonicalHolds == MarshalSpec => Canonical
<1>1. IInv /\ [Next]_allVars => [text # NoText /\ ~ Clashes(written) => text' = text]_allVars
  <2> SUFFICES ASSUME IInv, Next, text # NoText, ~ Clashes(written)
               PROVE  text' = text
    OBVIOUS
  <2>1. CASE Step /\ UNCHANGED <<edits, text, written, keptVars>>
    BY <2>1
  <2>2. CASE Edit
    BY <2>2, EditKeepsText
  <2>3. CASE Rewrite
    <3>1. err = "nil" /\ text' = MarshalText(g)
      BY <2>3 DEF Rewrite
    <3>2. text = doc /\ GraphOK(written) /\ text = MarshalText(written)
      BY DEF IInv, Rewritten
    <3>3. GraphOK(g) /\ Meant(g, MarshalText(written))
      BY <3>1, <3>2 DEF IInv
    <3> QED  BY <3>1, <3>2, <3>3, WrittenAgain
  <2> QED  BY <2>1, <2>2, <2>3 DEF Next
<1> QED  BY <1>1, Invariant, PTL DEF MarshalSpec, Canonical

-----------------------------------------------------------------------------
(* The order of the lines.                                                    *)

(* Where PrintItems has an item that inPrintOrder puts before another with    *)
(* the same key.                                                             *)
LEMMA TiesInOrder ==
    ASSUME NEW h, GraphOK(h), NEW L, L = InPrintOrder(h), NEW p, p = PrintItems(h),
           NEW i \in 1..Len(L), NEW j \in 1..Len(L), i < j,
           SortKey(h, L[i]) = SortKey(h, L[j]),
           NEW a \in 1..Len(p), NEW b \in 1..Len(p), p[a] = L[i], p[b] = L[j]
    PROVE  a < b
<1>1. PICK s : s = Kept(h)
  OBVIOUS
<1>2. PICK m, n \in 1..Len(s) : m < n /\ L[i] = s[m] /\ L[j] = s[n]
  BY <1>1, InPrintOrderFacts
<1>3. PICK I : I = {k \in 1..Len(p) : p[k][1] = "edge" \/ ~ Implied(h, p[k][2])}
  OBVIOUS
<1>4. s = KeepAt(p, I) /\ I \in SUBSET (1..Len(p))
  BY <1>1, <1>3 DEF Kept
<1>5. p \in Seq(PrintItem) /\ IsInjective(p)
  BY PrintItemsFacts
<1>6. PICK f \in [1..Len(s) -> 1..Len(p)] :
          /\ \A k \in 1..Len(s) : f[k] \in I /\ s[k] = p[f[k]]
          /\ \A k \in I : \E l \in 1..Len(s) : f[l] = k
          /\ \A k, l \in 1..Len(s) : f[k] < f[l] <=> k < l
  BY <1>4, <1>5, KeepAtFacts
<1>7. \A k, l \in 1..Len(p) : p[k] = p[l] => k = l
  BY <1>5, InjectiveSeq
<1>8. f[m] = a /\ f[n] = b
  BY <1>2, <1>6, <1>7
<1> QED  BY <1>2, <1>6, <1>8

(* A position belongs to one place in the text, and a place to one item.       *)
LEMMA NodePosition ==
    ASSUME NEW d, DocOK(d), NEW x, DeclPos(OfNode(Mentions(d), x)) # NoPos
    PROVE  \E i \in 1..Len(d) : /\ d[i].kind = "node" /\ d[i].id = x
                                /\ DeclPos(OfNode(Mentions(d), x)) = Offset(i, 0)
<1>1. PICK D : D = Declared(OfNode(Mentions(d), x))
  OBVIOUS
<1>2. D # {} /\ DeclPos(OfNode(Mentions(d), x)) = Least(D).pos
  BY <1>1 DEF DeclPos
<1>3. Placed(D)
  BY <1>1, DocMarked, PlacedSubset DEF Declared, OfNode, Marked
<1>4. PICK m : m = Least(D)
  OBVIOUS
<1>5. m \in D
  BY <1>2, <1>3, <1>4, LeastFacts
<1>6. m \in Mentions(d) /\ m.id = x /\ m.pos # NoPos
  BY <1>1, <1>5 DEF Declared, OfNode
<1>7. PICK i \in 1..Len(d) : \E j \in 0..StepsOf(d[i]) : m = MentionAt(d, i, j)
  BY <1>6, MentionsAre
<1>8. PICK j \in 0..StepsOf(d[i]) : m = MentionAt(d, i, j)
  BY <1>7
<1>9. d[i].kind = "node"
  BY <1>6, <1>8 DEF MentionAt
<1>10. j = 0
  BY <1>8, <1>9 DEF StepsOf
<1>11. m.id = d[i].id /\ m.pos = Offset(i, 0)
  BY <1>8, <1>9, <1>10 DEF MentionAt
<1> QED  BY <1>2, <1>4, <1>6, <1>9, <1>11

LEMMA EdgePosition ==
    ASSUME NEW d, DocOK(d), NEW k, OfEdge(Steps(d), k) # {}
    PROVE  \E i \in 1..Len(d) : \E j \in 1..StepsOf(d[i]) :
              /\ d[i].kind = "chain" /\ StepAt(d, i, j).key = k
              /\ Least(OfEdge(Steps(d), k)).pos = Offset(i, j)
<1>1. PICK S : S = OfEdge(Steps(d), k)
  OBVIOUS
<1>2. Placed(S)
  BY <1>1, DocMarked, PlacedSubset DEF OfEdge, MarkedSteps
<1>3. PICK s : s = Least(S)
  OBVIOUS
<1>4. s \in S
  BY <1>1, <1>2, <1>3, LeastFacts
<1>5. s \in Steps(d) /\ s.key = k
  BY <1>1, <1>4 DEF OfEdge
<1>6. PICK i \in 1..Len(d) : \E j \in 1..StepsOf(d[i]) : s = StepAt(d, i, j)
  BY <1>5, MentionsAre
<1>7. PICK j \in 1..StepsOf(d[i]) : s = StepAt(d, i, j)
  BY <1>6
<1>8. d[i].kind = "chain" /\ StepAt(d, i, j).pos = Offset(i, j)
  BY StepFacts
<1> QED  BY <1>1, <1>3, <1>5, <1>7, <1>8

LEMMA OffsetsDiffer ==
    ASSUME NEW d, DocOK(d), NEW i \in 1..Len(d), NEW j \in 0..StepsOf(d[i]),
           NEW k \in 1..Len(d), NEW l \in 0..StepsOf(d[k]), Offset(i, j) = Offset(k, l)
    PROVE  i = k /\ j = l
<1>1. StepsOf(d[i]) \in Nat /\ StepsOf(d[i]) < Room /\ i \in Nat
  BY ItemFacts
<1>2. StepsOf(d[k]) \in Nat /\ StepsOf(d[k]) < Room /\ k \in Nat
  BY ItemFacts
<1>3. j \in Nat /\ l \in Nat /\ j < Room /\ l < Room
  <2>1. Room \in Nat
    BY BuildAssumption
  <2> QED  BY <1>1, <1>2, <2>1, SMTT(30)
<1>4. PICK o : o = Offset(i, j) /\ o \in Nat
  BY <1>1, <1>3, OffsetOrder
<1>5. (i < k \/ (i = k /\ j < l)) => Offset(i, j) < Offset(k, l)
  BY <1>1, <1>2, <1>3, OffsetOrder
<1>6. (k < i \/ (k = i /\ l < j)) => Offset(k, l) < Offset(i, j)
  BY <1>1, <1>2, <1>3, OffsetOrder
<1>7. ~ (i < k \/ (i = k /\ j < l)) /\ ~ (k < i \/ (k = i /\ l < j))
  BY <1>4, <1>5, <1>6
<1> QED  BY <1>1, <1>2, <1>3, <1>7

LEMMA PositionsDiffer ==
    ASSUME NEW d, DocOK(d), NEW h, h \in Graph, PositionsOf(h, d),
           NEW it \in PrintItem, NEW jt \in PrintItem,
           OffsetOf(h, it) >= 0, OffsetOf(h, it) = OffsetOf(h, jt)
    PROVE  it = jt
<1>1. ASSUME NEW x \in Id, OffsetOf(h, NodeItem(x)) >= 0
      PROVE  \E i \in 1..Len(d) : /\ d[i].kind = "node" /\ d[i].id = x
                                  /\ OffsetOf(h, NodeItem(x)) = Offset(i, 0)
  <2>1. OffsetOf(h, NodeItem(x)) = IF h.declPos[x] = NoPos THEN -1 ELSE h.declPos[x]
    BY OffsetOfFacts
  <2>2. h.declPos[x] # NoPos /\ OffsetOf(h, NodeItem(x)) = h.declPos[x]
    BY <1>1, <2>1
  <2>3. h.declPos[x] = DeclPos(OfNode(Mentions(d), x))
    BY <2>2 DEF PositionsOf
  <2> QED  BY <2>2, <2>3, NodePosition
<1>2. ASSUME NEW k \in EdgeKey, OffsetOf(h, EdgeItem(k)) >= 0
      PROVE  \E i \in 1..Len(d) : \E j \in 1..StepsOf(d[i]) :
                /\ d[i].kind = "chain" /\ StepAt(d, i, j).key = k
                /\ OffsetOf(h, EdgeItem(k)) = Offset(i, j)
  <2>1. OffsetOf(h, EdgeItem(k)) = IF h.edgePos[k] = NoPos THEN -2 ELSE h.edgePos[k]
    BY OffsetOfFacts
  <2>2. h.edgePos[k] # NoPos /\ OffsetOf(h, EdgeItem(k)) = h.edgePos[k]
    BY <1>2, <2>1
  <2>3. /\ OfEdge(Steps(d), k) # {}
        /\ h.edgePos[k] = Least(OfEdge(Steps(d), k)).pos
    BY <2>2 DEF PositionsOf
  <2> QED  BY <2>2, <2>3, EdgePosition
<1>3. \A i \in 1..Len(d) : 0 \in 0..StepsOf(d[i]) /\ 1..StepsOf(d[i]) \subseteq 0..StepsOf(d[i])
  <2> TAKE i \in 1..Len(d)
  <2>1. StepsOf(d[i]) \in Nat
    BY ItemFacts
  <2> QED  BY <2>1
<1>4. ASSUME NEW x \in Id, NEW y \in Id, OffsetOf(h, NodeItem(x)) >= 0,
             OffsetOf(h, NodeItem(x)) = OffsetOf(h, NodeItem(y))
      PROVE  x = y
  <2>1. PICK i \in 1..Len(d) : /\ d[i].kind = "node" /\ d[i].id = x
                               /\ OffsetOf(h, NodeItem(x)) = Offset(i, 0)
    BY <1>1, <1>4
  <2>2. PICK k \in 1..Len(d) : /\ d[k].kind = "node" /\ d[k].id = y
                               /\ OffsetOf(h, NodeItem(y)) = Offset(k, 0)
    BY <1>1, <1>4
  <2>3. Offset(i, 0) = Offset(k, 0) /\ 0 \in 0..StepsOf(d[i]) /\ 0 \in 0..StepsOf(d[k])
    BY <1>3, <1>4, <2>1, <2>2
  <2>4. i = k
    BY <2>3, OffsetsDiffer
  <2> QED  BY <2>1, <2>2, <2>4
<1>5. ASSUME NEW x \in Id, NEW k \in EdgeKey, OffsetOf(h, NodeItem(x)) >= 0,
             OffsetOf(h, NodeItem(x)) = OffsetOf(h, EdgeItem(k))
      PROVE  FALSE
  <2>1. PICK i \in 1..Len(d) : /\ d[i].kind = "node" /\ d[i].id = x
                               /\ OffsetOf(h, NodeItem(x)) = Offset(i, 0)
    BY <1>1, <1>5
  <2>2. PICK n \in 1..Len(d) : \E j \in 1..StepsOf(d[n]) :
                /\ d[n].kind = "chain" /\ StepAt(d, n, j).key = k
                /\ OffsetOf(h, EdgeItem(k)) = Offset(n, j)
    BY <1>2, <1>5
  <2>3. PICK j \in 1..StepsOf(d[n]) :
                /\ d[n].kind = "chain" /\ StepAt(d, n, j).key = k
                /\ OffsetOf(h, EdgeItem(k)) = Offset(n, j)
    BY <2>2
  <2>4. Offset(i, 0) = Offset(n, j) /\ 0 \in 0..StepsOf(d[i]) /\ j \in 0..StepsOf(d[n])
    BY <1>3, <1>5, <2>1, <2>3
  <2>5. i = n
    BY <2>4, OffsetsDiffer
  <2> QED  BY <2>1, <2>3, <2>5
<1>6. ASSUME NEW q \in EdgeKey, NEW k \in EdgeKey, OffsetOf(h, EdgeItem(q)) >= 0,
             OffsetOf(h, EdgeItem(q)) = OffsetOf(h, EdgeItem(k))
      PROVE  q = k
  <2>1. PICK i \in 1..Len(d) : \E j \in 1..StepsOf(d[i]) :
                /\ d[i].kind = "chain" /\ StepAt(d, i, j).key = q
                /\ OffsetOf(h, EdgeItem(q)) = Offset(i, j)
    BY <1>2, <1>6
  <2>2. PICK j \in 1..StepsOf(d[i]) : StepAt(d, i, j).key = q /\ OffsetOf(h, EdgeItem(q)) = Offset(i, j)
    BY <2>1
  <2>3. PICK n \in 1..Len(d) : \E l \in 1..StepsOf(d[n]) :
                /\ d[n].kind = "chain" /\ StepAt(d, n, l).key = k
                /\ OffsetOf(h, EdgeItem(k)) = Offset(n, l)
    BY <1>2, <1>6
  <2>4. PICK l \in 1..StepsOf(d[n]) : StepAt(d, n, l).key = k /\ OffsetOf(h, EdgeItem(k)) = Offset(n, l)
    BY <2>3
  <2>5. Offset(i, j) = Offset(n, l) /\ j \in 0..StepsOf(d[i]) /\ l \in 0..StepsOf(d[n])
    BY <1>3, <1>6, <2>2, <2>4
  <2>6. i = n /\ j = l
    BY <2>5, OffsetsDiffer
  <2> QED  BY <2>2, <2>4, <2>6
<1>7. OffsetOf(h, jt) >= 0
  OBVIOUS
<1>8. CASE \E x \in Id : it = NodeItem(x)
  <2>1. PICK x \in Id : it = NodeItem(x)
    BY <1>8
  <2>2. CASE \E y \in Id : jt = NodeItem(y)
    BY <1>4, <2>1, <2>2
  <2>3. CASE \E k \in EdgeKey : jt = EdgeItem(k)
    BY <1>5, <2>1, <2>3
  <2> QED  BY <2>2, <2>3, PrintItemFacts
<1>9. CASE \E q \in EdgeKey : it = EdgeItem(q)
  <2>1. PICK q \in EdgeKey : it = EdgeItem(q)
    BY <1>9
  <2>2. CASE \E y \in Id : jt = NodeItem(y)
    BY <1>5, <1>7, <2>1, <2>2
  <2>3. CASE \E k \in EdgeKey : jt = EdgeItem(k)
    BY <1>6, <2>1, <2>3
  <2> QED  BY <2>2, <2>3, PrintItemFacts
<1> QED  BY <1>8, <1>9, PrintItemFacts

LEMMA IndexIs ==
    ASSUME NEW T, NEW s \in Seq(T), IsInjective(s), NEW i \in 1..Len(s)
    PROVE  Index(s, s[i]) = i
<1>1. \A j \in 1..Len(s) : s[j] = s[i] => j = i
  BY InjectiveSeq
<1> QED  BY <1>1 DEF Index

(* What OldLinesFirst says of the place of a line, by its item.               *)
ItemPlace(it) == IF it[1] = "node" THEN PlaceOfNode(it[2]) ELSE PlaceOfEdge(it[2])

LEMMA PlaceOfLine ==
    ASSUME NEW L, NEW d, Prints(g, L, d), NEW j \in 1..Len(L)
    PROVE  ItemPlace(L[j]) \in PlacesOf(d[j])
<1>1. CASE \E x \in Id : NodeAt(g, L, d, j, x)
  <2>1. PICK x \in Id : NodeAt(g, L, d, j, x)
    BY <1>1
  <2>2. L[j] = NodeItem(x) /\ d[j] = Line(g, NodeItem(x)) /\ GraphOK(g)
    BY <2>1 DEF NodeAt, Prints
  <2>3. d[j].kind = "node" /\ d[j].id = x
    BY <2>2, NodeLine
  <2>4. ItemPlace(L[j]) = PlaceOfNode(x)
    BY <2>2, PrintItemFacts DEF ItemPlace
  <2> QED  BY <2>3, <2>4 DEF PlacesOf
<1>2. CASE \E k \in EdgeKey : EdgeAt(g, L, d, j, k)
  <2>1. PICK k \in EdgeKey : EdgeAt(g, L, d, j, k)
    BY <1>2
  <2>2. L[j] = EdgeItem(k) /\ d[j] = Line(g, EdgeItem(k)) /\ GraphOK(g)
    BY <2>1 DEF EdgeAt, Prints
  <2>3. k \in ToSet(g.edges)
    <3>1. EdgeItem(k) \in ToSet(L)
      BY <2>1, EdgeLineAt
    <3> QED  BY <3>1 DEF Prints
  <2>4. /\ d[j].kind = "chain" /\ d[j].from = IdOf(k[1])
        /\ d[j].steps[1].to = IdOf(k[2]) /\ d[j].steps[1].type = k[3]
    BY <2>2, EdgeLine
  <2>5. <<d[j].from, d[j].steps[1].to, d[j].steps[1].type>> = Named(k)
    BY <2>4, NamedFacts
  <2>6. ItemPlace(L[j]) = PlaceOfEdge(k)
    <3>1. EdgeItem(k)[1] # "node" /\ EdgeItem(k)[2] = k
      BY PrintItemFacts
    <3> QED  BY <2>2, <3>1 DEF ItemPlace
  <2>7. PlacesOf(d[j]) = {PlaceOfEdge(l) : l \in {e \in ToSet(g.edges) : Named(e) = Named(k)}}
    BY <2>4, <2>5 DEF PlacesOf
  <2> QED  BY <2>3, <2>6, <2>7
<1> QED  BY <1>1, <1>2, LinesAre

LEMMA NodePlace ==
    ASSUME GraphOK(g), PositionsOf(g, doc), NEW a \in 1..Len(g.nodes),
           NEW x, x = g.nodes[a], NEW q, q = ItemPlace(NodeItem(x))
    PROVE  /\ OffsetOf(g, NodeItem(x)) >= 0 => q = OffsetOf(g, NodeItem(x))
           /\ OffsetOf(g, NodeItem(x)) < 0  => q = Beyond(g) + a
<1>1. g \in Graph /\ g.nodes \in Seq(Id) /\ IsInjective(g.nodes)
  BY DEF GraphOK, Graph, NodesOK
<1>2. x \in Id /\ g.declPos[x] \in Position
  BY <1>1 DEF Graph
<1>3. q = PlaceOfNode(x)
  BY PrintItemFacts DEF ItemPlace
<1>4. OffsetOf(g, NodeItem(x)) = IF g.declPos[x] = NoPos THEN -1 ELSE g.declPos[x]
  BY <1>1, <1>2, OffsetOfFacts
<1>5. Index(g.nodes, x) = a
  BY <1>1, IndexIs
<1>6. CASE g.declPos[x] = NoPos
  <2>1. q = Beyond(g) + a
    BY <1>3, <1>5, <1>6 DEF PlaceOfNode
  <2> QED  BY <1>4, <1>6, <2>1
<1>7. CASE g.declPos[x] # NoPos
  <2>1. q = DeclPos(OfNode(Mentions(doc), x))
    BY <1>3, <1>7 DEF PlaceOfNode
  <2>2. g.declPos[x] = DeclPos(OfNode(Mentions(doc), x))
    BY <1>2, <1>7 DEF PositionsOf
  <2>3. g.declPos[x] \in Nat
    BY <1>2, <1>7 DEF Position
  <2> QED  BY <1>4, <1>7, <2>1, <2>2, <2>3
<1> QED  BY <1>6, <1>7

LEMMA EdgePlace ==
    ASSUME GraphOK(g), PositionsOf(g, doc), NEW a \in 1..Len(g.edges),
           NEW k, k = g.edges[a], NEW q, q = ItemPlace(EdgeItem(k))
    PROVE  /\ OffsetOf(g, EdgeItem(k)) >= 0 => q = OffsetOf(g, EdgeItem(k))
           /\ OffsetOf(g, EdgeItem(k)) < 0  => q = Beyond(g) + Len(g.nodes) + a
<1>1. g \in Graph /\ g.edges \in Seq(EdgeKey) /\ IsInjective(g.edges)
  BY DEF GraphOK, Graph, EdgesOK
<1>2. k \in EdgeKey /\ g.edgePos[k] \in Position
  BY <1>1 DEF Graph
<1>3. q = PlaceOfEdge(k)
  <2>1. EdgeItem(k)[1] # "node" /\ EdgeItem(k)[2] = k
    BY PrintItemFacts
  <2> QED  BY <2>1 DEF ItemPlace
<1>5. OffsetOf(g, EdgeItem(k)) = IF g.edgePos[k] = NoPos THEN -2 ELSE g.edgePos[k]
  BY <1>1, <1>2, OffsetOfFacts
<1>6. Index(g.edges, k) = a
  BY <1>1, IndexIs
<1>7. q = IF g.edgePos[k] # NoPos THEN Least(OfEdge(Steps(doc), k)).pos
                 ELSE Beyond(g) + Len(g.nodes) + Index(g.edges, k)
  BY <1>3 DEF PlaceOfEdge
<1>8. CASE g.edgePos[k] = NoPos
  BY <1>5, <1>6, <1>7, <1>8
<1>9. CASE g.edgePos[k] # NoPos
  <2>1. g.edgePos[k] = Least(OfEdge(Steps(doc), k)).pos
    BY <1>2, <1>9 DEF PositionsOf
  <2>2. g.edgePos[k] \in Nat
    BY <1>2, <1>9 DEF Position
  <2> QED  BY <1>5, <1>7, <1>9, <2>1, <2>2
<1> QED  BY <1>8, <1>9

LEMMA PlaceIs ==
    ASSUME GraphOK(g), PositionsOf(g, doc), NEW p, p = PrintItems(g),
           NEW a \in 1..Len(p), NEW it, it = p[a]
    PROVE  /\ OffsetOf(g, it) >= 0 => ItemPlace(it) = OffsetOf(g, it)
           /\ OffsetOf(g, it) < 0  => /\ ItemPlace(it) = Beyond(g) + a
                                      /\ SortKey(g, it) = Beyond(g) + 1 => a <= Len(g.nodes)
                                      /\ SortKey(g, it) # Beyond(g) + 1 =>
                                            a > Len(g.nodes) /\ SortKey(g, it) = Beyond(g) + 2
<1>1. g \in Graph /\ g.nodes \in Seq(Id) /\ g.edges \in Seq(EdgeKey)
  BY DEF GraphOK, Graph
<1>2. Len(g.nodes) \in Nat /\ Len(g.edges) \in Nat /\ Beyond(g) \in Nat
  BY <1>1, BeyondFacts
<1>3. a \in 1..Len(g.nodes) \/ a - Len(g.nodes) \in 1..Len(g.edges)
  BY PrintItemsFacts
<1>4. a \in Int
  OBVIOUS
<1>5. OffsetOf(g, it) < 0 => SortKey(g, it) = Beyond(g) - OffsetOf(g, it)
  <2>1. it \in ToSet(p)
    BY PrintItemsFacts, ToSetOfSeq
  <2> QED  BY <2>1, SortKeyFacts
<1>6. CASE a \in 1..Len(g.nodes)
  <2>1. PICK x : x = g.nodes[a]
    OBVIOUS
  <2>2. it = NodeItem(x) /\ x \in Id
    <3>1. \A i \in 1..Len(g.nodes) : PrintItems(g)[i] = NodeItem(g.nodes[i])
      BY PrintItemsFacts
    <3>2. g.nodes[a] \in Id
      BY <1>1, <1>6
    <3> QED  BY <1>6, <2>1, <3>1, <3>2
  <2>3. /\ OffsetOf(g, NodeItem(x)) >= 0 => ItemPlace(NodeItem(x)) = OffsetOf(g, NodeItem(x))
        /\ OffsetOf(g, NodeItem(x)) < 0  => ItemPlace(NodeItem(x)) = Beyond(g) + a
    BY <1>6, <2>1, NodePlace
  <2>4. OffsetOf(g, it) < 0 => OffsetOf(g, it) = -1
    <3>1. OffsetOf(g, NodeItem(x)) = IF g.declPos[x] = NoPos THEN -1 ELSE g.declPos[x]
      BY <1>1, <2>2, OffsetOfFacts
    <3>2. g.declPos[x] # NoPos => g.declPos[x] \in Nat
      BY <1>1, <2>2 DEF Graph, Position
    <3> QED  BY <2>2, <3>1, <3>2
  <2>5. OffsetOf(g, it) < 0 => SortKey(g, it) = Beyond(g) + 1
    BY <1>2, <1>5, <2>4
  <2>6. a <= Len(g.nodes)
    BY <1>6
  <2> QED  BY <2>2, <2>3, <2>5, <2>6
<1>7. CASE a - Len(g.nodes) \in 1..Len(g.edges)
  <2>1. PICK e \in 1..Len(g.edges) : a = Len(g.nodes) + e
    <3>1. a = Len(g.nodes) + (a - Len(g.nodes))
      BY <1>2, <1>4
    <3> QED  BY <1>7, <3>1
  <2>2. PICK k : k = g.edges[e]
    OBVIOUS
  <2>3. it = EdgeItem(k) /\ k \in EdgeKey
    <3>1. \A i \in 1..Len(g.edges) : PrintItems(g)[Len(g.nodes) + i] = EdgeItem(g.edges[i])
      BY PrintItemsFacts
    <3>2. g.edges[e] \in EdgeKey
      BY <1>1
    <3> QED  BY <2>1, <2>2, <3>1, <3>2
  <2>4. /\ OffsetOf(g, EdgeItem(k)) >= 0 => ItemPlace(EdgeItem(k)) = OffsetOf(g, EdgeItem(k))
        /\ OffsetOf(g, EdgeItem(k)) < 0  =>
              ItemPlace(EdgeItem(k)) = Beyond(g) + Len(g.nodes) + e
    BY <2>2, EdgePlace
  <2>5. OffsetOf(g, it) < 0 => OffsetOf(g, it) = -2
    <3>1. OffsetOf(g, EdgeItem(k)) = IF g.edgePos[k] = NoPos THEN -2 ELSE g.edgePos[k]
      BY <1>1, <2>3, OffsetOfFacts
    <3>2. g.edgePos[k] # NoPos => g.edgePos[k] \in Nat
      BY <1>1, <2>3 DEF Graph, Position
    <3> QED  BY <2>3, <3>1, <3>2
  <2>6. OffsetOf(g, it) < 0 => SortKey(g, it) = Beyond(g) + 2 /\ SortKey(g, it) # Beyond(g) + 1
    BY <1>2, <1>5, <2>5
  <2>7. a > Len(g.nodes) /\ Beyond(g) + Len(g.nodes) + e = Beyond(g) + a
    BY <1>2, <2>1, SMTT(30)
  <2> QED  BY <2>3, <2>4, <2>6, <2>7
<1> QED  BY <1>3, <1>6, <1>7

LEMMA LinesInOrder ==
    ASSUME GraphOK(g), DocOK(doc), PositionsOf(g, doc), NEW L, L = InPrintOrder(g),
           NEW i \in 1..Len(L), NEW j \in 1..Len(L), i < j
    PROVE  ItemPlace(L[i]) < ItemPlace(L[j])
<1>1. PICK p, b : p = PrintItems(g) /\ b = Beyond(g)
  OBVIOUS
<1>2. p \in Seq(PrintItem) /\ b \in Nat
  BY <1>1, PrintItemsFacts, BeyondFacts
<1>3. L \in Seq(PrintItem) /\ IsInjective(L) /\ ToSet(L) \subseteq ToSet(p)
  <2>1. ToSet(L) = ToSet(Kept(g))
    BY InPrintOrderFacts
  <2>2. ToSet(Kept(g)) \subseteq ToSet(p)
    BY <1>1, KeptFacts
  <2>3. L \in Seq(PrintItem) /\ IsInjective(L)
    BY InPrintOrderFacts
  <2> QED  BY <2>1, <2>2, <2>3
<1>4. L[i] \in ToSet(p) /\ L[j] \in ToSet(p) /\ L[i] # L[j]
  <2>1. L[i] \in ToSet(L) /\ L[j] \in ToSet(L)
    BY <1>3, ToSetOfSeq
  <2>2. L[i] # L[j]
    BY <1>3, InjectiveSeq
  <2> QED  BY <1>3, <2>1, <2>2
<1>5. PICK m \in 1..Len(p) : p[m] = L[i]
  BY <1>2, <1>4, ToSetOfSeq
<1>6. PICK n \in 1..Len(p) : p[n] = L[j]
  BY <1>2, <1>4, ToSetOfSeq
<1>7. PICK u, v : u = OffsetOf(g, L[i]) /\ v = OffsetOf(g, L[j])
  OBVIOUS
<1>8. PICK s, t : s = SortKey(g, L[i]) /\ t = SortKey(g, L[j])
  OBVIOUS
<1>9. PICK y, z : y = ItemPlace(L[i]) /\ z = ItemPlace(L[j])
  OBVIOUS
<1>10. s <= t
  BY <1>8, InPrintOrderFacts
<1>11. /\ u \in Int /\ s \in Int /\ u < b
       /\ u >= 0 => s = u
  BY <1>1, <1>4, <1>7, <1>8, OffsetOfFacts, SortKeyFacts, BeyondFacts, <1>3 DEF GraphOK
<1>12. /\ v \in Int /\ t \in Int /\ v < b
       /\ v >= 0 => t = v
  BY <1>1, <1>4, <1>7, <1>8, OffsetOfFacts, SortKeyFacts, BeyondFacts, <1>3 DEF GraphOK
<1>13. /\ u >= 0 => y = u
       /\ u < 0 => /\ y = b + m
                   /\ s = b + 1 => m <= Len(g.nodes)
                   /\ s # b + 1 => m > Len(g.nodes) /\ s = b + 2
  BY <1>1, <1>5, <1>7, <1>8, <1>9, PlaceIs
<1>14. /\ v >= 0 => z = v
       /\ v < 0 => /\ z = b + n
                   /\ t = b + 1 => n <= Len(g.nodes)
                   /\ t # b + 1 => n > Len(g.nodes) /\ t = b + 2
  BY <1>1, <1>6, <1>7, <1>8, <1>9, PlaceIs
<1>15. u >= 0 => u # v
  <2>1. L[i] \in PrintItem /\ L[j] \in PrintItem /\ g \in Graph
    BY <1>3 DEF GraphOK
  <2> QED  BY <1>4, <1>7, <2>1, PositionsDiffer
<1>16. s = t => m < n
  BY <1>1, <1>5, <1>6, <1>8, TiesInOrder
<1>17. m \in Nat /\ n \in Nat /\ m >= 1 /\ n >= 1 /\ Len(g.nodes) \in Nat
  BY <1>2 DEF GraphOK, Graph
<1>18. y < z
  <2>1. CASE u >= 0 /\ v >= 0
    BY <1>10, <1>11, <1>12, <1>13, <1>14, <1>15, <2>1
  <2>2. CASE u >= 0 /\ v < 0
    BY <1>2, <1>11, <1>13, <1>14, <1>17, <2>2
  <2>3. CASE u < 0 /\ v >= 0
    BY <1>2, <1>10, <1>11, <1>12, <1>13, <2>3
  <2>4. CASE u < 0 /\ v < 0
    BY <1>2, <1>10, <1>13, <1>14, <1>16, <1>17, <2>4
  <2> QED  BY <1>11, <1>12, <2>1, <2>2, <2>3, <2>4
<1> QED  BY <1>9, <1>18

(* Lines for nodes and edges that were in the document come first, in the     *)
(* order of their first declarations there; then the new nodes and then the   *)
(* new edges, each in the order in which the graph lists them.                *)
THEOREM OldLinesFirstHolds == MarshalSpec => OldLinesFirst
<1>1. IInv /\ [Next]_allVars =>
          [text' # text => \A i, j \in 1..Len(text') : i < j =>
              \E p \in PlacesOf(text'[i]), q \in PlacesOf(text'[j]) : p < q]_allVars
  <2> SUFFICES ASSUME IInv, Next, text' # text,
                      NEW i \in 1..Len(text'), NEW j \in 1..Len(text'), i < j
               PROVE  \E p \in PlacesOf(text'[i]), q \in PlacesOf(text'[j]) : p < q
    OBVIOUS
  <2>1. CASE Step /\ UNCHANGED <<edits, text, written, keptVars>>
    BY <2>1
  <2>2. CASE Edit
    BY <2>2, EditKeepsText
  <2>3. CASE Rewrite
    <3>1. err = "nil" /\ text' = MarshalText(g)
      BY <2>3 DEF Rewrite
    <3>2. PICK L : L = InPrintOrder(g)
      OBVIOUS
    <3>3. GraphOK(g) /\ DocOK(doc) /\ PositionsOf(g, doc)
      BY <3>1 DEF IInv
    <3>4. Prints(g, L, text')
      BY <3>1, <3>2, <3>3, TextPrints
    <3>5. i \in 1..Len(L) /\ j \in 1..Len(L)
      <4>1. Len(text') = Len(L)
        BY <3>4, LinesAre
      <4> QED  BY <4>1
    <3>6. ItemPlace(L[i]) \in PlacesOf(text'[i]) /\ ItemPlace(L[j]) \in PlacesOf(text'[j])
      BY <3>4, <3>5, PlaceOfLine
    <3>7. ItemPlace(L[i]) < ItemPlace(L[j])
      BY <3>2, <3>3, <3>5, LinesInOrder
    <3> QED  BY <3>6, <3>7
  <2> QED  BY <2>1, <2>2, <2>3 DEF Next
<1> QED  BY <1>1, Invariant, PTL DEF MarshalSpec, OldLinesFirst
=============================================================================
