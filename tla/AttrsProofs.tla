----------------------------- MODULE AttrsProofs -----------------------------
(***************************************************************************)
(* Proofs about Attrs, for every set of keys and values: no key is ever     *)
(* twice in the slice, and the slice implements the ordered map of AttrMap. *)
(* For each write there is a lemma on what it makes of a sequence of pairs: *)
(* its keys, the value of each, and which key comes before which.           *)
(***************************************************************************)
EXTENDS Attrs, OperatorProofs

-----------------------------------------------------------------------------
(* A sequence of pairs as a map and an order.                                *)

DistinctKeys(P) == \A i, j \in 1..Len(P) : P[i].key = P[j].key => i = j

KeysIn(P)  == {P[i].key : i \in 1..Len(P)}
ValueOf(P) == [x \in Key |-> IF Places(P, x) = {} THEN Nil
                             ELSE P[FirstPlace(P, x)].value]
BeforeIn(P) == {p \in Key \X Key : \E i, j \in 1..Len(P) :
                   i < j /\ P[i].key = p[1] /\ P[j].key = p[2]}

(* A nil slice or a slice of pairs holds a sequence of pairs.                *)
LEMMA PairsAreSeq == TypeOK => Pairs \in Seq(Pair)
BY DEF TypeOK, Pairs

(* Elements of a sequence of pairs are pairs.                                *)
LEMMA PairFacts ==
    ASSUME NEW P \in Seq(Pair), NEW i \in 1..Len(P)
    PROVE  /\ P[i] \in Pair /\ P[i].key \in Key /\ P[i].value \in Value
           /\ P[i].value # Nil
           /\ P[i] = [key |-> P[i].key, value |-> P[i].value]
<1>1. P[i] \in Pair
  OBVIOUS
<1> QED  BY <1>1, AttrAssumption DEF Pair

(* KeysUnique, without counting.                                             *)
LEMMA KeysUniqueIsDistinct ==
    ASSUME NEW P \in Seq(Pair)
    PROVE  (\A x \in Key : Cardinality(Places(P, x)) <= 1) <=> DistinctKeys(P)
<1>1. ASSUME NEW x
      PROVE  Cardinality(Places(P, x)) <= 1 <=> \A i, j \in Places(P, x) : i = j
  <2>1. Places(P, x) \in SUBSET (1..Len(P)) /\ IsFiniteSet(1..Len(P))
    BY FS_Interval DEF Places
  <2>2. IsFiniteSet(Places(P, x))
    BY <2>1, FS_Subset
  <2> QED  BY <2>2, AtMostOne
<1>2. ASSUME NEW i \in 1..Len(P)
      PROVE  P[i].key \in Key /\ i \in Places(P, P[i].key)
  BY PairFacts DEF Places
<1>3. DistinctKeys(P) <=> \A x \in Key : \A i, j \in Places(P, x) : i = j
  BY <1>2 DEF Places, DistinctKeys
<1> QED  BY <1>1, <1>3

(* Where keys are distinct, a search finds the one pair that has the key.    *)
LEMMA SearchFinds ==
    ASSUME NEW P \in Seq(Pair), DistinctKeys(P), NEW i \in 1..Len(P)
    PROVE  /\ Places(P, P[i].key) = {i} /\ FirstPlace(P, P[i].key) = i
           /\ ValueOf(P)[P[i].key] = P[i].value
<1>1. Places(P, P[i].key) = {i}
  BY DEF Places, DistinctKeys
<1>2. FirstPlace(P, P[i].key) = i
  BY <1>1 DEF FirstPlace
<1> QED  BY <1>1, <1>2, PairFacts DEF ValueOf

(* And a search that finds nothing means that no pair has the key.           *)
LEMMA SearchMisses ==
    ASSUME NEW P \in Seq(Pair), NEW x
    PROVE  /\ Places(P, x) = {} <=> x \notin KeysIn(P)
           /\ x \in Key /\ x \notin KeysIn(P) => ValueOf(P)[x] = Nil
BY DEF Places, KeysIn, ValueOf

(* ValueOf(P) is a map from keys to values, with a value for each key of P.   *)
LEMMA ValueOfType ==
    ASSUME NEW P \in Seq(Pair), DistinctKeys(P)
    PROVE  /\ ValueOf(P) \in [Key -> Value \cup {Nil}]
           /\ KeysIn(P) \subseteq Key
           /\ \A x \in Key : ValueOf(P)[x] # Nil <=> x \in KeysIn(P)
<1>1. ASSUME NEW x \in KeysIn(P)
      PROVE  x \in Key /\ ValueOf(P)[x] \in Value /\ ValueOf(P)[x] # Nil
  <2>1. PICK i \in 1..Len(P) : x = P[i].key
    BY DEF KeysIn
  <2> QED  BY <2>1, PairFacts, SearchFinds
<1>2. \A x \in Key : x \notin KeysIn(P) => ValueOf(P)[x] = Nil
  BY SearchMisses
<1>3. \A x \in Key : ValueOf(P)[x] \in Value \cup {Nil}
  BY <1>1, <1>2
<1>4. ValueOf(P) \in [Key -> Value \cup {Nil}]
  BY <1>3 DEF ValueOf
<1> QED  BY <1>1, <1>2, <1>4

(* P has exactly the values of the map m.                                    *)
LEMMA ValueOfIs ==
    ASSUME NEW P \in Seq(Pair), DistinctKeys(P),
           NEW m \in [Key -> Value \cup {Nil}],
           \A i \in 1..Len(P) : m[P[i].key] = P[i].value,
           \A x \in Key : m[x] # Nil => x \in KeysIn(P)
    PROVE  ValueOf(P) = m
<1>1. ASSUME NEW x \in Key
      PROVE  ValueOf(P)[x] = m[x]
  <2>1. CASE x \in KeysIn(P)
    <3>1. PICK i \in 1..Len(P) : x = P[i].key
      BY <2>1 DEF KeysIn
    <3> QED  BY <3>1, SearchFinds
  <2>2. CASE x \notin KeysIn(P)
    BY <2>2, SearchMisses
  <2> QED  BY <2>1, <2>2
<1>2. ValueOf(P) \in [Key -> Value \cup {Nil}]
  BY ValueOfType
<1> QED  BY <1>1, <1>2

-----------------------------------------------------------------------------
(* The order of the keys, in what the code makes of a sequence of pairs.      *)

(* BeforeIn(P) compares the places of keys.                                  *)
LEMMA BeforeCompares ==
    ASSUME NEW P \in Seq(Pair), DistinctKeys(P),
           NEW i \in 1..Len(P), NEW j \in 1..Len(P)
    PROVE  <<P[i].key, P[j].key>> \in BeforeIn(P) <=> i < j
<1>1. P[i].key \in Key /\ P[j].key \in Key
  BY PairFacts
<1>2. ASSUME <<P[i].key, P[j].key>> \in BeforeIn(P)
      PROVE  i < j
  <2>1. PICK a \in 1..Len(P), b \in 1..Len(P) :
             a < b /\ P[a].key = P[i].key /\ P[b].key = P[j].key
    BY <1>2 DEF BeforeIn
  <2>2. a = i /\ b = j
    BY <2>1 DEF DistinctKeys
  <2> QED  BY <2>1, <2>2
<1>3. i < j => <<P[i].key, P[j].key>> \in BeforeIn(P)
  BY <1>1 DEF BeforeIn
<1> QED  BY <1>2, <1>3

(* BeforeIn(P) relates keys of P only, and orders them totally.               *)
LEMMA BeforeIsOrder ==
    ASSUME NEW P \in Seq(Pair), DistinctKeys(P)
    PROVE  /\ BeforeIn(P) \in SUBSET (Key \X Key)
           /\ BeforeIn(P) \subseteq KeysIn(P) \X KeysIn(P)
           /\ \A x : <<x, x>> \notin BeforeIn(P)
           /\ \A x, y \in KeysIn(P) : x # y =>
                 (<<x, y>> \in BeforeIn(P) <=> <<y, x>> \notin BeforeIn(P))
           /\ \A x, y, z \in KeysIn(P) :
                 <<x, y>> \in BeforeIn(P) /\ <<y, z>> \in BeforeIn(P)
                     => <<x, z>> \in BeforeIn(P)
<1>1. /\ BeforeIn(P) \in SUBSET (Key \X Key)
      /\ BeforeIn(P) \subseteq KeysIn(P) \X KeysIn(P)
  BY DEF BeforeIn, KeysIn
<1>2. \A i, j \in 1..Len(P) : <<P[i].key, P[j].key>> \in BeforeIn(P) <=> i < j
  BY BeforeCompares
<1>3. \A x \in KeysIn(P) : \E i \in 1..Len(P) : x = P[i].key
  BY DEF KeysIn
<1>4. ASSUME NEW x, <<x, x>> \in BeforeIn(P)
      PROVE  FALSE
  <2>1. PICK i \in 1..Len(P) : x = P[i].key
    BY <1>1, <1>3, <1>4
  <2> QED  BY <1>2, <1>4, <2>1
<1>5. ASSUME NEW x \in KeysIn(P), NEW y \in KeysIn(P), x # y
      PROVE  <<x, y>> \in BeforeIn(P) <=> <<y, x>> \notin BeforeIn(P)
  <2>1. PICK i \in 1..Len(P) : x = P[i].key
    BY <1>3
  <2>2. PICK j \in 1..Len(P) : y = P[j].key
    BY <1>3
  <2>3. i # j /\ (i < j <=> ~ (j < i))
    BY <1>5, <2>1, <2>2
  <2> QED  BY <1>2, <2>1, <2>2, <2>3
<1>6. ASSUME NEW x \in KeysIn(P), NEW y \in KeysIn(P), NEW z \in KeysIn(P),
             <<x, y>> \in BeforeIn(P), <<y, z>> \in BeforeIn(P)
      PROVE  <<x, z>> \in BeforeIn(P)
  <2>1. PICK i \in 1..Len(P) : x = P[i].key
    BY <1>3
  <2>2. PICK j \in 1..Len(P) : y = P[j].key
    BY <1>3
  <2>3. PICK l \in 1..Len(P) : z = P[l].key
    BY <1>3
  <2>4. i < j /\ j < l
    BY <1>2, <1>6, <2>1, <2>2, <2>3
  <2>5. i < l
    BY <2>4
  <2> QED  BY <1>2, <2>1, <2>3, <2>5
<1> QED  BY <1>1, <1>4, <1>5, <1>6

(* Pairs left out, values changed: the other keys keep their order.          *)
LEMMA SubsequenceOrder ==
    ASSUME NEW P \in Seq(Pair), DistinctKeys(P), NEW Q \in Seq(Pair),
           NEW h \in [1..Len(Q) -> 1..Len(P)],
           \A j, l \in 1..Len(Q) : h[j] < h[l] <=> j < l,
           \A j \in 1..Len(Q) : Q[j].key = P[h[j]].key
    PROVE  /\ DistinctKeys(Q) /\ KeysIn(Q) \subseteq KeysIn(P)
           /\ BeforeIn(Q) = {p \in BeforeIn(P) : {p[1], p[2]} \subseteq KeysIn(Q)}
<1>1. \A j \in 1..Len(Q) : h[j] \in 1..Len(P) /\ Q[j].key = P[h[j]].key
  OBVIOUS
<1>2. DistinctKeys(Q)
  <2>1. ASSUME NEW j \in 1..Len(Q), NEW l \in 1..Len(Q), Q[j].key = Q[l].key
        PROVE  j = l
    <3>1. h[j] = h[l]
      BY <1>1, <2>1 DEF DistinctKeys
    <3>2. ~ (h[j] < h[l]) /\ ~ (h[l] < h[j])
      BY <1>1, <3>1
    <3> QED  BY <3>2
  <2> QED  BY <2>1 DEF DistinctKeys
<1>3. KeysIn(Q) \subseteq KeysIn(P)
  BY <1>1 DEF KeysIn
<1>4. ASSUME NEW p \in BeforeIn(Q)
      PROVE  p \in BeforeIn(P) /\ {p[1], p[2]} \subseteq KeysIn(Q)
  <2>1. PICK j \in 1..Len(Q), l \in 1..Len(Q) :
             j < l /\ Q[j].key = p[1] /\ Q[l].key = p[2] /\ p \in Key \X Key
    BY <1>4 DEF BeforeIn
  <2>2. h[j] < h[l] /\ P[h[j]].key = p[1] /\ P[h[l]].key = p[2]
    BY <1>1, <2>1
  <2> QED  BY <1>1, <2>1, <2>2 DEF BeforeIn, KeysIn
<1>5. ASSUME NEW p \in BeforeIn(P), {p[1], p[2]} \subseteq KeysIn(Q)
      PROVE  p \in BeforeIn(Q)
  <2>1. PICK j \in 1..Len(Q), l \in 1..Len(Q) : Q[j].key = p[1] /\ Q[l].key = p[2]
    BY <1>5 DEF KeysIn
  <2>2. p \in Key \X Key /\ p = <<p[1], p[2]>>
    BY <1>5 DEF BeforeIn
  <2>3. /\ h[j] \in 1..Len(P) /\ h[l] \in 1..Len(P)
        /\ <<P[h[j]].key, P[h[l]].key>> \in BeforeIn(P)
    BY <1>1, <2>1, <2>2, <1>5
  <2>4. h[j] < h[l]
    BY <2>3, BeforeCompares
  <2> QED  BY <2>1, <2>2, <2>4 DEF BeforeIn
<1> QED  BY <1>2, <1>3, <1>4, <1>5

(* Pairs with new keys go behind the others.                                 *)
LEMMA ConcatOrder ==
    ASSUME NEW Q \in Seq(Pair), DistinctKeys(Q), NEW W \in Seq(Pair), DistinctKeys(W),
           KeysIn(Q) \cap KeysIn(W) = {}
    PROVE  /\ Q \o W \in Seq(Pair) /\ DistinctKeys(Q \o W)
           /\ KeysIn(Q \o W) = KeysIn(Q) \cup KeysIn(W)
           /\ BeforeIn(Q \o W) = BeforeIn(Q) \cup BeforeIn(W) \cup (KeysIn(Q) \X KeysIn(W))
<1> DEFINE P == Q \o W
           q == Len(Q)
           w == Len(W)
<1>0. P \in Seq(Pair) /\ Len(P) = q + w /\ q \in Nat /\ w \in Nat
  OBVIOUS
<1>1. \A i \in 1..q : i \in 1..Len(P) /\ P[i].key = Q[i].key
  BY ConcatFacts
<1>2. \A j \in 1..w : q + j \in 1..Len(P) /\ P[q + j].key = W[j].key
  BY ConcatFacts
<1> HIDE DEF P, q, w
<1>3. \A i \in 1..Len(P) : i \in 1..q \/ \E j \in 1..w : i = q + j
  <2> TAKE i \in 1..Len(P)
  <2>1. i \in 1..q \/ (i - q \in 1..w /\ i = q + (i - q))
    BY <1>0
  <2> QED  BY <2>1
<1>4. /\ \A i \in 1..q : Q[i].key \in KeysIn(Q)
      /\ \A j \in 1..w : W[j].key \in KeysIn(W)
      /\ \A x \in KeysIn(Q) : \E i \in 1..q : Q[i].key = x
      /\ \A x \in KeysIn(W) : \E j \in 1..w : W[j].key = x
      /\ \A i \in 1..Len(P) : P[i].key \in KeysIn(P)
      /\ \A x \in KeysIn(P) : \E i \in 1..Len(P) : P[i].key = x
  BY DEF KeysIn, q, w
<1>5. DistinctKeys(P)
  <2>1. ASSUME NEW i \in 1..q, NEW j \in 1..q, Q[i].key = Q[j].key
        PROVE  i = j
    BY <2>1 DEF DistinctKeys, q
  <2>2. ASSUME NEW i \in 1..w, NEW j \in 1..w, W[i].key = W[j].key
        PROVE  i = j
    BY <2>2 DEF DistinctKeys, w
  <2>3. ASSUME NEW i \in 1..Len(P), NEW j \in 1..Len(P), P[i].key = P[j].key
        PROVE  i = j
    <3>1. CASE i \in 1..q /\ j \in 1..q
      BY <1>1, <2>1, <2>3, <3>1
    <3>2. CASE i \in 1..q /\ \E b \in 1..w : j = q + b
      <4>1. P[i].key \in KeysIn(Q)
        BY <1>1, <1>4, <3>2
      <4>2. PICK b \in 1..w : j = q + b
        BY <3>2
      <4>3. P[j].key \in KeysIn(W)
        BY <1>2, <1>4, <4>2
      <4> QED  BY <1>4, <2>3, <4>1, <4>3
    <3>3. CASE j \in 1..q /\ \E a \in 1..w : i = q + a
      <4>1. P[j].key \in KeysIn(Q)
        BY <1>1, <1>4, <3>3
      <4>2. PICK a \in 1..w : i = q + a
        BY <3>3
      <4>3. P[i].key \in KeysIn(W)
        BY <1>2, <1>4, <4>2
      <4> QED  BY <1>4, <2>3, <4>1, <4>3
    <3>4. CASE (\E a \in 1..w : i = q + a) /\ \E b \in 1..w : j = q + b
      BY <1>2, <2>2, <2>3, <3>4
    <3> QED  BY <1>3, <3>1, <3>2, <3>3, <3>4
  <2> QED  BY <2>3 DEF DistinctKeys
<1>6. KeysIn(P) = KeysIn(Q) \cup KeysIn(W)
  <2>1. ASSUME NEW x \in KeysIn(P)
        PROVE  x \in KeysIn(Q) \cup KeysIn(W)
    <3>1. PICK i \in 1..Len(P) : P[i].key = x
      BY <1>4
    <3> QED  BY <1>1, <1>2, <1>3, <1>4, <3>1
  <2>2. ASSUME NEW x \in KeysIn(Q)
        PROVE  x \in KeysIn(P)
    BY <1>1, <1>4
  <2>3. ASSUME NEW x \in KeysIn(W)
        PROVE  x \in KeysIn(P)
    BY <1>2, <1>4
  <2> QED  BY <2>1, <2>2, <2>3
<1>7. KeysIn(P) \subseteq Key
  BY <1>0, <1>5, ValueOfType
<1>8. \A p \in BeforeIn(P) : \E i, j \in 1..Len(P) :
          i < j /\ p = <<P[i].key, P[j].key>>
  BY DEF BeforeIn
<1>9. \A i, j \in 1..Len(P) : i < j <=> <<P[i].key, P[j].key>> \in BeforeIn(P)
  BY <1>0, <1>5, BeforeCompares
<1>10. /\ \A i, j \in 1..q : i < j <=> <<Q[i].key, Q[j].key>> \in BeforeIn(Q)
       /\ \A i, j \in 1..w : i < j <=> <<W[i].key, W[j].key>> \in BeforeIn(W)
  BY BeforeCompares DEF q, w
<1>11. /\ \A p \in BeforeIn(Q) : \E i, j \in 1..q : i < j /\ p = <<Q[i].key, Q[j].key>>
       /\ \A p \in BeforeIn(W) : \E i, j \in 1..w : i < j /\ p = <<W[i].key, W[j].key>>
  BY DEF BeforeIn, q, w
<1>12. ASSUME NEW p \in BeforeIn(P)
       PROVE  p \in BeforeIn(Q) \cup BeforeIn(W) \cup (KeysIn(Q) \X KeysIn(W))
  <2>1. PICK i \in 1..Len(P), j \in 1..Len(P) : i < j /\ p = <<P[i].key, P[j].key>>
    BY <1>8
  <2>2. CASE i \in 1..q /\ j \in 1..q
    BY <1>1, <1>10, <2>1, <2>2
  <2>3. CASE i \in 1..q /\ \E b \in 1..w : j = q + b
    <3>1. P[i].key \in KeysIn(Q)
      BY <1>1, <1>4, <2>3
    <3>2. PICK b \in 1..w : j = q + b
      BY <2>3
    <3>3. P[j].key \in KeysIn(W)
      BY <1>2, <1>4, <3>2
    <3> QED  BY <2>1, <3>1, <3>3
  <2>4. CASE j \in 1..q /\ \E a \in 1..w : i = q + a
    BY <1>0, <2>1, <2>4
  <2>5. CASE (\E a \in 1..w : i = q + a) /\ \E b \in 1..w : j = q + b
    <3>1. PICK a \in 1..w, b \in 1..w : i = q + a /\ j = q + b
      BY <2>5
    <3>2. a < b
      BY <1>0, <2>1, <3>1
    <3> QED  BY <1>2, <1>10, <2>1, <3>1, <3>2
  <2> QED  BY <1>3, <2>2, <2>3, <2>4, <2>5
<1>13. ASSUME NEW p \in BeforeIn(Q)
       PROVE  p \in BeforeIn(P)
  BY <1>1, <1>9, <1>11
<1>14. ASSUME NEW p \in BeforeIn(W)
       PROVE  p \in BeforeIn(P)
  <2>1. PICK a \in 1..w, b \in 1..w : a < b /\ p = <<W[a].key, W[b].key>>
    BY <1>11
  <2>2. q + a < q + b
    BY <1>0, <2>1
  <2> QED  BY <1>2, <1>9, <2>1, <2>2
<1>15. ASSUME NEW p \in KeysIn(Q) \X KeysIn(W)
       PROVE  p \in BeforeIn(P)
  <2>1. PICK i \in 1..q, j \in 1..w : p = <<Q[i].key, W[j].key>>
    BY <1>4
  <2>2. i < q + j
    BY <1>0
  <2> QED  BY <1>1, <1>2, <1>9, <2>1, <2>2
<1>16. BeforeIn(P) = BeforeIn(Q) \cup BeforeIn(W) \cup (KeysIn(Q) \X KeysIn(W))
  BY <1>12, <1>13, <1>14, <1>15
<1> QED  BY <1>0, <1>5, <1>6, <1>16 DEF P

-----------------------------------------------------------------------------
(* What each call makes of the pairs.                                        *)

(* SetAttr: one value changes, or a pair with a new key goes to the end.     *)
LEMMA WithAttrFacts ==
    ASSUME NEW P \in Seq(Pair), DistinctKeys(P), NEW x \in Key, NEW v \in Value
    PROVE  /\ WithAttr(P, x, v) \in Seq(Pair) /\ DistinctKeys(WithAttr(P, x, v))
           /\ ValueOf(WithAttr(P, x, v)) = [ValueOf(P) EXCEPT ![x] = v]
           /\ BeforeIn(WithAttr(P, x, v)) =
                 BeforeIn(P) \cup {<<y, x>> : y \in IF x \in KeysIn(P) THEN {} ELSE KeysIn(P)}
<1> DEFINE Q == WithAttr(P, x, v)
           m == [ValueOf(P) EXCEPT ![x] = v]
<1>1. /\ m \in [Key -> Value \cup {Nil}] /\ m[x] = v
      /\ \A y \in Key : y # x => m[y] = ValueOf(P)[y]
  BY ValueOfType
<1>2. CASE x \in KeysIn(P)
  <2>1. PICK g \in 1..Len(P) : x = P[g].key
    BY <1>2 DEF KeysIn
  <2>2. Places(P, x) = {g} /\ FirstPlace(P, x) = g
    BY <2>1, SearchFinds
  <2>3. Q = [P EXCEPT ![g].value = v]
    BY <2>2 DEF WithAttr
  <2> HIDE DEF Q, m
  <2>4. [P[g] EXCEPT !.value = v] = [key |-> x, value |-> v]
    <3>1. P[g] = [key |-> x, value |-> P[g].value]
      BY <2>1, PairFacts
    <3> QED  BY <3>1
  <2>5. /\ [key |-> x, value |-> v] \in Pair
        /\ Q = [P EXCEPT ![g] = [key |-> x, value |-> v]]
    BY <2>3, <2>4 DEF Pair
  <2>6. Q \in Seq(Pair) /\ Len(Q) = Len(P)
    BY <2>5
  <2>7. \A i \in 1..Len(P) : Q[i] = IF i = g THEN [key |-> x, value |-> v] ELSE P[i]
    BY <2>5
  <2>8. \A i \in 1..Len(P) : Q[i].key = P[i].key
    BY <2>1, <2>7
  <2>9. DistinctKeys(Q) /\ KeysIn(Q) = KeysIn(P) /\ BeforeIn(Q) = BeforeIn(P)
    BY <2>6, <2>8 DEF DistinctKeys, KeysIn, BeforeIn
  <2>10. ValueOf(Q) = m
    <3>1. ASSUME NEW i \in 1..Len(Q)
          PROVE  m[Q[i].key] = Q[i].value
      <4>1. CASE i = g
        BY <1>1, <2>6, <2>7, <4>1
      <4>2. CASE i # g
        <5>1. P[i].key \in Key /\ P[i].key # x
          BY <2>1, <2>6, <4>2, PairFacts DEF DistinctKeys
        <5>2. ValueOf(P)[P[i].key] = P[i].value
          BY <2>6, SearchFinds
        <5> QED  BY <1>1, <2>6, <2>7, <4>2, <5>1, <5>2
      <4> QED  BY <4>1, <4>2
    <3>2. ASSUME NEW y \in Key, m[y] # Nil
          PROVE  y \in KeysIn(Q)
      BY <1>1, <1>2, <2>9, <3>2, ValueOfType
    <3> QED  BY <1>1, <2>6, <2>9, <3>1, <3>2, ValueOfIs
  <2> QED  BY <1>2, <2>6, <2>9, <2>10 DEF Q, m
<1>3. CASE x \notin KeysIn(P)
  <2> DEFINE W == << [key |-> x, value |-> v] >>
  <2>1. Q = P \o W
    <3>1. Q = Append(P, [key |-> x, value |-> v])
      BY <1>3, SearchMisses DEF WithAttr
    <3> QED  BY <3>1
  <2>2. W \in Seq(Pair) /\ Len(W) = 1 /\ W[1].key = x /\ W[1].value = v
    BY DEF Pair
  <2> HIDE DEF Q, m, W
  <2>3. DistinctKeys(W) /\ KeysIn(W) = {x} /\ BeforeIn(W) = {}
    BY <2>2 DEF DistinctKeys, KeysIn, BeforeIn
  <2>4. /\ Q \in Seq(Pair) /\ DistinctKeys(Q)
        /\ KeysIn(Q) = KeysIn(P) \cup {x}
        /\ BeforeIn(Q) = BeforeIn(P) \cup (KeysIn(P) \X {x})
    BY <1>3, <2>1, <2>2, <2>3, ConcatOrder
  <2>5. ValueOf(Q) = m
    <3>1. ASSUME NEW i \in 1..Len(Q)
          PROVE  m[Q[i].key] = Q[i].value
      <4>1. CASE i \in 1..Len(P) /\ Q[i] = P[i]
        <5>1. P[i].key \in Key /\ P[i].key # x
          BY <1>3, <4>1, PairFacts DEF KeysIn
        <5>2. ValueOf(P)[P[i].key] = P[i].value
          BY <4>1, SearchFinds
        <5> QED  BY <1>1, <4>1, <5>1, <5>2
      <4>2. CASE i - Len(P) \in 1..1 /\ Q[i] = W[i - Len(P)]
        <5>1. i - Len(P) = 1
          BY <4>2
        <5> QED  BY <1>1, <2>2, <4>2, <5>1
      <4> QED  BY <2>1, <2>2, <4>1, <4>2, ConcatFacts
    <3>2. ASSUME NEW y \in Key, m[y] # Nil
          PROVE  y \in KeysIn(Q)
      BY <1>1, <2>4, <3>2, ValueOfType
    <3> QED  BY <1>1, <2>4, <3>1, <3>2, ValueOfIs
  <2>6. KeysIn(P) \X {x} = {<<y, x>> : y \in KeysIn(P)}
    OBVIOUS
  <2> QED  BY <1>3, <2>4, <2>5, <2>6 DEF Q, m
<1> QED  BY <1>2, <1>3

(* DeleteAttr: the pair with the key goes, the others keep their order.      *)
LEMMA DeletePairFacts ==
    ASSUME NEW P \in Seq(Pair), DistinctKeys(P), NEW g \in 1..Len(P)
    PROVE  /\ DeleteFirst(P, P[g]) \in Seq(Pair)
           /\ DistinctKeys(DeleteFirst(P, P[g]))
           /\ ValueOf(DeleteFirst(P, P[g])) = [ValueOf(P) EXCEPT ![P[g].key] = Nil]
           /\ BeforeIn(DeleteFirst(P, P[g])) = {p \in BeforeIn(P) : P[g].key \notin {p[1], p[2]}}
<1> DEFINE Q == DeleteFirst(P, P[g])
           h == [j \in 1..Len(Q) |-> IF j < g THEN j ELSE j + 1]
           m == [ValueOf(P) EXCEPT ![P[g].key] = Nil]
<1>1. Q = [j \in 1..Len(P) - 1 |-> IF j < g THEN P[j] ELSE P[j + 1]]
  <2>1. \A i \in 1..Len(P) : P[i] = P[g] => i = g
    BY DEF DistinctKeys
  <2>2. \A j \in 1..g - 1 : P[j] # P[g]
    BY <2>1
  <2>3. DOMAIN P = 1..Len(P)
    OBVIOUS
  <2>4. (CHOOSE i \in DOMAIN P : P[i] = P[g] /\ \A j \in 1..i - 1 : P[j] # P[g]) = g
    BY <2>1, <2>2, <2>3
  <2> QED  BY <2>4 DEF DeleteFirst
<1> HIDE DEF Q
<1>2. Q \in Seq(Pair) /\ Len(Q) = Len(P) - 1 /\ Len(P) \in Nat
  <2>1. \A j \in 1..Len(P) - 1 : (IF j < g THEN P[j] ELSE P[j + 1]) \in Pair
    OBVIOUS
  <2>2. Len(P) - 1 \in Nat /\ Len(P) \in Nat
    OBVIOUS
  <2> QED  BY <1>1, <2>1, <2>2
<1>3. /\ h \in [1..Len(Q) -> 1..Len(P)]
      /\ \A j \in 1..Len(Q) : h[j] # g /\ Q[j] = P[h[j]]
      /\ \A j, l \in 1..Len(Q) : h[j] < h[l] <=> j < l
  BY <1>1, <1>2
<1>4. ASSUME NEW i \in 1..Len(P), i # g
      PROVE  \E j \in 1..Len(Q) : h[j] = i
  <2>1. CASE i < g
    <3>1. i \in 1..Len(Q) /\ h[i] = i
      BY <1>2, <2>1
    <3> QED  BY <3>1
  <2>2. CASE i > g
    <3>1. i - 1 \in 1..Len(Q) /\ h[i - 1] = i
      BY <1>2, <2>2
    <3> QED  BY <3>1
  <2> QED  BY <1>4, <2>1, <2>2
<1> HIDE DEF h, m
<1>5. /\ DistinctKeys(Q) /\ KeysIn(Q) \subseteq KeysIn(P)
      /\ BeforeIn(Q) = {p \in BeforeIn(P) : {p[1], p[2]} \subseteq KeysIn(Q)}
  <2>1. h \in [1..Len(Q) -> 1..Len(P)]
    BY <1>3
  <2>2. \A j, l \in 1..Len(Q) : h[j] < h[l] <=> j < l
    BY <1>3
  <2>3. \A j \in 1..Len(Q) : Q[j].key = P[h[j]].key
    BY <1>3
  <2> QED  BY <1>2, <2>1, <2>2, <2>3, SubsequenceOrder, SMTT(60)
<1>6. KeysIn(Q) = KeysIn(P) \ {P[g].key}
  <2>1. ASSUME NEW y \in KeysIn(Q)
        PROVE  y # P[g].key
    <3>1. PICK j \in 1..Len(Q) : y = Q[j].key
      BY DEF KeysIn
    <3>2. h[j] \in 1..Len(P) /\ h[j] # g /\ y = P[h[j]].key
      BY <1>3, <3>1
    <3> QED  BY <3>2 DEF DistinctKeys
  <2>2. ASSUME NEW y \in KeysIn(P), y # P[g].key
        PROVE  y \in KeysIn(Q)
    <3>1. PICK i \in 1..Len(P) : y = P[i].key
      BY DEF KeysIn
    <3>2. PICK j \in 1..Len(Q) : h[j] = i
      BY <1>4, <2>2, <3>1
    <3> QED  BY <1>3, <3>1, <3>2 DEF KeysIn
  <2> QED  BY <1>5, <2>1, <2>2
<1>7. /\ m \in [Key -> Value \cup {Nil}] /\ m[P[g].key] = Nil
      /\ \A y \in Key : y # P[g].key => m[y] = ValueOf(P)[y]
  BY ValueOfType, PairFacts DEF m
<1>8. ValueOf(Q) = m
  <2>1. ASSUME NEW j \in 1..Len(Q)
        PROVE  m[Q[j].key] = Q[j].value
    <3>1. h[j] \in 1..Len(P) /\ h[j] # g /\ Q[j] = P[h[j]]
      BY <1>3
    <3>2. P[h[j]].key \in Key /\ P[h[j]].key # P[g].key
      BY <3>1, PairFacts DEF DistinctKeys
    <3>3. ValueOf(P)[P[h[j]].key] = P[h[j]].value
      BY <3>1, SearchFinds
    <3> QED  BY <1>7, <3>1, <3>2, <3>3
  <2>2. ASSUME NEW y \in Key, m[y] # Nil
        PROVE  y \in KeysIn(Q)
    BY <1>6, <1>7, <2>2, ValueOfType
  <2> QED  BY <1>2, <1>5, <1>7, <2>1, <2>2, ValueOfIs
<1>9. BeforeIn(Q) = {p \in BeforeIn(P) : P[g].key \notin {p[1], p[2]}}
  <2>1. \A p \in BeforeIn(P) : p[1] \in KeysIn(P) /\ p[2] \in KeysIn(P)
    BY BeforeIsOrder
  <2> QED  BY <1>5, <1>6, <2>1
<1> QED  BY <1>2, <1>5, <1>8, <1>9 DEF Q, m

(* The first loop of ReplaceAttrs: the pairs whose keys are in m.            *)
LEMMA KeptFacts ==
    ASSUME NEW P \in Seq(Pair), DistinctKeys(P), NEW m \in [Key -> Value \cup {Nil}]
    PROVE  /\ Kept(P, m) \in Seq(Pair) /\ DistinctKeys(Kept(P, m))
           /\ KeysIn(Kept(P, m)) = {x \in KeysIn(P) : m[x] # Nil}
           /\ \A i \in 1..Len(Kept(P, m)) : Kept(P, m)[i].value = m[Kept(P, m)[i].key]
           /\ BeforeIn(Kept(P, m)) =
                 {p \in BeforeIn(P) : {p[1], p[2]} \subseteq KeysIn(Kept(P, m))}
<1> DEFINE Q == Kept(P, m)
           S == [key : Key, value : Value \cup {Nil}]
           c(j) == [key |-> P[j].key, value |-> m[P[j].key]]
           R == [j \in 1..Len(P) |-> c(j)]
           I == {j \in 1..Len(P) : m[P[j].key] # Nil}
<1>1. \A j \in 1..Len(P) : /\ P[j].key \in Key /\ m[P[j].key] \in Value \cup {Nil}
                           /\ [P[j] EXCEPT !.value = m[P[j].key]] = c(j)
                           /\ FirstPlace(P, P[j].key) = j
  <2> TAKE j \in 1..Len(P)
  <2>1. P[j].key \in Key /\ P[j] = [key |-> P[j].key, value |-> P[j].value]
    BY PairFacts
  <2>2. [P[j] EXCEPT !.value = m[P[j].key]] = c(j)
    BY <2>1
  <2> QED  BY <2>1, <2>2, SearchFinds
<1>2. Q = KeepAt(R, I)
  <2>1. [j \in 1..Len(P) |-> [P[j] EXCEPT !.value = m[P[j].key]]] = R
    BY <1>1
  <2>2. {j \in 1..Len(P) : m[P[j].key] # Nil /\ j = FirstPlace(P, P[j].key)} = I
    BY <1>1
  <2> QED  BY <2>1, <2>2 DEF Kept
<1>3. R \in Seq(S) /\ Len(R) = Len(P) /\ I \in SUBSET (1..Len(P))
  <2>1. Len(P) \in Nat
    OBVIOUS
  <2>2. \A j \in 1..Len(P) : c(j) \in S
    BY <1>1
  <2> HIDE DEF c, S
  <2> QED  BY <2>1, <2>2
<1>4. /\ \A j \in 1..Len(P) : R[j] = c(j)
      /\ \A j \in I : j \in 1..Len(P) /\ m[P[j].key] # Nil
      /\ \A j \in 1..Len(P) : m[P[j].key] # Nil => j \in I
  OBVIOUS
<1> HIDE DEF Q, R, I
<1>5. Q \in Seq(S)
  BY <1>2, <1>3, KeepAtFacts
<1>6. PICK h \in [1..Len(Q) -> 1..Len(P)] :
         /\ \A k \in 1..Len(Q) : h[k] \in I /\ Q[k] = R[h[k]]
         /\ \A i \in I : \E k \in 1..Len(Q) : h[k] = i
         /\ \A j, k \in 1..Len(Q) : h[j] < h[k] <=> j < k
  <2> HIDE DEF S
  <2>1. I \in SUBSET (1..Len(R))
    BY <1>3
  <2>2. \E h \in [1..Len(KeepAt(R, I)) -> 1..Len(R)] :
           /\ \A k \in 1..Len(KeepAt(R, I)) : h[k] \in I /\ KeepAt(R, I)[k] = R[h[k]]
           /\ \A i \in I : \E k \in 1..Len(KeepAt(R, I)) : h[k] = i
           /\ \A j, k \in 1..Len(KeepAt(R, I)) : h[j] < h[k] <=> j < k
    BY <1>3, <2>1, KeepAtFacts
  <2>3. 1..Len(R) = 1..Len(P)
    BY <1>3
  <2> QED  BY <1>2, <2>2, <2>3, Zenon
<1>7. ASSUME NEW k \in 1..Len(Q)
      PROVE  /\ h[k] \in 1..Len(P) /\ m[P[h[k]].key] # Nil
             /\ Q[k] = [key |-> P[h[k]].key, value |-> m[P[h[k]].key]]
             /\ Q[k].key = P[h[k]].key /\ Q[k].value = m[P[h[k]].key]
  <2>1. h[k] \in I /\ h[k] \in 1..Len(P) /\ Q[k] = c(h[k])
    BY <1>4, <1>6
  <2> QED  BY <1>4, <2>1
<1>8. Q \in Seq(Pair)
  <2>1. ASSUME NEW k \in 1..Len(Q)
        PROVE  Q[k] \in Pair
    <3>1. P[h[k]].key \in Key /\ m[P[h[k]].key] \in Value
      BY <1>1, <1>7
    <3>2. [key |-> P[h[k]].key, value |-> m[P[h[k]].key]] \in Pair
      BY <3>1 DEF Pair
    <3> QED  BY <1>7, <3>2, Zenon
  <2>2. Len(Q) \in Nat /\ Q = [k \in 1..Len(Q) |-> Q[k]]
    BY <1>5
  <2> QED  BY <2>1, <2>2
<1>9. \A k \in 1..Len(Q) : Q[k].key = P[h[k]].key /\ Q[k].value = m[Q[k].key]
  BY <1>7
<1> HIDE DEF S, c
<1>10. /\ DistinctKeys(Q) /\ KeysIn(Q) \subseteq KeysIn(P)
       /\ BeforeIn(Q) = {p \in BeforeIn(P) : {p[1], p[2]} \subseteq KeysIn(Q)}
  <2>1. \A j, l \in 1..Len(Q) : h[j] < h[l] <=> j < l
    BY <1>6
  <2>2. \A j \in 1..Len(Q) : Q[j].key = P[h[j]].key
    BY <1>9
  <2>3. h \in [1..Len(Q) -> 1..Len(P)]
    BY <1>6
  <2> QED  BY <1>8, <2>1, <2>2, <2>3, SubsequenceOrder, SMTT(60)
<1>11. KeysIn(Q) = {x \in KeysIn(P) : m[x] # Nil}
  <2>1. ASSUME NEW x \in KeysIn(Q)
        PROVE  m[x] # Nil
    <3>1. PICK k \in 1..Len(Q) : x = Q[k].key
      BY DEF KeysIn
    <3> QED  BY <1>7, <3>1
  <2>2. ASSUME NEW x \in KeysIn(P), m[x] # Nil
        PROVE  x \in KeysIn(Q)
    <3>1. PICK i \in 1..Len(P) : x = P[i].key
      BY DEF KeysIn
    <3>2. PICK k \in 1..Len(Q) : h[k] = i
      BY <1>4, <1>6, <2>2, <3>1
    <3> QED  BY <1>9, <3>1, <3>2 DEF KeysIn
  <2> QED  BY <1>10, <2>1, <2>2
<1> QED  BY <1>8, <1>9, <1>10, <1>11 DEF Q

(* The second loop: a pair for each key in order.                            *)
LEMMA ListedFacts ==
    ASSUME NEW m \in [Key -> Value \cup {Nil}],
           NEW T \in SUBSET Key, IsFiniteSet(T), \A x \in T : m[x] # Nil,
           NEW order \in SetToSeqs(T)
    PROVE  /\ Listed(m, order) \in Seq(Pair) /\ DistinctKeys(Listed(m, order))
           /\ KeysIn(Listed(m, order)) = T
           /\ \A i \in 1..Len(Listed(m, order)) :
                 Listed(m, order)[i].value = m[Listed(m, order)[i].key]
<1> DEFINE W == Listed(m, order)
<1>1. /\ order \in Seq(T)
      /\ \A i, j \in 1..Len(order) : order[i] = order[j] => i = j
      /\ \A x \in T : \E i \in 1..Len(order) : order[i] = x
  BY SetToSeqsFacts
<1>2. /\ Len(order) \in Nat
      /\ \A i \in 1..Len(order) : order[i] \in T /\ order[i] \in Key /\ m[order[i]] \in Value
  BY <1>1
<1>3. W \in Seq(Pair) /\ Len(W) = Len(order)
  <2>1. \A i \in 1..Len(order) : [key |-> order[i], value |-> m[order[i]]] \in Pair
    BY <1>2 DEF Pair
  <2> QED  BY <1>2, <2>1 DEF Listed
<1>4. \A i \in 1..Len(W) : W[i].key = order[i] /\ W[i].value = m[order[i]]
  BY <1>3 DEF Listed
<1> HIDE DEF W
<1>5. DistinctKeys(W) /\ KeysIn(W) = T
  BY <1>1, <1>2, <1>3, <1>4 DEF DistinctKeys, KeysIn
<1>6. \A i \in 1..Len(W) : W[i].value = m[W[i].key]
  BY <1>4
<1> QED  BY <1>3, <1>5, <1>6 DEF W

(* ReplaceAttrs: exactly the pairs of m; the keys that stay keep their order, *)
(* and the new ones come behind them.                                        *)
LEMMA ReplacedFacts ==
    ASSUME NEW P \in Seq(Pair), DistinctKeys(P), NEW m \in GoMap,
           NEW order \in SetToSeqs({x \in Key : m[x] # Nil /\ x \notin KeysIn(P)})
    PROVE  LET Q == Kept(P, m) \o Listed(m, order) IN
           /\ Q \in Seq(Pair) /\ DistinctKeys(Q) /\ ValueOf(Q) = m
           /\ \A p \in BeforeIn(P) : {p[1], p[2]} \subseteq KeysIn(Q) => p \in BeforeIn(Q)
           /\ \A x \in KeysIn(P) \cap KeysIn(Q), y \in KeysIn(Q) \ KeysIn(P) :
                 <<x, y>> \in BeforeIn(Q)
<1> DEFINE K == Kept(P, m)
           W == Listed(m, order)
           Q == K \o W
           T == {x \in Key : m[x] # Nil /\ x \notin KeysIn(P)}
<1>1. m \in [Key -> Value \cup {Nil}] /\ T \in SUBSET Key /\ IsFiniteSet(T)
  <2>1. IsFiniteSet({x \in Key : m[x] # Nil}) /\ T \in SUBSET {x \in Key : m[x] # Nil}
    BY DEF GoMap
  <2> QED  BY <2>1, FS_Subset DEF GoMap
<1>2. /\ K \in Seq(Pair) /\ DistinctKeys(K)
      /\ KeysIn(K) = {x \in KeysIn(P) : m[x] # Nil}
      /\ \A i \in 1..Len(K) : K[i].value = m[K[i].key]
      /\ BeforeIn(K) = {p \in BeforeIn(P) : {p[1], p[2]} \subseteq KeysIn(K)}
  BY <1>1, KeptFacts
<1>3. /\ W \in Seq(Pair) /\ DistinctKeys(W) /\ KeysIn(W) = T
      /\ \A i \in 1..Len(W) : W[i].value = m[W[i].key]
  BY <1>1, ListedFacts
<1>4. \A x \in T : m[x] # Nil /\ x \in Key /\ x \notin KeysIn(P)
  OBVIOUS
<1>5. \A x \in Key : m[x] # Nil => x \in KeysIn(P) \/ x \in T
  OBVIOUS
<1> HIDE DEF K, W, T, Q
<1>6. /\ Q \in Seq(Pair) /\ DistinctKeys(Q)
      /\ KeysIn(Q) = KeysIn(K) \cup T
      /\ BeforeIn(Q) = BeforeIn(K) \cup BeforeIn(W) \cup (KeysIn(K) \X T)
  <2>1. KeysIn(K) \cap KeysIn(W) = {}
    BY <1>2, <1>3, <1>4
  <2> QED  BY <1>2, <1>3, <2>1, ConcatOrder DEF Q
<1>7. ValueOf(Q) = m
  <2>1. ASSUME NEW i \in 1..Len(Q)
        PROVE  m[Q[i].key] = Q[i].value
    <3>1. \/ i \in 1..Len(K) /\ Q[i] = K[i]
          \/ i - Len(K) \in 1..Len(W) /\ Q[i] = W[i - Len(K)]
      BY <1>2, <1>3, ConcatFacts DEF Q
    <3> QED  BY <1>2, <1>3, <3>1
  <2>2. ASSUME NEW x \in Key, m[x] # Nil
        PROVE  x \in KeysIn(Q)
    BY <1>2, <1>5, <1>6, <2>2
  <2> QED  BY <1>1, <1>6, <2>1, <2>2, ValueOfIs
<1>8. KeysIn(K) = KeysIn(P) \cap KeysIn(Q) /\ KeysIn(Q) \ KeysIn(P) = T
  BY <1>2, <1>4, <1>6
<1>9. ASSUME NEW p \in BeforeIn(P), {p[1], p[2]} \subseteq KeysIn(Q)
      PROVE  p \in BeforeIn(Q)
  <2>1. p[1] \in KeysIn(P) /\ p[2] \in KeysIn(P)
    BY BeforeIsOrder
  <2>2. {p[1], p[2]} \subseteq KeysIn(K)
    BY <1>8, <1>9, <2>1
  <2> QED  BY <1>2, <1>6, <2>2
<1>10. \A x \in KeysIn(P) \cap KeysIn(Q), y \in KeysIn(Q) \ KeysIn(P) :
          <<x, y>> \in BeforeIn(Q)
  BY <1>6, <1>8
<1> QED  BY <1>6, <1>7, <1>9, <1>10 DEF K, W, Q

-----------------------------------------------------------------------------
(* PairsInv is inductive, and every step is a step of the ordered map.       *)

LEMMA PairsInvFacts ==
    PairsInv <=> TypeOK /\ Pairs \in Seq(Pair) /\ DistinctKeys(Pairs)
<1>1. ASSUME TypeOK
      PROVE  Pairs \in Seq(Pair) /\ (KeysUnique <=> DistinctKeys(Pairs))
  <2>1. Pairs \in Seq(Pair)
    BY <1>1, PairsAreSeq
  <2> QED  BY <2>1, KeysUniqueIsDistinct DEF KeysUnique, At
<1> QED  BY <1>1 DEF PairsInv

(* A call that leaves the slice with the pairs Q.                            *)
LEMMA NewPairs ==
    ASSUME NEW Q \in Seq(Pair), DistinctKeys(Q), attrs' = Q
    PROVE  Pairs' = Q /\ PairsInv'
<1>1. Pairs' = Q /\ TypeOK'
  BY AttrAssumption DEF Pairs, TypeOK, Pair
<1>2. KeysUnique'
  <2>1. \A x \in Key : Cardinality(Places(Q, x)) <= 1
    BY KeysUniqueIsDistinct
  <2> QED  BY <1>1, <2>1 DEF KeysUnique, At
<1> QED  BY <1>1, <1>2 DEF PairsInv

(* A call that leaves the slice as it is.                                    *)
LEMMA SamePairs ==
    ASSUME PairsInv, UNCHANGED attrs
    PROVE  Pairs' = Pairs /\ PairsInv'
BY DEF PairsInv, TypeOK, KeysUnique, At, Pairs

(* SetAttr.                                                                  *)
LEMMA SetAttrStep ==
    ASSUME PairsInv, NEW x \in Key, NEW v \in Value, SetAttr(x, v)
    PROVE  /\ PairsInv'
           /\ ValueOf(Pairs') = [ValueOf(Pairs) EXCEPT ![x] = v]
           /\ BeforeIn(Pairs') = BeforeIn(Pairs) \cup
                 {<<y, x>> : y \in IF x \in KeysIn(Pairs) THEN {} ELSE KeysIn(Pairs)}
<1> DEFINE Q == WithAttr(Pairs, x, v)
<1>1. /\ Q \in Seq(Pair) /\ DistinctKeys(Q)
      /\ ValueOf(Q) = [ValueOf(Pairs) EXCEPT ![x] = v]
      /\ BeforeIn(Q) = BeforeIn(Pairs) \cup
            {<<y, x>> : y \in IF x \in KeysIn(Pairs) THEN {} ELSE KeysIn(Pairs)}
  BY PairsInvFacts, WithAttrFacts
<1>2. attrs' = Q
  BY DEF SetAttr
<1> HIDE DEF Q
<1>3. Pairs' = Q /\ PairsInv'
  BY <1>1, <1>2, NewPairs
<1> QED  BY <1>1, <1>3

(* DeleteAttr, of a key that is there and of one that is not.                *)
LEMMA DeleteAttrStep ==
    ASSUME PairsInv, NEW x \in Key, DeleteAttr(x)
    PROVE  /\ PairsInv'
           /\ ValueOf(Pairs') = [ValueOf(Pairs) EXCEPT ![x] = Nil]
           /\ BeforeIn(Pairs') = {p \in BeforeIn(Pairs) : x \notin {p[1], p[2]}}
<1>1. Pairs \in Seq(Pair) /\ DistinctKeys(Pairs)
  BY PairsInvFacts
<1>2. CASE x \in KeysIn(Pairs)
  <2>1. PICK g \in 1..Len(Pairs) : x = Pairs[g].key
    BY <1>2 DEF KeysIn
  <2>2. At(x) = {g} /\ First(x) = g
    BY <1>1, <2>1, SearchFinds DEF At, First
  <2>3. attrs' = DeleteFirst(Pairs, Pairs[g])
    BY <2>2 DEF DeleteAttr
  <2>4. /\ DeleteFirst(Pairs, Pairs[g]) \in Seq(Pair)
        /\ DistinctKeys(DeleteFirst(Pairs, Pairs[g]))
        /\ ValueOf(DeleteFirst(Pairs, Pairs[g])) = [ValueOf(Pairs) EXCEPT ![Pairs[g].key] = Nil]
        /\ BeforeIn(DeleteFirst(Pairs, Pairs[g])) =
              {p \in BeforeIn(Pairs) : Pairs[g].key \notin {p[1], p[2]}}
    BY <1>1, DeletePairFacts
  <2>5. Pairs' = DeleteFirst(Pairs, Pairs[g]) /\ PairsInv'
    BY <2>3, <2>4, NewPairs
  <2> QED  BY <2>1, <2>4, <2>5
<1>3. CASE x \notin KeysIn(Pairs)
  <2>1. At(x) = {} /\ ValueOf(Pairs)[x] = Nil
    BY <1>1, <1>3, SearchMisses DEF At
  <2>2. UNCHANGED attrs
    BY <2>1 DEF DeleteAttr
  <2>3. Pairs' = Pairs /\ PairsInv'
    BY <2>2, SamePairs
  <2>4. ValueOf(Pairs) = [ValueOf(Pairs) EXCEPT ![x] = Nil]
    BY <1>1, <2>1, ValueOfType
  <2>5. \A p \in BeforeIn(Pairs) : x \notin {p[1], p[2]}
    BY <1>1, <1>3, BeforeIsOrder
  <2> QED  BY <2>3, <2>4, <2>5
<1> QED  BY <1>2, <1>3

(* ReplaceAttrs.                                                             *)
LEMMA ReplaceAttrsStep ==
    ASSUME PairsInv, NEW m \in GoMap, ReplaceAttrs(m)
    PROVE  /\ PairsInv' /\ ValueOf(Pairs') = m
           /\ \A p \in BeforeIn(Pairs) :
                 {p[1], p[2]} \subseteq KeysIn(Pairs') => p \in BeforeIn(Pairs')
           /\ \A x \in KeysIn(Pairs) \cap KeysIn(Pairs'),
                 y \in KeysIn(Pairs') \ KeysIn(Pairs) : <<x, y>> \in BeforeIn(Pairs')
<1>1. Pairs \in Seq(Pair) /\ DistinctKeys(Pairs)
  BY PairsInvFacts
<1>2. {x \in Key : m[x] # Nil /\ At(x) = {}} = {x \in Key : m[x] # Nil /\ x \notin KeysIn(Pairs)}
  BY <1>1, SearchMisses DEF At
<1>3. PICK order \in SetToSeqs({x \in Key : m[x] # Nil /\ x \notin KeysIn(Pairs)}) :
         attrs' = Kept(Pairs, m) \o Listed(m, order)
  BY <1>2 DEF ReplaceAttrs
<1> DEFINE Q == Kept(Pairs, m) \o Listed(m, order)
<1>4. /\ Q \in Seq(Pair) /\ DistinctKeys(Q) /\ ValueOf(Q) = m
      /\ \A p \in BeforeIn(Pairs) : {p[1], p[2]} \subseteq KeysIn(Q) => p \in BeforeIn(Q)
      /\ \A x \in KeysIn(Pairs) \cap KeysIn(Q), y \in KeysIn(Q) \ KeysIn(Pairs) :
            <<x, y>> \in BeforeIn(Q)
  BY <1>1, ReplacedFacts
<1>5. attrs' = Q
  BY <1>3
<1> HIDE DEF Q
<1>6. Pairs' = Q /\ PairsInv'
  BY <1>4, <1>5, NewPairs
<1> QED  BY <1>4, <1>6

LEMMA NextPairsInv == PairsInv /\ [Next]_vars => PairsInv'
<1> SUFFICES ASSUME PairsInv, [Next]_vars PROVE PairsInv'
  OBVIOUS
<1>1. ASSUME NEW x \in Key, NEW v \in Value, SetAttr(x, v)
      PROVE  PairsInv'
  BY <1>1, SetAttrStep
<1>2. ASSUME NEW x \in Key, SetAttrType(x) \/ GetAttr(x)
      PROVE  PairsInv'
  BY <1>2, SamePairs DEF SetAttrType, GetAttr
<1>3. ASSUME NEW x \in Key, DeleteAttr(x)
      PROVE  PairsInv'
  BY <1>3, DeleteAttrStep
<1>4. ASSUME NEW m \in GoMap, ReplaceAttrs(m)
      PROVE  PairsInv'
  BY <1>4, ReplaceAttrsStep
<1>5. CASE AttrsMap \/ UNCHANGED vars
  BY <1>5, SamePairs DEF AttrsMap, vars
<1> QED  BY <1>1, <1>2, <1>3, <1>4, <1>5 DEF Next

(* The slice is nil or a list of pairs in which no key is twice, whatever     *)
(* SetAttr, DeleteAttr and ReplaceAttrs are called with.                     *)
THEOREM KeysAreUnique == Spec => []PairsInv
<1>1. Init => PairsInv
  <2> SUFFICES ASSUME Init PROVE PairsInv
    OBVIOUS
  <2>1. Pairs = << >> /\ TypeOK
    BY DEF Init, Pairs, TypeOK
  <2>2. Pairs \in Seq(Pair) /\ DistinctKeys(Pairs)
    BY <2>1 DEF DistinctKeys
  <2> QED  BY <2>1, <2>2, PairsInvFacts
<1> QED  BY <1>1, NextPairsInv, PTL DEF Spec

-----------------------------------------------------------------------------
(* The refinement of AttrMap.                                                *)

absMap    == [x \in Key |-> Lookup(x)]
absBefore == {p \in Key \X Key : \E i, j \in 1..Len(Pairs) :
                 i < j /\ Pairs[i].key = p[1] /\ Pairs[j].key = p[2]}
absBlank  == attrs = Nil

(* Only a nil slice is blank.                                                *)
LEMMA SlicesAreNotBlank == Nil \notin Seq(Pair)
BY AttrAssumption DEF Pair

(* The map and the order that the slice stands for, and the keys of the map.  *)
LEMMA MappingFacts ==
    /\ absMap = ValueOf(Pairs) /\ absBefore = BeforeIn(Pairs)
    /\ PairsInv => Abstract!Keys = KeysIn(Pairs)
<1>1. absMap = ValueOf(Pairs) /\ absBefore = BeforeIn(Pairs)
  BY DEF absMap, absBefore, Lookup, At, First, ValueOf, BeforeIn
<1>2. ASSUME PairsInv
      PROVE  Abstract!Keys = KeysIn(Pairs)
  <2>1. Abstract!Keys = {x \in Key : absMap[x] # Nil}
    BY DEF Abstract!Keys, absMap
  <2>2. /\ KeysIn(Pairs) \subseteq Key
        /\ \A x \in Key : ValueOf(Pairs)[x] # Nil <=> x \in KeysIn(Pairs)
    BY <1>2, PairsInvFacts, ValueOfType
  <2> QED  BY <1>1, <2>1, <2>2
<1> QED  BY <1>1, <1>2

(* The order of the keys is one that the abstract map allows.                 *)
LEMMA OrderIsAllowed == PairsInv' => absBefore' \in Abstract!Orders
<1> SUFFICES ASSUME PairsInv' PROVE absBefore' \in Abstract!Orders
  OBVIOUS
<1>1. Pairs' \in Seq(Pair) /\ DistinctKeys(Pairs')
  <2>1. (Pairs \in Seq(Pair) /\ DistinctKeys(Pairs))'
    BY PairsInvFacts, PTL
  <2> QED  BY <2>1
<1>2. Abstract!Keys' = KeysIn(Pairs') /\ absBefore' = BeforeIn(Pairs')
  <2>1. (Abstract!Keys = KeysIn(Pairs) /\ absBefore = BeforeIn(Pairs))'
    BY MappingFacts, PTL
  <2> QED  BY <2>1
<1> QED  BY <1>1, <1>2, BeforeIsOrder DEF Abstract!Orders

(* What a primed state gives the mapping, by MappingFacts.                   *)
LEMMA MappingFactsNext ==
    /\ absMap' = ValueOf(Pairs') /\ absBefore' = BeforeIn(Pairs')
    /\ PairsInv' => Abstract!Keys' = KeysIn(Pairs')
<1>1. (/\ absMap = ValueOf(Pairs) /\ absBefore = BeforeIn(Pairs)
       /\ PairsInv => Abstract!Keys = KeysIn(Pairs))'
  BY MappingFacts, PTL
<1> QED  BY <1>1

(* Each call is the abstract call of the same name.                          *)
LEMMA SetAttrSets ==
    ASSUME PairsInv, NEW x \in Key, NEW v \in Value, SetAttr(x, v)
    PROVE  Abstract!Set(x, v)
<1>1. /\ absMap' = [absMap EXCEPT ![x] = v]
      /\ absBefore' = absBefore \cup
            {<<y, x>> : y \in IF x \in Abstract!Keys THEN {} ELSE Abstract!Keys}
  BY SetAttrStep, MappingFacts, MappingFactsNext
<1>2. absBlank' = FALSE
  <2>1. WithAttr(Pairs, x, v) \in Seq(Pair)
    BY PairsInvFacts, WithAttrFacts
  <2> QED  BY <2>1, SlicesAreNotBlank DEF SetAttr, absBlank
<1> QED  BY <1>1, <1>2 DEF Abstract!Set, SetAttr, absMap, absBefore, absBlank

LEMMA DeleteAttrDeletes ==
    ASSUME PairsInv, NEW x \in Key, DeleteAttr(x)
    PROVE  Abstract!Delete(x)
<1>1. /\ absMap' = [absMap EXCEPT ![x] = Nil]
      /\ absBefore' = {p \in absBefore : x \notin {p[1], p[2]}}
  BY DeleteAttrStep, MappingFacts, MappingFactsNext
<1>2. UNCHANGED absBlank
  <2>1. CASE At(x) = {}
    BY <2>1 DEF DeleteAttr, absBlank
  <2>2. CASE At(x) # {}
    <3>1. attrs # Nil /\ attrs' = DeleteFirst(Pairs, Pairs[First(x)])
      <4>1. attrs' = DeleteFirst(Pairs, Pairs[First(x)])
        BY <2>2 DEF DeleteAttr
      <4>2. attrs = Nil => At(x) = {}
        BY DEF At, Places, Pairs
      <4> QED  BY <2>2, <4>1, <4>2
    <3>2. attrs' # Nil
      <4>1. TypeOK'
        BY DeleteAttrStep DEF PairsInv
      <4>2. PICK g \in 1..Len(Pairs) : At(x) = {g} /\ First(x) = g
        <5>1. Pairs \in Seq(Pair) /\ DistinctKeys(Pairs)
          BY PairsInvFacts
        <5>2. x \in KeysIn(Pairs)
          BY <2>2, <5>1, SearchMisses DEF At
        <5>3. PICK g \in 1..Len(Pairs) : x = Pairs[g].key
          BY <5>2 DEF KeysIn
        <5> QED  BY <5>1, <5>3, SearchFinds DEF At, First
      <4>3. DeleteFirst(Pairs, Pairs[g]) \in Seq(Pair)
        BY PairsInvFacts, DeletePairFacts
      <4> QED  BY <3>1, <4>2, <4>3, SlicesAreNotBlank
    <3> QED  BY <3>1, <3>2 DEF absBlank
  <2> QED  BY <2>1, <2>2
<1> QED  BY <1>1, <1>2 DEF Abstract!Delete, DeleteAttr, absMap, absBefore, absBlank

LEMMA ReplaceAttrsReplaces ==
    ASSUME PairsInv, NEW m \in GoMap, ReplaceAttrs(m)
    PROVE  Abstract!Replace(m)
<1>1. /\ PairsInv' /\ ValueOf(Pairs') = m
      /\ \A p \in BeforeIn(Pairs) :
            {p[1], p[2]} \subseteq KeysIn(Pairs') => p \in BeforeIn(Pairs')
      /\ \A x \in KeysIn(Pairs) \cap KeysIn(Pairs'),
            y \in KeysIn(Pairs') \ KeysIn(Pairs) : <<x, y>> \in BeforeIn(Pairs')
  BY ReplaceAttrsStep
<1>2. absBefore' \in Abstract!Orders
  BY <1>1, OrderIsAllowed
<1>3. absMap' = m
  BY <1>1, MappingFactsNext
<1>4. \A p \in absBefore : p[1] \in Abstract!Keys' /\ p[2] \in Abstract!Keys' => p \in absBefore'
  BY <1>1, MappingFacts, MappingFactsNext
<1>5. \A x \in Abstract!Keys \cap Abstract!Keys', y \in Abstract!Keys' \ Abstract!Keys :
          <<x, y>> \in absBefore'
  BY <1>1, MappingFacts, MappingFactsNext
<1>6. ret' = <<"ok">>
  BY DEF ReplaceAttrs
<1>7. absBlank' = FALSE
  <2>1. Pairs \in Seq(Pair) /\ DistinctKeys(Pairs)
    BY PairsInvFacts
  <2>2. {x \in Key : m[x] # Nil /\ At(x) = {}} =
           {x \in Key : m[x] # Nil /\ x \notin KeysIn(Pairs)}
    BY <2>1, SearchMisses DEF At
  <2>3. PICK order \in SetToSeqs({x \in Key : m[x] # Nil /\ x \notin KeysIn(Pairs)}) :
           attrs' = Kept(Pairs, m) \o Listed(m, order)
    BY <2>2 DEF ReplaceAttrs
  <2>4. attrs' \in Seq(Pair)
    BY <2>1, <2>3, ReplacedFacts
  <2> QED  BY <2>4, SlicesAreNotBlank DEF absBlank
<1> QED  BY <1>2, <1>3, <1>4, <1>5, <1>6, <1>7 DEF Abstract!Replace, absMap, absBefore, absBlank

(* SetAttr of a 'type' key, GetAttr and AttrsMap: GetAttr stops at the first  *)
(* pair with the key and AttrsMap keeps the last, which is the same pair.    *)
LEMMA ReadsAnswer ==
    ASSUME PairsInv
    PROVE  /\ \A x \in Key : SetAttrType(x) => Abstract!Refuse(x)
           /\ \A x \in Key : GetAttr(x) => Abstract!Get(x)
           /\ AttrsMap => Abstract!All
<1>1. Pairs \in Seq(Pair) /\ DistinctKeys(Pairs)
  BY PairsInvFacts
<1>2. ASSUME UNCHANGED attrs
      PROVE  UNCHANGED <<absMap, absBefore, absBlank>>
  BY <1>2, SamePairs, MappingFacts, MappingFactsNext DEF absBlank
<1>3. ASSUME NEW x \in Key, SetAttrType(x)
      PROVE  Abstract!Refuse(x)
  BY <1>2, <1>3 DEF SetAttrType, Abstract!Refuse, absMap, absBefore, absBlank
<1>4. ASSUME NEW x \in Key, GetAttr(x)
      PROVE  Abstract!Get(x)
  <2>1. absMap[x] = Lookup(x)
    BY DEF absMap
  <2> QED  BY <1>2, <1>4, <2>1 DEF GetAttr, Abstract!Get, absMap, absBefore, absBlank
<1>5. ASSUME AttrsMap
      PROVE  Abstract!All
  <2>1. ASSUME NEW x \in Key
        PROVE  (IF At(x) = {} THEN Nil ELSE Pairs[Max(At(x))].value) = Lookup(x)
    <3>1. CASE x \in KeysIn(Pairs)
      <4>1. PICK g \in 1..Len(Pairs) : x = Pairs[g].key
        BY <3>1 DEF KeysIn
      <4>2. At(x) = {g} /\ First(x) = g
        BY <1>1, <4>1, SearchFinds DEF At, First
      <4>3. Max(At(x)) = g
        BY <4>2 DEF Max
      <4> QED  BY <4>2, <4>3 DEF Lookup
    <3>2. CASE x \notin KeysIn(Pairs)
      BY <1>1, <3>2, SearchMisses DEF Lookup, At
    <3> QED  BY <3>1, <3>2
  <2>2. ret' = <<"map", IF absBlank THEN Nil ELSE absMap>>
    BY <1>5, <2>1 DEF AttrsMap, absMap, absBlank
  <2> QED  BY <1>2, <1>5, <2>2 DEF AttrsMap, Abstract!All, absMap, absBefore, absBlank
<1> QED  BY <1>3, <1>4, <1>5

(* The slice implements the ordered map: every call of every sequence of     *)
(* calls answers as the map does, AttrsMap with nil until something has been  *)
(* written and never after that; a key keeps its place until it is deleted,  *)
(* and a new key goes behind the others.                                     *)
THEOREM AttrsImplementMap == Spec => AbstractSpec
<1>1. Init => Abstract!Init
  <2> SUFFICES ASSUME Init PROVE Abstract!Init
    OBVIOUS
  <2>1. Pairs = << >> /\ ret = <<"none">> /\ absBlank = TRUE
    BY DEF Init, Pairs, absBlank
  <2>2. absMap = [x \in Key |-> Nil] /\ absBefore = {}
    BY <2>1 DEF absMap, absBefore, Lookup, At, Places
  <2> QED  BY <2>1, <2>2 DEF Abstract!Init, absMap, absBefore, absBlank
<1>2. PairsInv /\ [Next]_vars => [Abstract!Next]_(Abstract!vars)
  <2> SUFFICES ASSUME PairsInv, [Next]_vars
               PROVE  Abstract!Next \/ UNCHANGED Abstract!vars
    OBVIOUS
  <2>1. ASSUME NEW x \in Key, NEW v \in Value, SetAttr(x, v)
        PROVE  Abstract!Next
    BY <2>1, SetAttrSets DEF Abstract!Next
  <2>2. ASSUME NEW x \in Key, SetAttrType(x) \/ GetAttr(x)
        PROVE  Abstract!Next
    BY <2>2, ReadsAnswer DEF Abstract!Next
  <2>3. ASSUME NEW x \in Key, DeleteAttr(x)
        PROVE  Abstract!Next
    BY <2>3, DeleteAttrDeletes DEF Abstract!Next
  <2>4. ASSUME NEW m \in GoMap, ReplaceAttrs(m)
        PROVE  Abstract!Next
    BY <2>4, ReplaceAttrsReplaces DEF Abstract!Next, GoMap
  <2>5. CASE AttrsMap
    BY <2>5, ReadsAnswer DEF Abstract!Next
  <2>6. CASE UNCHANGED vars
    <3>1. UNCHANGED attrs /\ UNCHANGED ret
      BY <2>6 DEF vars
    <3>2. UNCHANGED <<absMap, absBefore, absBlank>>
      BY <3>1, SamePairs, MappingFacts, MappingFactsNext DEF absBlank
    <3> QED  BY <3>1, <3>2 DEF Abstract!vars, absMap, absBefore, absBlank
  <2> QED  BY <2>1, <2>2, <2>3, <2>4, <2>5, <2>6 DEF Next
<1> QED  BY <1>1, <1>2, KeysAreUnique, PTL DEF Spec, AbstractSpec, Abstract!Spec
=============================================================================
