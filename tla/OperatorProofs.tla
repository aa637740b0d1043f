--------------------------- MODULE OperatorProofs ---------------------------
(***************************************************************************)
(* What the operators of GoSlices and of Ranks return, for every argument:  *)
(* the type, the elements and the multiplicities of a sequence, so that a    *)
(* proof about a program that calls an operator need not count indices       *)
(* again; and the levels of a graph: Level is the recursion it looks like, a *)
(* walk into a cycle goes on for ever, and in a finite graph a set of        *)
(* vertices that have predecessors in it contains a cycle.                   *)
(***************************************************************************)
EXTENDS GoSlices, Ranks, FiniteSetTheorems, FunctionTheorems, WellFoundedInduction, TLAPS

Count(D, R) == [i \in D |-> Cardinality({j \in D : <<j, i>> \in R})]

(* Counting the elements up to each element of a totally ordered finite set *)
(* numbers the set from 1 to its cardinality.                               *)
LEMMA CountingBijection ==
    ASSUME NEW D, IsFiniteSet(D), NEW R,
           \A x \in D : <<x, x>> \in R,
           \A x, y \in D : <<x, y>> \in R \/ <<y, x>> \in R,
           \A x, y \in D : <<x, y>> \in R /\ <<y, x>> \in R => x = y,
           \A x, y, z \in D : <<x, y>> \in R /\ <<y, z>> \in R => <<x, z>> \in R
    PROVE  /\ Count(D, R) \in [D -> 1..Cardinality(D)]
           /\ \A i, k \in D : Count(D, R)[i] = Count(D, R)[k] => i = k
           /\ \A n \in 1..Cardinality(D) : \E i \in D : Count(D, R)[i] = n
<1> DEFINE upTo(i) == {j \in D : <<j, i>> \in R}
           lands == [i \in D |-> Cardinality(upTo(i))]
           N == Cardinality(D)
<1>1. \A i \in D : /\ IsFiniteSet(upTo(i))
                   /\ Cardinality(upTo(i)) \in 1..N
  <2> TAKE i \in D
  <2>1. upTo(i) \in SUBSET D /\ upTo(i) # {}
    OBVIOUS
  <2>2. IsFiniteSet(upTo(i)) /\ Cardinality(upTo(i)) <= N
    BY <2>1, FS_Subset
  <2>3. Cardinality(upTo(i)) \in Nat /\ N \in Nat /\ Cardinality(upTo(i)) # 0
    BY <2>1, <2>2, FS_CardinalityType, FS_EmptySet
  <2> QED  BY <2>2, <2>3
<1>2. lands \in [D -> 1..N]
  BY <1>1
<1>3. \A i, k \in D : lands[i] = lands[k] => i = k
  <2>1. \A i, k \in D : <<i, k>> \in R /\ lands[i] = lands[k] => i = k
    <3> SUFFICES ASSUME NEW i \in D, NEW k \in D, <<i, k>> \in R,
                        lands[i] = lands[k]
                 PROVE  i = k
      OBVIOUS
    <3>1. upTo(i) \in SUBSET upTo(k)
      OBVIOUS
    <3>2. upTo(k) = upTo(i)
      <4> HIDE DEF upTo
      <4> QED  BY <3>1, <1>1, FS_Subset
    <3>3. k \in upTo(i)
      <4>1. k \in upTo(k)
        OBVIOUS
      <4> QED  BY <4>1, <3>2
    <3> QED  BY <3>3
  <2> QED  BY <2>1
<1>4. lands \in Injection(D, 1..N)
  BY <1>2, <1>3, Fun_IsInj
<1>5. N \in Nat /\ IsFiniteSet(1..N) /\ Cardinality(1..N) = N
  BY FS_CardinalityType, FS_Interval
<1>6. lands \in Surjection(D, 1..N)
  <2> HIDE DEF lands
  <2> QED  BY <1>4, <1>5, FS_Injection
<1>7. \A n \in 1..N : \E i \in D : lands[i] = n
  <2> HIDE DEF lands, N
  <2> QED  BY <1>6, Fun_SurjectionProperties
<1>8. lands = Count(D, R)
  BY DEF Count
<1> HIDE DEF lands
<1> QED  BY <1>2, <1>3, <1>7, <1>8

(* And the numbers respect the order.                                        *)
LEMMA CountingMonotone ==
    ASSUME NEW D, IsFiniteSet(D), NEW R,
           \A x, y, z \in D : <<x, y>> \in R /\ <<y, z>> \in R => <<x, z>> \in R,
           NEW i \in D, NEW k \in D, <<i, k>> \in R
    PROVE  Count(D, R)[i] <= Count(D, R)[k]
<1> DEFINE upTo(x) == {j \in D : <<j, x>> \in R}
<1>1. upTo(i) \in SUBSET upTo(k) /\ upTo(k) \in SUBSET D
  OBVIOUS
<1>2. Count(D, R)[i] = Cardinality(upTo(i)) /\ Count(D, R)[k] = Cardinality(upTo(k))
  BY DEF Count
<1> HIDE DEF upTo
<1>3. IsFiniteSet(upTo(k))
  BY <1>1, FS_Subset
<1>4. Cardinality(upTo(i)) <= Cardinality(upTo(k))
  BY <1>1, <1>3, FS_Subset
<1> QED  BY <1>2, <1>4

(* DeleteFirst(s, e), where no element of s occurs twice.                    *)
LEMMA DeleteFirstProperties ==
    ASSUME NEW S, NEW s \in Seq(S), IsInjective(s), NEW e \in ToSet(s)
    PROVE  /\ DeleteFirst(s, e) \in Seq(S)
           /\ ToSet(DeleteFirst(s, e)) = ToSet(s) \ {e}
           /\ IsInjective(DeleteFirst(s, e))
<1> DEFINE gap == CHOOSE i \in DOMAIN s : s[i] = e /\ \A j \in 1..i - 1 : s[j] # e
           out == [j \in 1..Len(s) - 1 |-> IF j < gap THEN s[j] ELSE s[j + 1]]
<1>1. \A i, j \in 1..Len(s) : s[i] = s[j] => i = j
  BY DEF IsInjective
<1>2. gap \in 1..Len(s) /\ s[gap] = e
  <2>1. PICK i \in 1..Len(s) : s[i] = e
    BY DEF ToSet
  <2>2. \A j \in 1..i - 1 : s[j] # e
    BY <1>1, <2>1
  <2> QED  BY <2>1, <2>2
<1> HIDE DEF gap
<1>3. Len(s) \in Nat /\ Len(s) - 1 \in Nat
  BY <1>2
<1>4. \A j \in 1..Len(s) - 1 : (IF j < gap THEN s[j] ELSE s[j + 1]) \in S
  BY <1>2, <1>3
<1>5. out \in Seq(S) /\ Len(out) = Len(s) - 1 /\ DOMAIN out = 1..Len(s) - 1
  BY <1>3, <1>4
<1>6. IsInjective(out)
  BY <1>1, <1>2, <1>5 DEF IsInjective
<1>7. \A j \in DOMAIN out : out[j] \in ToSet(s) \ {e}
  BY <1>1, <1>2, <1>3, <1>5 DEF ToSet
<1>8. \A x \in ToSet(s) \ {e} : \E j \in DOMAIN out : out[j] = x
  <2> SUFFICES ASSUME NEW i \in 1..Len(s), s[i] # e
               PROVE  \E j \in DOMAIN out : out[j] = s[i]
    BY DEF ToSet
  <2>1. CASE i < gap
    <3>1. i \in DOMAIN out /\ out[i] = s[i]
      BY <2>1, <1>2, <1>3, <1>5
    <3> QED  BY <3>1
  <2>2. CASE i > gap
    <3>1. i - 1 \in DOMAIN out /\ out[i - 1] = s[i]
      BY <2>2, <1>2, <1>3, <1>5
    <3> QED  BY <3>1
  <2> QED  BY <2>1, <2>2, <1>2
<1>9. ToSet(out) = ToSet(s) \ {e}
  <2> HIDE DEF out
  <2> QED  BY <1>7, <1>8 DEF ToSet
<1>10. DeleteFirst(s, e) = out
  BY DEF DeleteFirst, gap
<1> QED  BY <1>5, <1>6, <1>9, <1>10

(* The elements of a sequence, by index.                                     *)
LEMMA ToSetOfSeq ==
    ASSUME NEW S, NEW s \in Seq(S)
    PROVE  /\ \A i \in 1..Len(s) : s[i] \in ToSet(s) /\ s[i] \in S
           /\ \A x \in ToSet(s) : \E i \in 1..Len(s) : s[i] = x
           /\ ToSet(s) \subseteq S
<1>1. s \in [1..Len(s) -> S] /\ DOMAIN s = 1..Len(s)
  OBVIOUS
<1>2. \A i \in 1..Len(s) : s[i] \in S
  BY <1>1, Zenon
<1>3. /\ \A i \in 1..Len(s) : s[i] \in ToSet(s)
      /\ \A x \in ToSet(s) : \E i \in 1..Len(s) : s[i] = x
  BY <1>1, Zenon DEF ToSet
<1>4. ToSet(s) \subseteq S
  BY <1>2, <1>3, Zenon
<1> QED  BY <1>2, <1>3, <1>4, Zenon

LEMMA InjectiveSeq ==
    ASSUME NEW S, NEW s \in Seq(S)
    PROVE  IsInjective(s) <=> \A i, j \in 1..Len(s) : s[i] = s[j] => i = j
<1>1. DOMAIN s = 1..Len(s)
  OBVIOUS
<1> QED  BY <1>1, Zenon DEF IsInjective

LEMMA ToSetFinite ==
    ASSUME NEW S, NEW s \in Seq(S)
    PROVE  IsFiniteSet(ToSet(s))
<1>1. s \in [1..Len(s) -> ToSet(s)] /\ \A x \in ToSet(s) : \E i \in 1..Len(s) : s[i] = x
  BY ToSetOfSeq
<1>2. s \in Surjection(1..Len(s), ToSet(s))
  BY <1>1 DEF Surjection
<1>3. IsFiniteSet(1..Len(s))
  BY FS_Interval
<1> QED  BY <1>2, <1>3, FS_Surjection

(* The indices of I up to i.                                                 *)
CountTo(I, i) == Cardinality({j \in I : j <= i})

(* KeepAt(s, I) puts the element at an index of I where the indices of I up   *)
(* to it say.                                                               *)
LEMMA KeepAtPlaces ==
    ASSUME NEW S, NEW s \in Seq(S), NEW I \in SUBSET (1..Len(s))
    PROVE  /\ KeepAt(s, I) \in Seq(S) /\ Len(KeepAt(s, I)) = Cardinality(I)
           /\ \A i \in I : /\ CountTo(I, i) \in 1..Cardinality(I)
                           /\ KeepAt(s, I)[CountTo(I, i)] = s[i]
           /\ \A k \in 1..Cardinality(I) : \E i \in I : CountTo(I, i) = k
           /\ \A i, j \in I : CountTo(I, i) <= CountTo(I, j) <=> i <= j
<1> DEFINE out == KeepAt(s, I)
           N == Cardinality(I)
           R == {p \in (1..Len(s)) \X (1..Len(s)) : p[1] <= p[2]}
           at == Count(I, R)
           pick(k) == CHOOSE i \in I : CountTo(I, i) = k
<1>0. s \in [1..Len(s) -> S] /\ Len(s) \in Nat
  OBVIOUS
<1>1. IsFiniteSet(I) /\ I \subseteq 1..Len(s) /\ N \in Nat /\ I \subseteq Int
  <2>1. IsFiniteSet(1..Len(s))
    BY FS_Interval
  <2>2. I \subseteq Int
    OBVIOUS
  <2> QED  BY <2>1, <2>2, FS_Subset, FS_CardinalityType
<1>2. /\ at \in [I -> 1..N]
      /\ \A i, k \in I : at[i] = at[k] => i = k
      /\ \A k \in 1..N : \E i \in I : at[i] = k
  <2>1. /\ \A x \in I : <<x, x>> \in R
        /\ \A x, y \in I : <<x, y>> \in R \/ <<y, x>> \in R
        /\ \A x, y \in I : <<x, y>> \in R /\ <<y, x>> \in R => x = y
        /\ \A x, y, z \in I : <<x, y>> \in R /\ <<y, z>> \in R => <<x, z>> \in R
    BY <1>1
  <2> HIDE DEF R, pick, out
  <2>2. /\ Count(I, R) \in [I -> 1..Cardinality(I)]
        /\ \A i, k \in I : Count(I, R)[i] = Count(I, R)[k] => i = k
        /\ \A k \in 1..Cardinality(I) : \E i \in I : Count(I, R)[i] = k
    <3> DEFINE D == I
    <3>1. IsFiniteSet(D)
      BY <1>1
    <3>2. /\ \A x \in D : <<x, x>> \in R
          /\ \A x, y \in D : <<x, y>> \in R \/ <<y, x>> \in R
          /\ \A x, y \in D : <<x, y>> \in R /\ <<y, x>> \in R => x = y
          /\ \A x, y, z \in D : <<x, y>> \in R /\ <<y, z>> \in R => <<x, z>> \in R
      BY <2>1
    <3> HIDE DEF D, at, N
    <3>3. /\ Count(D, R) \in [D -> 1..Cardinality(D)]
          /\ \A i, k \in D : Count(D, R)[i] = Count(D, R)[k] => i = k
          /\ \A k \in 1..Cardinality(D) : \E i \in D : Count(D, R)[i] = k
      BY <3>1, <3>2, CountingBijection, SMTT(40)
    <3> QED  BY <3>3 DEF D
  <2> QED  BY <2>2
<1>3. \A i \in I : at[i] = CountTo(I, i)
  <2> TAKE i \in I
  <2>1. {j \in I : <<j, i>> \in R} = {j \in I : j <= i}
    BY <1>1
  <2> QED  BY <2>1 DEF Count, CountTo
<1>4. out = [k \in 1..N |-> s[pick(k)]]
  BY DEF KeepAt, CountTo
<1> HIDE DEF N, R, at, out
<1>5. /\ \A i \in I : CountTo(I, i) \in 1..N
      /\ \A i, k \in I : CountTo(I, i) = CountTo(I, k) => i = k
      /\ \A k \in 1..N : \E i \in I : CountTo(I, i) = k
  BY <1>2, <1>3
<1>6. \A k \in 1..N : pick(k) \in I /\ CountTo(I, pick(k)) = k
  BY <1>5
<1>7. \A i \in I : pick(CountTo(I, i)) = i
  BY <1>5, <1>6
<1> HIDE DEF pick
<1>8. \A k \in 1..N : s[pick(k)] \in S
  BY <1>0, <1>1, <1>6
<1>9. out \in Seq(S) /\ Len(out) = N /\ \A k \in 1..N : out[k] = s[pick(k)]
  <2>1. out \in [1..N -> S]
    BY <1>4, <1>8
  <2> QED  BY <1>1, <1>4, <2>1
<1>10. \A i \in I : out[CountTo(I, i)] = s[i]
  BY <1>5, <1>7, <1>9
<1>11. \A i, j \in I : i <= j => CountTo(I, i) <= CountTo(I, j)
  <2> SUFFICES ASSUME NEW i \in I, NEW j \in I, i <= j
               PROVE  CountTo(I, i) <= CountTo(I, j)
    OBVIOUS
  <2>1. {x \in I : x <= i} \in SUBSET {x \in I : x <= j}
    <3>1. i \in Int /\ j \in Int /\ \A x \in I : x \in Int
      BY <1>1
    <3>2. \A x \in I : x <= i => x <= j
      BY <3>1
    <3> QED  BY <3>2
  <2>2. {x \in I : x <= j} \in SUBSET I
    OBVIOUS
  <2>3. IsFiniteSet({x \in I : x <= j})
    BY <2>2, <1>1, FS_Subset
  <2> QED  BY <2>1, <2>3, FS_Subset DEF CountTo
<1>12. \A i, j \in I : CountTo(I, i) <= CountTo(I, j) <=> i <= j
  <2> SUFFICES ASSUME NEW i \in I, NEW j \in I
               PROVE  CountTo(I, i) <= CountTo(I, j) <=> i <= j
    OBVIOUS
  <2>1. /\ i \in Int /\ j \in Int /\ CountTo(I, i) \in Int /\ CountTo(I, j) \in Int
        /\ CountTo(I, i) = CountTo(I, j) => i = j
        /\ i <= j => CountTo(I, i) <= CountTo(I, j)
        /\ j <= i => CountTo(I, j) <= CountTo(I, i)
    BY <1>1, <1>5, <1>11
  <2> QED  BY <2>1
<1> QED  BY <1>5, <1>9, <1>10, <1>12 DEF out, N

(* KeepAt(s, I) lists the elements of s at I through a bijection h from its  *)
(* own indices to I that keeps their order.                                  *)
LEMMA KeepAtFacts ==
    ASSUME NEW S, NEW s \in Seq(S), NEW I \in SUBSET (1..Len(s))
    PROVE  /\ KeepAt(s, I) \in Seq(S)
           /\ \E h \in [1..Len(KeepAt(s, I)) -> 1..Len(s)] :
                 /\ \A k \in 1..Len(KeepAt(s, I)) : h[k] \in I /\ KeepAt(s, I)[k] = s[h[k]]
                 /\ \A i \in I : \E k \in 1..Len(KeepAt(s, I)) : h[k] = i
                 /\ \A j, k \in 1..Len(KeepAt(s, I)) : h[j] < h[k] <=> j < k
<1> DEFINE out == KeepAt(s, I)
           N == Cardinality(I)
           h == [k \in 1..N |-> CHOOSE i \in I : CountTo(I, i) = k]
<1>1. /\ out \in Seq(S) /\ Len(out) = N
      /\ \A i \in I : CountTo(I, i) \in 1..N /\ out[CountTo(I, i)] = s[i]
      /\ \A k \in 1..N : \E i \in I : CountTo(I, i) = k
      /\ \A i, j \in I : CountTo(I, i) <= CountTo(I, j) <=> i <= j
  BY KeepAtPlaces
<1> HIDE DEF out, N
<1>2. h \in [1..N -> I] /\ \A k \in 1..N : CountTo(I, h[k]) = k
  BY <1>1
<1> HIDE DEF h
<1>3. \A i \in I : i \in 1..Len(s) /\ i \in Int
  OBVIOUS
<1>4. \A i \in I : h[CountTo(I, i)] = i
  <2> SUFFICES ASSUME NEW i \in I PROVE h[CountTo(I, i)] = i
    OBVIOUS
  <2>1. CountTo(I, i) \in 1..N
    BY <1>1
  <2>2. h[CountTo(I, i)] \in I /\ CountTo(I, h[CountTo(I, i)]) = CountTo(I, i)
    BY <1>2, <2>1
  <2>3. PICK x \in I : x = h[CountTo(I, i)]
    BY <2>2
  <2>4. i \in Int /\ x \in Int /\ CountTo(I, i) \in Int /\ CountTo(I, x) = CountTo(I, i)
    BY <1>1, <1>3, <2>1, <2>2, <2>3
  <2>5. x <= i /\ i <= x
    BY <1>1, <2>4
  <2> QED  BY <2>3, <2>4, <2>5
<1>5. \A j, k \in 1..N : h[j] < h[k] <=> j < k
  <2> SUFFICES ASSUME NEW j \in 1..N, NEW k \in 1..N
               PROVE  h[j] < h[k] <=> j < k
    OBVIOUS
  <2>1. PICK x \in I, y \in I : x = h[j] /\ y = h[k]
    BY <1>2
  <2>2. CountTo(I, x) = j /\ CountTo(I, y) = k /\ j \in Int /\ k \in Int
    BY <1>2, <2>1
  <2>3. k <= j <=> y <= x
    BY <1>1, <2>2
  <2>4. x \in Int /\ y \in Int
    BY <1>3
  <2>5. x < y <=> j < k
    BY <2>2, <2>3, <2>4
  <2> QED  BY <2>1, <2>5
<1>6. h \in [1..Len(out) -> 1..Len(s)]
  BY <1>1, <1>2, <1>3
<1>7. \A k \in 1..Len(out) : h[k] \in I /\ out[k] = s[h[k]]
  BY <1>1, <1>2
<1>8. \A i \in I : \E k \in 1..Len(out) : h[k] = i
  BY <1>1, <1>4
<1> QED  BY <1>1, <1>5, <1>6, <1>7, <1>8 DEF out

(* Indices that come behind those of I add nothing before its elements.       *)
LEMMA KeepAtPrefix ==
    ASSUME NEW S, NEW s \in Seq(S), NEW I \in SUBSET (1..Len(s)),
           NEW T, NEW t \in Seq(T), NEW J \in SUBSET (1..Len(t)),
           I \subseteq J, \A i \in I : s[i] = t[i],
           \A i \in I, j \in J : j <= i => j \in I
    PROVE  /\ Len(KeepAt(s, I)) <= Len(KeepAt(t, J))
           /\ \A k \in 1..Len(KeepAt(s, I)) : KeepAt(s, I)[k] = KeepAt(t, J)[k]
<1>1. \A i \in I : CountTo(I, i) = CountTo(J, i)
  <2> SUFFICES ASSUME NEW i \in I PROVE CountTo(I, i) = CountTo(J, i)
    OBVIOUS
  <2>1. {j \in I : j <= i} = {j \in J : j <= i}
    OBVIOUS
  <2> QED  BY <2>1 DEF CountTo
<1>2. /\ Len(KeepAt(s, I)) = Cardinality(I)
      /\ \A i \in I : CountTo(I, i) \in 1..Cardinality(I) /\ KeepAt(s, I)[CountTo(I, i)] = s[i]
      /\ \A k \in 1..Cardinality(I) : \E i \in I : CountTo(I, i) = k
  BY KeepAtPlaces
<1>3. /\ Len(KeepAt(t, J)) = Cardinality(J)
      /\ \A i \in J : KeepAt(t, J)[CountTo(J, i)] = t[i]
  BY KeepAtPlaces
<1>4. Cardinality(I) <= Cardinality(J)
  <2>1. IsFiniteSet(1..Len(t))
    BY FS_Interval
  <2>2. IsFiniteSet(J)
    BY <2>1, FS_Subset
  <2> QED  BY <2>2, FS_Subset
<1>5. ASSUME NEW k \in 1..Cardinality(I)
      PROVE  KeepAt(s, I)[k] = KeepAt(t, J)[k]
  <2>1. PICK i \in I : CountTo(I, i) = k
    BY <1>2
  <2> QED  BY <1>1, <1>2, <1>3, <2>1
<1> QED  BY <1>2, <1>3, <1>4, <1>5

(* The same elements at the same indices.                                     *)
LEMMA KeepAtSame ==
    ASSUME NEW S, NEW s \in Seq(S), NEW I \in SUBSET (1..Len(s)),
           NEW t \in Seq(S), I \subseteq 1..Len(t), \A i \in I : s[i] = t[i]
    PROVE  KeepAt(s, I) = KeepAt(t, I)
<1> DEFINE a == KeepAt(s, I)
           b == KeepAt(t, I)
<1>1. \A i \in I, j \in I : j <= i => j \in I
  OBVIOUS
<1>2. a \in Seq(S) /\ Len(a) = Cardinality(I) /\ b \in Seq(S) /\ Len(b) = Cardinality(I)
  BY KeepAtPlaces
<1>3. \A k \in 1..Len(a) : a[k] = b[k]
  BY <1>1, KeepAtPrefix
<1> HIDE DEF a, b
<1>4. a = b
  BY <1>2, <1>3
<1> QED  BY <1>4 DEF a, b

(* One index more, behind those of I.                                        *)
LEMMA KeepAtNext ==
    ASSUME NEW S, NEW s \in Seq(S), NEW I \in SUBSET (1..Len(s)),
           NEW m \in 1..Len(s), \A i \in I : i < m
    PROVE  KeepAt(s, I \cup {m}) = Append(KeepAt(s, I), s[m])
<1> DEFINE J == I \cup {m}
           out == KeepAt(s, J)
           a == KeepAt(s, I)
<1>1. IsFiniteSet(I) /\ Cardinality(I) \in Nat /\ m \notin I
  <2>1. IsFiniteSet(1..Len(s))
    BY FS_Interval
  <2>2. m \notin I
    OBVIOUS
  <2> QED  BY <2>1, <2>2, FS_Subset, FS_CardinalityType
<1>2. Cardinality(J) = Cardinality(I) + 1
  BY <1>1, FS_AddElement
<1>3. J \in SUBSET (1..Len(s)) /\ m \in J
  OBVIOUS
<1>4. CountTo(J, m) = Cardinality(J)
  <2>1. \A j \in J : j <= m
    OBVIOUS
  <2> HIDE DEF J
  <2>2. {j \in J : j <= m} = J
    BY <2>1
  <2> QED  BY <2>2 DEF CountTo
<1>5. /\ a \in Seq(S) /\ Len(a) = Cardinality(I)
  BY KeepAtPlaces
<1>6. /\ \A i \in I : s[i] = s[i]
      /\ \A i \in I, j \in J : j <= i => j \in I
  OBVIOUS
<1> HIDE DEF J
<1>7. out \in Seq(S) /\ Len(out) = Cardinality(J) /\ out[Cardinality(J)] = s[m]
  BY <1>3, <1>4, KeepAtPlaces
<1>8. \A k \in 1..Len(a) : a[k] = out[k]
  <2>1. I \subseteq J
    BY DEF J
  <2> QED  BY <1>3, <1>6, <2>1, KeepAtPrefix
<1> HIDE DEF out, a
<1>9. Append(a, s[m]) \in Seq(S) /\ Len(Append(a, s[m])) = Len(a) + 1
  BY <1>5
<1>10. \A k \in 1..Len(out) : out[k] = Append(a, s[m])[k]
  BY <1>1, <1>2, <1>5, <1>7, <1>8
<1>11. out = Append(a, s[m])
  BY <1>1, <1>2, <1>5, <1>7, <1>9, <1>10
<1> QED  BY <1>11 DEF out, a, J

(* t is s without its element at gap.                                        *)
DropsAt(s, t, gap) ==
    /\ gap \in 1..Len(s) /\ Len(t) = Len(s) - 1
    /\ \A j \in 1..Len(s) - 1 : t[j] = IF j < gap THEN s[j] ELSE s[j + 1]

LEMMA DeleteFirstDrops ==
    ASSUME NEW S, NEW s \in Seq(S), IsInjective(s), NEW e \in ToSet(s)
    PROVE  \E gap \in 1..Len(s) : s[gap] = e /\ DropsAt(s, DeleteFirst(s, e), gap)
<1> DEFINE gap == CHOOSE i \in DOMAIN s : s[i] = e /\ \A j \in 1..i - 1 : s[j] # e
           out == [j \in 1..Len(s) - 1 |-> IF j < gap THEN s[j] ELSE s[j + 1]]
<1>1. gap \in 1..Len(s) /\ s[gap] = e
  <2>1. PICK i \in 1..Len(s) : s[i] = e
    BY DEF ToSet
  <2>2. \A j \in 1..i - 1 : s[j] # e
    BY <2>1 DEF IsInjective
  <2> QED  BY <2>1, <2>2
<1>2. DeleteFirst(s, e) = out
  BY DEF DeleteFirst
<1> HIDE DEF gap
<1>3. Len(s) - 1 \in Nat
  BY <1>1
<1>4. Len(out) = Len(s) - 1
  BY <1>3
<1> QED  BY <1>1, <1>2, <1>4 DEF DropsAt

(* DeleteFunc of an element that is in s once.                               *)
LEMMA DeleteFuncDrops ==
    ASSUME NEW S, NEW s \in Seq(S), NEW gap \in 1..Len(s), NEW e,
           \A j \in 1..Len(s) : s[j] = e <=> j = gap
    PROVE  DropsAt(s, DeleteFunc(s, e), gap)
<1> DEFINE I == (1..Len(s)) \ {gap}
           out == KeepAt(s, I)
<1>1. out = DeleteFunc(s, e)
  <2>1. DOMAIN s = 1..Len(s)
    OBVIOUS
  <2>2. {i \in 1..Len(s) : s[i] # e} = I
    OBVIOUS
  <2> QED  BY <2>1, <2>2 DEF DeleteFunc
<1>2. Len(s) \in Nat /\ IsFiniteSet(1..Len(s)) /\ Cardinality(1..Len(s)) = Len(s)
  BY FS_Interval
<1>3. Cardinality(I) = Len(s) - 1
  BY <1>2, FS_RemoveElement
<1>4. I \in SUBSET (1..Len(s))
  OBVIOUS
<1>5. \A i \in 1..Len(s) : i < gap => CountTo(I, i) = i
  <2> SUFFICES ASSUME NEW i \in 1..Len(s), i < gap PROVE CountTo(I, i) = i
    OBVIOUS
  <2>1. {j \in I : j <= i} = 1..i
    OBVIOUS
  <2>2. Cardinality(1..i) = i
    BY FS_Interval
  <2> QED  BY <2>1, <2>2 DEF CountTo
<1>6. \A i \in 1..Len(s) : i > gap => CountTo(I, i) = i - 1
  <2> SUFFICES ASSUME NEW i \in 1..Len(s), i > gap PROVE CountTo(I, i) = i - 1
    OBVIOUS
  <2>1. {j \in I : j <= i} = (1..i) \ {gap}
    OBVIOUS
  <2>2. IsFiniteSet(1..i) /\ Cardinality(1..i) = i /\ gap \in 1..i
    BY FS_Interval
  <2>3. Cardinality((1..i) \ {gap}) = i - 1
    BY <2>2, FS_RemoveElement
  <2> QED  BY <2>1, <2>3 DEF CountTo
<1>7. \A i \in 1..Len(s) : i # gap => i \in I
  OBVIOUS
<1> HIDE DEF I
<1>8. /\ Len(out) = Cardinality(I)
      /\ \A i \in I : out[CountTo(I, i)] = s[i]
  BY <1>4, KeepAtPlaces
<1> HIDE DEF out
<1>9. ASSUME NEW j \in 1..Len(s) - 1
      PROVE  out[j] = IF j < gap THEN s[j] ELSE s[j + 1]
  <2>1. CASE j < gap
    <3>1. j \in I /\ CountTo(I, j) = j
      BY <1>2, <1>5, <1>7, <2>1
    <3> QED  BY <1>8, <2>1, <3>1
  <2>2. CASE ~(j < gap)
    <3>1. j + 1 \in 1..Len(s) /\ j + 1 > gap
      BY <1>2, <2>2
    <3>2. j + 1 \in I /\ CountTo(I, j + 1) = j
      BY <1>2, <1>6, <1>7, <3>1
    <3> QED  BY <1>8, <2>2, <3>2
  <2> QED  BY <2>1, <2>2
<1> QED  BY <1>1, <1>3, <1>8, <1>9 DEF DropsAt

(* No element of s but M occurs twice.                                       *)
RepeatsOnly(s, M) ==
    \A j, k \in 1..Len(s) : s[j] = s[k] => j = k \/ s[j] = M

(* DeleteFunc(s, e): every element but e, none of them more often than in s. *)
LEMMA DeleteFuncProperties ==
    ASSUME NEW S, NEW s \in Seq(S), NEW e
    PROVE  /\ DeleteFunc(s, e) \in Seq(S)
           /\ ToSet(DeleteFunc(s, e)) = ToSet(s) \ {e}
           /\ \A M : RepeatsOnly(s, M) => RepeatsOnly(DeleteFunc(s, e), M)
<1> DEFINE I == {i \in 1..Len(s) : s[i] # e}
           out == KeepAt(s, I)
<1>0. DeleteFunc(s, e) = out /\ I \in SUBSET (1..Len(s))
  <2>1. DOMAIN s = 1..Len(s)
    OBVIOUS
  <2> QED  BY <2>1 DEF DeleteFunc
<1>1. \A i \in 1..Len(s) : i \in I <=> s[i] # e
  OBVIOUS
<1> HIDE DEF I
<1>2. /\ out \in Seq(S)
      /\ \E h \in [1..Len(out) -> 1..Len(s)] :
            /\ \A k \in 1..Len(out) : h[k] \in I /\ out[k] = s[h[k]]
            /\ \A i \in I : \E k \in 1..Len(out) : h[k] = i
            /\ \A j, k \in 1..Len(out) : h[j] < h[k] <=> j < k
  <2> QED  BY <1>0, KeepAtFacts
<1> HIDE DEF out
<1>3. PICK h \in [1..Len(out) -> 1..Len(s)] :
         /\ \A k \in 1..Len(out) : h[k] \in I /\ out[k] = s[h[k]]
         /\ \A i \in I : \E k \in 1..Len(out) : h[k] = i
         /\ \A j, k \in 1..Len(out) : h[j] < h[k] <=> j < k
  BY <1>2
<1>4. \A k \in 1..Len(out) : h[k] \in 1..Len(s) /\ out[k] = s[h[k]] /\ out[k] # e
  BY <1>1, <1>3
<1>5. \A j, k \in 1..Len(out) : h[j] = h[k] => j = k
  BY <1>2, <1>3, <1>4
<1>6. ToSet(out) = ToSet(s) \ {e}
  <2>1. ASSUME NEW x \in ToSet(out)
        PROVE  x \in ToSet(s) \ {e}
    <3>1. PICK k \in 1..Len(out) : out[k] = x
      BY <1>2, ToSetOfSeq
    <3> QED  BY <3>1, <1>4, ToSetOfSeq
  <2>2. ASSUME NEW x \in ToSet(s), x # e
        PROVE  x \in ToSet(out)
    <3>1. PICK i \in 1..Len(s) : s[i] = x
      BY ToSetOfSeq
    <3>2. PICK k \in 1..Len(out) : h[k] = i
      BY <1>1, <1>3, <3>1, <2>2, Zenon
    <3>3. out[k] = x
      BY <1>4, <3>1, <3>2, Zenon
    <3> QED  BY <3>3, <1>2, ToSetOfSeq
  <2> QED  BY <2>1, <2>2
<1>7. ASSUME NEW M, RepeatsOnly(s, M),
             NEW j \in 1..Len(out), NEW k \in 1..Len(out), out[j] = out[k]
      PROVE  j = k \/ out[j] = M
  <2>1. h[j] = h[k] \/ s[h[j]] = M
    BY <1>4, <1>7, Zenon DEF RepeatsOnly
  <2> QED  BY <2>1, <1>4, <1>5, Zenon
<1>8. \A M : RepeatsOnly(s, M) => RepeatsOnly(out, M)
  BY <1>7, Zenon DEF RepeatsOnly
<1> QED  BY <1>0, <1>2, <1>6, <1>8

(* The keys of s are in order.                                               *)
NonDecreasing(s, key) == \A i, j \in 1..Len(s) : i < j => key[s[i]] <= key[s[j]]

(* Elements with equal keys are in t in the order in which s has them.       *)
KeepsTies(s, t, key) ==
    \A j, k \in 1..Len(t) :
        j < k /\ key[t[j]] = key[t[k]]
            => \E a, b \in 1..Len(s) : a < b /\ t[j] = s[a] /\ t[k] = s[b]

(* StableSort(s, key) is a permutation of s with its keys in order, equal    *)
(* ones as they were, and s itself if they were all in order already.        *)
LEMMA StableSortProperties ==
    ASSUME NEW S, NEW s \in Seq(S), NEW key \in [S -> Int]
    PROVE  /\ StableSort(s, key) \in Seq(S) /\ Len(StableSort(s, key)) = Len(s)
           /\ ToSet(StableSort(s, key)) = ToSet(s)
           /\ IsInjective(s) => IsInjective(StableSort(s, key))
           /\ NonDecreasing(StableSort(s, key), key)
           /\ KeepsTies(s, StableSort(s, key), key)
           /\ NonDecreasing(s, key) => StableSort(s, key) = s
<1> DEFINE out == StableSort(s, key)
<1> DEFINE D == 1..Len(s)
           before(j, i) == \/ key[s[j]] < key[s[i]]
                           \/ key[s[j]] = key[s[i]] /\ j <= i
           lands(i) == Cardinality({j \in DOMAIN s : before(j, i)})
           R == {p \in D \X D : before(p[1], p[2])}
           at == Count(D, R)
           pick(k) == CHOOSE i \in DOMAIN s : lands(i) = k
           h == [k \in D |-> pick(k)]
<1>a. out = StableSort(s, key)
  BY DEF out
<1> HIDE DEF out
<1>0. s \in [1..Len(s) -> S] /\ Len(s) \in Nat /\ DOMAIN s = D
  OBVIOUS
<1>1. IsFiniteSet(D) /\ Cardinality(D) = Len(s)
  <2>1. Len(s) \in Nat
    BY <1>0
  <2>2. \A n \in Nat : IsFiniteSet(1..n) /\ Cardinality(1..n) = n
    BY FS_Interval
  <2> QED  BY <2>1, <2>2, Zenon
<1>2a. /\ \A x \in D : <<x, x>> \in R
       /\ \A x, y \in D : <<x, y>> \in R \/ <<y, x>> \in R
       /\ \A x, y \in D : <<x, y>> \in R /\ <<y, x>> \in R => x = y
       /\ \A x, y, z \in D : <<x, y>> \in R /\ <<y, z>> \in R => <<x, z>> \in R
  <2>1. \A x \in D : key[s[x]] \in Int /\ x \in Int
    <3>1. \A x \in D : s[x] \in S /\ x \in Int
      BY <1>0
    <3> HIDE DEF D, before, lands, R, at, pick, h
    <3> QED  BY <3>1
  <2>2. \A x, y \in D : <<x, y>> \in R <=> before(x, y)
    OBVIOUS
  <2>3. /\ \A x \in D : before(x, x)
        /\ \A x, y \in D : before(x, y) \/ before(y, x)
        /\ \A x, y \in D : before(x, y) /\ before(y, x) => x = y
        /\ \A x, y, z \in D : before(x, y) /\ before(y, z) => before(x, z)
    <3> HIDE DEF D
    <3> QED  BY <2>1
  <2> HIDE DEF D, R, before, lands, pick, h
  <2> QED  BY <2>2, <2>3
<1>2. /\ at \in [D -> D]
      /\ \A i, k \in D : at[i] = at[k] => i = k
      /\ \A k \in D : \E i \in D : at[i] = k
  <2> HIDE DEF D, R, before, lands, pick, h
  <2>5. /\ Count(D, R) \in [D -> 1..Cardinality(D)]
        /\ \A i, k \in D : Count(D, R)[i] = Count(D, R)[k] => i = k
        /\ \A k \in 1..Cardinality(D) : \E i \in D : Count(D, R)[i] = k
    <3>1. IsFiniteSet(D)
      BY <1>1
    <3> HIDE DEF at
    <3> QED  BY <3>1, <1>2a, CountingBijection, SMTT(40)
  <2> QED  BY <1>1, <2>5 DEF D
<1>3. \A i \in D : at[i] = lands(i)
  <2> TAKE i \in D
  <2>1. {j \in D : <<j, i>> \in R} = {j \in DOMAIN s : before(j, i)}
    BY <1>0
  <2> QED  BY <2>1 DEF Count
<1>4. \A k \in D : pick(k) \in D /\ at[pick(k)] = k
  <2> TAKE k \in D
  <2>1. \E i \in DOMAIN s : lands(i) = k
    <3> HIDE DEF D, lands, at
    <3> QED  BY <1>0, <1>2, <1>3
  <2>2. pick(k) \in DOMAIN s /\ lands(pick(k)) = k
    <3> HIDE DEF lands
    <3> QED  BY <2>1
  <2> HIDE DEF D, lands, at, pick
  <2> QED  BY <2>2, <1>0, <1>3
<1>5. out = [k \in D |-> s[pick(k)]]
  BY <1>0, <1>a DEF StableSort
<1>6. h \in [D -> D] /\ out \in [D -> S] /\ \A k \in D : out[k] = s[h[k]]
  <2> HIDE DEF D, pick, at
  <2> QED  BY <1>0, <1>4, <1>5 DEF D
<1>7. \A i \in D : at[i] \in D /\ h[at[i]] = i
  <2> HIDE DEF D, pick, at
  <2> QED  BY <1>2, <1>4
<1>8. \A j, k \in D : h[j] = h[k] => j = k
  <2> HIDE DEF D, pick, at
  <2> QED  BY <1>4
<1>9. out \in Seq(S) /\ Len(out) = Len(s)
  <2> HIDE DEF h, at, pick, lands, R
  <2>1. out \in [1..Len(s) -> S]
    BY <1>6
  <2>2. Len(s) \in Nat
    BY <1>0
  <2> HIDE DEF D
  <2> QED  BY <2>1, <2>2
<1>9a. \A i, j \in D : before(i, j) => at[i] <= at[j]
  <2> SUFFICES ASSUME NEW i \in D, NEW j \in D, before(i, j)
               PROVE  at[i] <= at[j]
    OBVIOUS
  <2>1. <<i, j>> \in R
    OBVIOUS
  <2>2. \A x, y, z \in D : <<x, y>> \in R /\ <<y, z>> \in R => <<x, z>> \in R
    BY <1>2a
  <2> HIDE DEF D, R, before, lands, pick, h, at
  <2>3. IsFiniteSet(D)
    BY <1>1
  <2>4. Count(D, R)[i] <= Count(D, R)[j]
    BY <2>1, <2>2, <2>3, CountingMonotone
  <2> QED  BY <2>4 DEF at
<1> HIDE DEF h, at
<1>10. \A k \in 1..Len(s) : h[k] \in 1..Len(s) /\ out[k] = s[h[k]]
  BY <1>6
<1>11. ToSet(out) = ToSet(s)
  <2>1. ASSUME NEW x \in ToSet(out)
        PROVE  x \in ToSet(s)
    <3>1. PICK k \in 1..Len(s) : out[k] = x
      BY <1>9, ToSetOfSeq
    <3> QED  BY <3>1, <1>10, ToSetOfSeq
  <2>2. ASSUME NEW x \in ToSet(s)
        PROVE  x \in ToSet(out)
    <3>1. PICK i \in 1..Len(s) : s[i] = x
      BY ToSetOfSeq
    <3>2. PICK k \in 1..Len(s) : h[k] = i
      BY <1>7, Zenon
    <3>3. out[k] = x
      BY <1>10, <3>1, <3>2, Zenon
    <3> QED  BY <3>3, <1>9, ToSetOfSeq
  <2> QED  BY <2>1, <2>2
<1>12. ASSUME IsInjective(s)
       PROVE  IsInjective(out)
  <2>1. \A i, j \in 1..Len(s) : s[i] = s[j] => i = j
    BY <1>12, InjectiveSeq
  <2>2. ASSUME NEW j \in 1..Len(s), NEW k \in 1..Len(s), out[j] = out[k]
        PROVE  j = k
    <3>1. /\ h[j] \in 1..Len(s) /\ h[k] \in 1..Len(s)
          /\ out[j] = s[h[j]] /\ out[k] = s[h[k]]
      BY <1>10, Zenon
    <3>2. s[h[j]] = s[h[k]]
      BY <3>1, <2>2, Zenon
    <3>3. h[j] = h[k]
      BY <2>1, <3>1, <3>2, Zenon
    <3> QED  BY <3>3, <1>8, Zenon
  <2> QED  BY <1>9, <2>2, InjectiveSeq
<1>13. NonDecreasing(out, key)
  <2> SUFFICES ASSUME NEW j \in 1..Len(s), NEW k \in 1..Len(s), j < k
               PROVE  key[out[j]] <= key[out[k]]
    BY <1>9 DEF NonDecreasing
  <2>1. /\ h[j] \in D /\ h[k] \in D /\ out[j] = s[h[j]] /\ out[k] = s[h[k]]
        /\ at[h[j]] = j /\ at[h[k]] = k
    BY <1>4, <1>6 DEF h
  <2>2. ~ before(h[k], h[j])
    <3> SUFFICES ASSUME before(h[k], h[j])
                 PROVE  FALSE
      OBVIOUS
    <3>1. at[h[k]] <= at[h[j]]
      BY <1>9a, <2>1
    <3> QED  BY <2>1, <3>1
  <2>3. key[s[h[j]]] \in Int /\ key[s[h[k]]] \in Int /\ h[j] \in Int /\ h[k] \in Int
    BY <1>0, <2>1
  <2> QED  BY <2>1, <2>2, <2>3
<1>14. ASSUME NonDecreasing(s, key)
       PROVE  out = s
  <2>1. ASSUME NEW k \in 1..Len(s)
        PROVE  h[k] = k
    <3>1. \A j \in 1..Len(s) : before(j, k) <=> j \in 1..k
      <4> TAKE j \in 1..Len(s)
      <4>1. key[s[j]] \in Int /\ key[s[k]] \in Int
        BY <1>0
      <4>2. j < k => key[s[j]] <= key[s[k]]
        BY <1>14 DEF NonDecreasing
      <4>3. k < j => key[s[k]] <= key[s[j]]
        BY <1>14 DEF NonDecreasing
      <4>4. j = k => key[s[j]] = key[s[k]]
        OBVIOUS
      <4> QED  BY <4>1, <4>2, <4>3, <4>4
    <3>2. {j \in DOMAIN s : before(j, k)} = 1..k
      <4>1. DOMAIN s = 1..Len(s) /\ 1..k \subseteq 1..Len(s)
        BY <1>0
      <4> HIDE DEF before
      <4> QED  BY <3>1, <4>1
    <3>3. k \in Nat /\ Cardinality(1..k) = k
      <4>1. k \in Nat
        BY <1>0
      <4> QED  BY <4>1, FS_Interval
    <3>4. at[k] = k
      <4>1. lands(k) = k
        BY <3>2, <3>3
      <4> HIDE DEF lands
      <4> QED  BY <1>3, <4>1 DEF D
    <3> QED  BY <1>7, <3>4
  <2>2. ASSUME NEW k \in 1..Len(s)
        PROVE  out[k] = s[k]
    BY <1>10, <2>1, Zenon
  <2>3. s \in [1..Len(s) -> S] /\ out \in [1..Len(s) -> S]
    BY <1>0, <1>9
  <2> QED  BY <2>2, <2>3
<1>15. KeepsTies(s, out, key)
  <2>1. ASSUME NEW j \in 1..Len(s), NEW k \in 1..Len(s), j < k, key[out[j]] = key[out[k]]
        PROVE  \E a, b \in 1..Len(s) : a < b /\ out[j] = s[a] /\ out[k] = s[b]
    <3>1. /\ h[j] \in D /\ h[k] \in D /\ out[j] = s[h[j]] /\ out[k] = s[h[k]]
          /\ at[h[j]] = j /\ at[h[k]] = k
      BY <1>4, <1>6 DEF h
    <3>2. ~ before(h[k], h[j])
      <4> SUFFICES ASSUME before(h[k], h[j])
                   PROVE  FALSE
        OBVIOUS
      <4>1. at[h[k]] <= at[h[j]]
        BY <1>9a, <3>1
      <4> QED  BY <2>1, <3>1, <4>1
    <3>3. h[j] \in Int /\ h[k] \in Int
      BY <1>0, <3>1
    <3>4. h[j] < h[k]
      BY <2>1, <3>1, <3>2, <3>3
    <3> QED  BY <3>1, <3>4
  <2>2. Len(out) = Len(s)
    BY <1>9
  <2> HIDE DEF D, R, before, lands, pick, h, at, out
  <2> SUFFICES ASSUME NEW j \in 1..Len(out), NEW k \in 1..Len(out), j < k, key[out[j]] = key[out[k]]
               PROVE  \E a, b \in 1..Len(s) : a < b /\ out[j] = s[a] /\ out[k] = s[b]
    BY Zenon DEF KeepsTies
  <2>3. j \in 1..Len(s) /\ k \in 1..Len(s)
    BY <2>2
  <2> QED  BY <2>1, <2>3
<1> QED  BY <1>9, <1>11, <1>12, <1>13, <1>14, <1>15 DEF out

(* append(s, x).                                                             *)
LEMMA AppendFacts ==
    ASSUME NEW S, NEW s \in Seq(S), NEW x \in S
    PROVE  /\ Append(s, x) \in Seq(S) /\ Len(Append(s, x)) = Len(s) + 1
           /\ \A j \in 1..Len(s) : Append(s, x)[j] = s[j]
           /\ Append(s, x)[Len(s) + 1] = x
           /\ ToSet(Append(s, x)) = ToSet(s) \cup {x}
           /\ IsInjective(s) /\ x \notin ToSet(s) => IsInjective(Append(s, x))
<1> DEFINE out == Append(s, x)
<1>a. out = Append(s, x)
  BY DEF out
<1> HIDE DEF out
<1>1. /\ out \in Seq(S) /\ Len(out) = Len(s) + 1 /\ Len(s) \in Nat
      /\ \A j \in 1..Len(s) : out[j] = s[j]
      /\ out[Len(s) + 1] = x
  BY <1>a
<1>2. /\ \A j \in 1..Len(s) : j \in 1..Len(out)
      /\ Len(s) + 1 \in 1..Len(out)
      /\ \A j \in 1..Len(out) : j \in 1..Len(s) \/ j = Len(s) + 1
  BY <1>1
<1>3. ToSet(out) = ToSet(s) \cup {x}
  <2>1. ASSUME NEW y \in ToSet(out)
        PROVE  y \in ToSet(s) \cup {x}
    <3>1. PICK j \in 1..Len(out) : out[j] = y
      BY <1>1, ToSetOfSeq
    <3>2. CASE j \in 1..Len(s)
      <4>1. s[j] = y
        BY <1>1, <3>1, <3>2
      <4> QED  BY <4>1, <3>2, ToSetOfSeq
    <3>3. CASE j = Len(s) + 1
      BY <1>1, <3>1, <3>3
    <3> QED  BY <1>2, <3>2, <3>3
  <2>2. ASSUME NEW y \in ToSet(s) \cup {x}
        PROVE  y \in ToSet(out)
    <3>1. \A j \in 1..Len(out) : out[j] \in ToSet(out)
      BY <1>1, ToSetOfSeq
    <3>2. CASE y \in ToSet(s)
      <4>1. PICK j \in 1..Len(s) : s[j] = y
        BY <3>2, ToSetOfSeq
      <4>2. j \in 1..Len(out) /\ out[j] = y
        BY <1>1, <1>2, <4>1
      <4> QED  BY <3>1, <4>2
    <3>3. CASE y = x
      BY <1>1, <1>2, <3>1, <3>3
    <3> QED  BY <3>2, <3>3
  <2> QED  BY <2>1, <2>2
<1>4. ASSUME IsInjective(s), x \notin ToSet(s)
      PROVE  IsInjective(out)
  <2>1. \A j, k \in 1..Len(s) : s[j] = s[k] => j = k
    BY <1>4, InjectiveSeq
  <2>2. \A j \in 1..Len(s) : s[j] # x
    BY <1>4, ToSetOfSeq
  <2>3. ASSUME NEW j \in 1..Len(out), NEW k \in 1..Len(out), out[j] = out[k]
        PROVE  j = k
    BY <1>1, <1>2, <2>1, <2>2, <2>3
  <2> QED  BY <1>1, <2>3, InjectiveSeq
<1> QED  BY <1>1, <1>3, <1>4 DEF out

(* s[:len(s)-1].                                                              *)
LEMMA FrontFacts ==
    ASSUME NEW S, NEW s \in Seq(S), s # << >>
    PROVE  /\ Front(s) \in Seq(S) /\ Len(Front(s)) = Len(s) - 1
           /\ \A j \in 1..Len(s) - 1 : Front(s)[j] = s[j]
<1>1. Len(s) \in Nat \ {0} /\ s \in [1..Len(s) -> S]
  OBVIOUS
<1>2. SubSeq(s, 1, Len(s) - 1) = [i \in 1..Len(s) - 1 |-> s[i]]
  BY <1>1
<1>3. \A i \in 1..Len(s) - 1 : s[i] \in S
  BY <1>1
<1> DEFINE t == [i \in 1..Len(s) - 1 |-> s[i]]
<1>4. t \in [1..Len(s) - 1 -> S] /\ Len(s) - 1 \in Nat
  BY <1>1, <1>3
<1> HIDE DEF t
<1>5. t \in Seq(S) /\ Len(t) = Len(s) - 1
  BY <1>4
<1> QED  BY <1>2, <1>5 DEF Front, t

(* s followed by t.                                                          *)
LEMMA ConcatFacts ==
    ASSUME NEW S, NEW s \in Seq(S), NEW t \in Seq(S)
    PROVE  /\ s \o t \in Seq(S) /\ Len(s \o t) = Len(s) + Len(t)
           /\ \A i \in 1..Len(s) : i \in 1..Len(s \o t) /\ (s \o t)[i] = s[i]
           /\ \A j \in 1..Len(t) : /\ Len(s) + j \in 1..Len(s \o t)
                                   /\ (s \o t)[Len(s) + j] = t[j]
           /\ \A i \in 1..Len(s \o t) :
                 \/ i \in 1..Len(s) /\ (s \o t)[i] = s[i]
                 \/ /\ i - Len(s) \in 1..Len(t) /\ i > Len(s)
                    /\ (s \o t)[i] = t[i - Len(s)]
OBVIOUS

(* An order in which a Go map's keys are visited has each of them once.       *)
LEMMA SetToSeqsFacts ==
    ASSUME NEW T, IsFiniteSet(T), NEW f \in SetToSeqs(T)
    PROVE  /\ f \in Seq(T)
           /\ \A i, j \in 1..Len(f) : f[i] = f[j] => i = j
           /\ \A x \in T : \E i \in 1..Len(f) : f[i] = x
<1> DEFINE N == Cardinality(T)
<1>1. N \in Nat /\ IsFiniteSet(1..N) /\ Cardinality(1..N) = N
  BY FS_CardinalityType, FS_Interval
<1>2. f \in [1..N -> T] /\ \A i, j \in 1..N : i # j => f[i] # f[j]
  BY DEF SetToSeqs
<1> HIDE DEF N
<1>3. f \in Injection(1..N, T)
  BY <1>2, Fun_IsInj
<1>4. f \in Surjection(1..N, T)
  BY <1>1, <1>3, FS_Injection DEF N
<1>5. \A x \in T : \E i \in 1..N : f[i] = x
  BY <1>4 DEF Surjection
<1>6. f \in Seq(T) /\ Len(f) = N
  BY <1>1, <1>2
<1> QED  BY <1>2, <1>5, <1>6

(* Counting to one.                                                          *)
LEMMA AtMostOne ==
    ASSUME NEW T, IsFiniteSet(T)
    PROVE  Cardinality(T) <= 1 <=> \A x, y \in T : x = y
<1>1. Cardinality(T) \in Nat
  BY FS_CardinalityType
<1>2. CASE T = {}
  BY <1>2, FS_EmptySet
<1>3. CASE T # {}
  <2>1. Cardinality(T) # 0
    BY <1>3, FS_EmptySet
  <2>2. Cardinality(T) = 1 <=> \E x : T = {x}
    BY FS_Singleton
  <2>3. (\E x : T = {x}) <=> \A x, y \in T : x = y
    BY <1>3
  <2> QED  BY <1>1, <2>1, <2>2, <2>3
<1> QED  BY <1>2, <1>3
-----------------------------------------------------------------------------
(* Induction over data.  The library's induction theorems take the predicate *)
(* as an operator, which the provers cannot instantiate; these take a set    *)
(* instead, so that a proof by induction names the set of the numbers for     *)
(* which its claim holds.                                                    *)

(* A set of natural numbers that is not empty has a least element.           *)
LEMMA LeastNatural ==
    ASSUME NEW T \in SUBSET Nat, T # {}
    PROVE  \E m \in T : \A j \in T : m <= j
<1> DEFINE R == OpToRel(<, Nat)
<1>1. \A x, y \in Nat : <<x, y>> \in R <=> x < y
  BY DEF OpToRel
<1>2. IsWellFoundedOn(R, Nat)
  BY NatLessThanWellFounded
<1> HIDE DEF R
<1>3. PICK m \in T : \A j \in T : ~ (<<j, m>> \in R)
  BY <1>2, WFMin
<1>4. ASSUME NEW j \in T
      PROVE  m <= j
  <2>1. ~ (j < m) /\ j \in Nat /\ m \in Nat
    BY <1>1, <1>3
  <2> QED  BY <2>1
<1> QED  BY <1>4

(* Induction: a set with 0 and with the successor of each of its numbers.    *)
LEMMA NaturalsReached ==
    ASSUME NEW T, 0 \in T, \A n \in Nat : n \in T => n + 1 \in T
    PROVE  \A n \in Nat : n \in T
<1> DEFINE U == {n \in Nat : n \notin T}
<1>1. CASE U = {}
  BY <1>1
<1>2. CASE U # {}
  <2>1. PICK m \in U : \A j \in U : m <= j
    <3>1. U \in SUBSET Nat
      OBVIOUS
    <3> HIDE DEF U
    <3> QED  BY <1>2, <3>1, LeastNatural
  <2>2. m \in Nat /\ m # 0 /\ m - 1 \in Nat /\ m - 1 \notin U
    BY <2>1
  <2>3. m - 1 \in T
    BY <2>2
  <2> QED  BY <2>1, <2>2, <2>3
<1> QED  BY <1>1, <1>2

(* A family of subsets of a finite set that is not empty has a smallest one. *)
LEMMA SmallestSet ==
    ASSUME NEW S, IsFiniteSet(S), NEW F \in SUBSET (SUBSET S), F # {}
    PROVE  \E V \in F : \A W \in F : W \subseteq V => W = V
<1> DEFINE R == StrictSubsetOrdering(S)
<1>1. \A V, W \in SUBSET S : <<W, V>> \in R <=> W \subseteq V /\ W # V
  BY DEF StrictSubsetOrdering
<1>2. IsWellFoundedOn(R, FiniteSubsetsOf(S)) /\ FiniteSubsetsOf(S) = SUBSET S
  BY FS_StrictSubsetOrderingWellFounded, FS_FiniteSubsetsOfFinite
<1> HIDE DEF R
<1>3. PICK V \in F : \A W \in F : ~ (<<W, V>> \in R)
  BY <1>2, WFMin
<1> QED  BY <1>1, <1>3

-----------------------------------------------------------------------------
(* Levels.                                                                   *)

(* The function f of the definition of Level, up to K.                       *)
LevelsTo(A, succ, K, f) ==
    f = [j \in 0..K |-> IF j = 0 THEN A ELSE UNION {succ[n] : n \in f[j - 1]}]

(* The recursion has at most one solution at each number.                     *)
LEMMA LevelsAgree ==
    ASSUME NEW A, NEW succ, NEW K \in Nat, NEW L \in Nat,
           NEW f, LevelsTo(A, succ, K, f), NEW g, LevelsTo(A, succ, L, g)
    PROVE  \A j \in Nat : j <= K /\ j <= L => f[j] = g[j]
<1> DEFINE T == {j \in Nat : j <= K /\ j <= L => f[j] = g[j]}
<1>1. \A j \in 0..K : f[j] = IF j = 0 THEN A ELSE UNION {succ[n] : n \in f[j - 1]}
  BY DEF LevelsTo
<1>2. \A j \in 0..L : g[j] = IF j = 0 THEN A ELSE UNION {succ[n] : n \in g[j - 1]}
  BY DEF LevelsTo
<1>3. 0 \in T
  <2>1. 0 \in 0..K /\ 0 \in 0..L
    OBVIOUS
  <2>2. f[0] = A /\ g[0] = A
    BY <1>1, <1>2, <2>1
  <2> QED  BY <2>2
<1>4. ASSUME NEW j \in Nat, j \in T
      PROVE  j + 1 \in T
  <2> SUFFICES ASSUME j + 1 <= K, j + 1 <= L
               PROVE  f[j + 1] = g[j + 1]
    OBVIOUS
  <2>1. f[j] = g[j]
    BY <1>4
  <2>2. j + 1 \in 0..K /\ j + 1 \in 0..L /\ j + 1 # 0 /\ (j + 1) - 1 = j
    OBVIOUS
  <2>3. f[j + 1] = UNION {succ[n] : n \in f[j]}
    BY <1>1, <2>2
  <2>4. g[j + 1] = UNION {succ[n] : n \in g[j]}
    BY <1>2, <2>2
  <2> QED  BY <2>1, <2>3, <2>4
<1> HIDE DEF T
<1>5. \A j \in Nat : j \in T
  BY <1>3, <1>4, NaturalsReached
<1> QED  BY <1>5 DEF T

(* And it has one up to every number.                                        *)
LEMMA LevelsExist ==
    ASSUME NEW A, NEW succ
    PROVE  \A K \in Nat : \E f : LevelsTo(A, succ, K, f)
<1> DEFINE T == {K \in Nat : \E f : LevelsTo(A, succ, K, f)}
<1>1. 0 \in T
  <2> DEFINE f == [j \in 0..0 |-> A]
  <2>1. LevelsTo(A, succ, 0, f)
    BY DEF LevelsTo
  <2> QED  BY <2>1
<1>2. ASSUME NEW K \in Nat, K \in T
      PROVE  K + 1 \in T
  <2>1. PICK g : LevelsTo(A, succ, K, g)
    BY <1>2
  <2> DEFINE f == [j \in 0..K + 1 |-> IF j = 0 THEN A ELSE UNION {succ[n] : n \in g[j - 1]}]
  <2>2. \A j \in 0..K : g[j] = IF j = 0 THEN A ELSE UNION {succ[n] : n \in g[j - 1]}
    BY <2>1 DEF LevelsTo
  <2>3. ASSUME NEW j \in 0..K
        PROVE  f[j] = g[j]
    <3>1. j \in 0..K + 1
      OBVIOUS
    <3>2. f[j] = IF j = 0 THEN A ELSE UNION {succ[n] : n \in g[j - 1]}
      BY <3>1
    <3> QED  BY <2>2, <3>2
  <2>4. \A j \in 0..K + 1 : j # 0 => j - 1 \in 0..K
    OBVIOUS
  <2>5. \A j \in 0..K + 1 : j # 0 => f[j - 1] = g[j - 1]
    BY <2>3, <2>4
  <2>6. LevelsTo(A, succ, K + 1, f)
    <3>1. f = [j \in 0..K + 1 |-> IF j = 0 THEN A ELSE UNION {succ[n] : n \in f[j - 1]}]
      BY <2>5
    <3> QED  BY <3>1 DEF LevelsTo
  <2> QED  BY <2>6
<1> HIDE DEF T
<1>3. \A K \in Nat : K \in T
  BY <1>1, <1>2, NaturalsReached
<1> QED  BY <1>3 DEF T

(* Level is the recursion it looks like.                                     *)
LEMMA LevelStep ==
    ASSUME NEW A, NEW succ
    PROVE  /\ Level(A, succ, 0) = A
           /\ \A k \in Nat : Level(A, succ, k + 1) = UNION {succ[n] : n \in Level(A, succ, k)}
<1> DEFINE F(K) == CHOOSE f : LevelsTo(A, succ, K, f)
<1>1. \A K \in Nat : LevelsTo(A, succ, K, F(K))
  BY LevelsExist
<1>2. \A K \in Nat : Level(A, succ, K) = F(K)[K]
  BY DEF Level, LevelsTo
<1> HIDE DEF F
<1>3. Level(A, succ, 0) = A
  BY <1>1, <1>2 DEF LevelsTo
<1>4. ASSUME NEW k \in Nat
      PROVE  Level(A, succ, k + 1) = UNION {succ[n] : n \in Level(A, succ, k)}
  <2>1. LevelsTo(A, succ, k + 1, F(k + 1)) /\ LevelsTo(A, succ, k, F(k)) /\ k + 1 \in Nat
    BY <1>1
  <2>2. F(k + 1)[k] = F(k)[k]
    <3> DEFINE f == F(k + 1)
               g == F(k)
    <3>1. LevelsTo(A, succ, k + 1, f) /\ LevelsTo(A, succ, k, g)
      BY <2>1
    <3> HIDE DEF f, g
    <3>2. f[k] = g[k]
      BY <2>1, <3>1, LevelsAgree
    <3> QED  BY <3>2 DEF f, g
  <2>3. F(k + 1)[k + 1] = UNION {succ[n] : n \in F(k + 1)[k]}
    BY <2>1 DEF LevelsTo
  <2> QED  BY <1>2, <2>1, <2>2, <2>3
<1> QED  BY <1>3, <1>4

LEMMA LevelSucc ==
    ASSUME NEW A, NEW succ, NEW k \in Nat
    PROVE  Level(A, succ, k + 1) = UNION {succ[n] : n \in Level(A, succ, k)}
<1> DEFINE lv(j) == Level(A, succ, j)
<1>1. \A j \in Nat : lv(j + 1) = UNION {succ[n] : n \in lv(j)}
  BY LevelStep
<1> HIDE DEF lv
<1>2. lv(k + 1) = UNION {succ[n] : n \in lv(k)}
  BY <1>1
<1> QED  BY <1>2 DEF lv

(* A set of vertices with edges into the set, once reached, is never left.   *)
LEMMA EndlessWalk ==
    ASSUME NEW A, NEW succ, NEW S, \A n \in S : succ[n] \cap S # {},
           NEW j \in Nat, Level(A, succ, j) \cap S # {}
    PROVE  \A i \in Nat : Level(A, succ, i) # {}
<1> DEFINE lv(i) == Level(A, succ, i)
           T == {i \in Nat : lv(j + i) \cap S # {}}
<1>1. \A i \in Nat : lv(i + 1) = UNION {succ[n] : n \in lv(i)}
  BY LevelStep
<1>2. lv(j) \cap S # {}
  OBVIOUS
<1> HIDE DEF lv
<1>3. 0 \in T
  BY <1>2
<1>4. ASSUME NEW i \in Nat, i \in T
      PROVE  i + 1 \in T
  <2>1. PICK n : n \in lv(j + i) /\ n \in S
    BY <1>4
  <2>2. PICK m : m \in succ[n] /\ m \in S
    BY <2>1
  <2>3. m \in lv((j + i) + 1)
    <3>1. j + i \in Nat
      OBVIOUS
    <3> QED  BY <1>1, <2>1, <2>2, <3>1
  <2>4. (j + i) + 1 = j + (i + 1)
    OBVIOUS
  <2> QED  BY <2>2, <2>3, <2>4
<1>5. \A i \in Nat : i \in T
  <2> HIDE DEF T
  <2> QED  BY <1>3, <1>4, NaturalsReached
<1>6. ASSUME NEW i \in Nat, lv(i) = {}
      PROVE  \A d \in Nat : lv(i + d) = {}
  <2> DEFINE V == {d \in Nat : lv(i + d) = {}}
  <2>1. 0 \in V
    BY <1>6
  <2>2. ASSUME NEW d \in Nat, d \in V
        PROVE  d + 1 \in V
    <3>1. i + d \in Nat /\ (i + d) + 1 = i + (d + 1)
      OBVIOUS
    <3>2. lv((i + d) + 1) = {}
      BY <1>1, <2>2, <3>1
    <3> QED  BY <3>1, <3>2
  <2>3. \A d \in Nat : d \in V
    <3> HIDE DEF V
    <3> QED  BY <2>1, <2>2, NaturalsReached
  <2> QED  BY <2>3
<1>7. ASSUME NEW i \in Nat
      PROVE  lv(i) # {}
  <2>1. CASE i >= j
    <3>1. i - j \in Nat /\ j + (i - j) = i
      BY <2>1
    <3>2. lv(j + (i - j)) \cap S # {}
      BY <1>5, <3>1
    <3> QED  BY <3>1, <3>2
  <2>2. CASE i < j
    <3>1. j - i \in Nat /\ i + (j - i) = j
      BY <2>2
    <3> QED  BY <1>2, <1>6, <3>1
  <2> QED  BY <2>1, <2>2
<1> QED  BY <1>7 DEF lv

(* Where every vertex of a finite set has an edge from another of the set,   *)
(* some of them each have an edge to another: following the edges backwards  *)
(* comes round.                                                              *)
LEMMA BackwardsIsCyclic ==
    ASSUME NEW S, IsFiniteSet(S), S # {}, NEW succ,
           \A n \in S : \E m \in S : n \in succ[m]
    PROVE  \E C \in SUBSET S : C # {} /\ \A n \in C : succ[n] \cap C # {}
<1> DEFINE from == [n \in S |-> CHOOSE m \in S : n \in succ[m]]
           F == {V \in SUBSET S : V # {} /\ \A n \in V : from[n] \in V}
<1>1. \A n \in S : from[n] \in S /\ n \in succ[from[n]]
  OBVIOUS
<1> HIDE DEF from
<1>2. S \in F
  BY <1>1
<1>3. PICK C \in F : \A W \in F : W \subseteq C => W = C
  <2>1. F \in SUBSET (SUBSET S) /\ F # {}
    BY <1>2
  <2> HIDE DEF F
  <2> QED  BY <2>1, SmallestSet
<1> DEFINE W == {from[n] : n \in C}
<1>4. C \subseteq S /\ C # {} /\ \A n \in C : from[n] \in C
  OBVIOUS
<1>5. W \in F /\ W \subseteq C
  <2>1. W \subseteq C /\ W # {}
    BY <1>4
  <2>2. \A n \in W : from[n] \in W
    BY <1>4
  <2> QED  BY <1>4, <2>1, <2>2
<1>6. W = C
  BY <1>3, <1>5
<1>7. ASSUME NEW n \in C
      PROVE  succ[n] \cap C # {}
  <2>1. PICK m \in C : n = from[m]
    BY <1>6
  <2> QED  BY <1>1, <1>4, <2>1
<1> QED  BY <1>4, <1>7

(* A larger set to start from reaches more.                                   *)
LEMMA LevelGrows ==
    ASSUME NEW A, NEW B, A \subseteq B, NEW succ
    PROVE  \A k \in Nat : Level(A, succ, k) \subseteq Level(B, succ, k)
<1> DEFINE a(k) == Level(A, succ, k)
           b(k) == Level(B, succ, k)
<1>1. a(0) = A /\ \A k \in Nat : a(k + 1) = UNION {succ[n] : n \in a(k)}
  <2>1. a(0) = A
    BY LevelStep
  <2>2. ASSUME NEW k \in Nat
        PROVE  a(k + 1) = UNION {succ[n] : n \in a(k)}
    BY LevelSucc
  <2> QED  BY <2>1, <2>2
<1>2. b(0) = B /\ \A k \in Nat : b(k + 1) = UNION {succ[n] : n \in b(k)}
  <2>1. b(0) = B
    BY LevelStep
  <2>2. ASSUME NEW k \in Nat
        PROVE  b(k + 1) = UNION {succ[n] : n \in b(k)}
    BY LevelSucc
  <2> QED  BY <2>1, <2>2
<1> HIDE DEF a, b
<1> DEFINE T == {k \in Nat : a(k) \subseteq b(k)}
<1>3. 0 \in T
  BY <1>1, <1>2
<1>4. ASSUME NEW k \in Nat, k \in T
      PROVE  k + 1 \in T
  <2>1. a(k + 1) \subseteq b(k + 1)
    <3> SUFFICES ASSUME NEW x \in a(k + 1) PROVE x \in b(k + 1)
      OBVIOUS
    <3>1. PICK n \in a(k) : x \in succ[n]
      BY <1>1
    <3>2. n \in b(k)
      BY <1>4
    <3> QED  BY <1>2, <3>1, <3>2
  <2> QED  BY <2>1
<1>5. \A k \in Nat : k \in T
  <2> HIDE DEF T
  <2> QED  BY <1>3, <1>4, NaturalsReached
<1> QED  BY <1>5 DEF a, b

(* Walks that start in a set which no edge leaves stay in it.                 *)
LEMMA LevelStays ==
    ASSUME NEW V, NEW A, A \subseteq V, NEW succ, \A n \in V : succ[n] \subseteq V
    PROVE  \A k \in Nat : Level(A, succ, k) \subseteq V
<1> DEFINE lv(k) == Level(A, succ, k)
           T == {k \in Nat : lv(k) \subseteq V}
<1>1. lv(0) = A /\ \A k \in Nat : lv(k + 1) = UNION {succ[n] : n \in lv(k)}
  <2>1. lv(0) = A
    BY LevelStep
  <2>2. ASSUME NEW k \in Nat
        PROVE  lv(k + 1) = UNION {succ[n] : n \in lv(k)}
    BY LevelSucc
  <2> QED  BY <2>1, <2>2
<1> HIDE DEF lv
<1>2. 0 \in T
  BY <1>1
<1>3. ASSUME NEW k \in Nat, k \in T
      PROVE  k + 1 \in T
  BY <1>1, <1>3
<1>4. \A k \in Nat : k \in T
  <2> HIDE DEF T
  <2> QED  BY <1>2, <1>3, NaturalsReached
<1> QED  BY <1>4 DEF lv

(* In a finite graph, a walk with as many edges as there are vertices means   *)
(* a cycle: the levels from all vertices shrink, so two in a row are equal.   *)
LEMMA LongWalkIsCyclic ==
    ASSUME NEW V, IsFiniteSet(V), NEW A \in SUBSET V,
           NEW succ, \A n \in V : succ[n] \subseteq V,
           Level(A, succ, Cardinality(V)) # {}
    PROVE  \E C \in SUBSET V : C # {} /\ \A n \in C : succ[n] \cap C # {}
<1> DEFINE lv(k) == Level(V, succ, k)
           N == Cardinality(V)
<1>0. N \in Nat
  BY FS_CardinalityType
<1>1. lv(N) # {}
  <2>1. A \subseteq V
    OBVIOUS
  <2>2. \A k \in Nat : Level(A, succ, k) \subseteq lv(k)
    BY <2>1, LevelGrows
  <2> QED  BY <1>0, <2>2
<1>2. lv(0) = V /\ \A k \in Nat : lv(k + 1) = UNION {succ[n] : n \in lv(k)}
  <2>1. lv(0) = V
    BY LevelStep
  <2>2. ASSUME NEW k \in Nat
        PROVE  lv(k + 1) = UNION {succ[n] : n \in lv(k)}
    BY LevelSucc
  <2> QED  BY <2>1, <2>2
<1> HIDE DEF lv
<1>3. \A k \in Nat : lv(k + 1) \subseteq lv(k) /\ lv(k) \subseteq V
  <2> DEFINE T == {k \in Nat : lv(k + 1) \subseteq lv(k) /\ lv(k) \subseteq V}
  <2>1. 0 \in T
    <3>1. lv(0 + 1) \subseteq V
      BY <1>2
    <3> QED  BY <1>2, <3>1
  <2>2. ASSUME NEW k \in Nat, k \in T
        PROVE  k + 1 \in T
    <3>1. k + 1 \in Nat /\ lv(k + 1) \subseteq V /\ lv(k + 1) \subseteq lv(k)
      BY <2>2
    <3>2. lv((k + 1) + 1) = UNION {succ[n] : n \in lv(k + 1)}
      BY <1>2, <3>1
    <3>3. lv(k + 1) = UNION {succ[n] : n \in lv(k)}
      BY <1>2
    <3> QED  BY <3>1, <3>2, <3>3
  <2>3. \A k \in Nat : k \in T
    <3> HIDE DEF T
    <3> QED  BY <2>1, <2>2, NaturalsReached
  <2> QED  BY <2>3
<1>4. \A k \in Nat : IsFiniteSet(lv(k)) /\ Cardinality(lv(k)) \in Nat
  BY <1>3, FS_Subset, FS_CardinalityType
<1>5. PICK k \in Nat : lv(k + 1) = lv(k) /\ lv(k) # {}
  <2> SUFFICES ASSUME \A k \in Nat : lv(k) # {} => lv(k + 1) # lv(k)
               PROVE  FALSE
    OBVIOUS
  <2> DEFINE T == {k \in Nat : lv(k) # {} => Cardinality(lv(k)) <= N - k}
  <2>1. 0 \in T
    BY <1>0, <1>2
  <2>2. ASSUME NEW k \in Nat, k \in T
        PROVE  k + 1 \in T
    <3> SUFFICES ASSUME lv(k + 1) # {}
                 PROVE  Cardinality(lv(k + 1)) <= N - (k + 1)
      OBVIOUS
    <3>1. lv(k + 1) \subseteq lv(k) /\ lv(k) # {} /\ lv(k + 1) # lv(k)
      BY <1>3
    <3>2. /\ Cardinality(lv(k + 1)) <= Cardinality(lv(k))
          /\ Cardinality(lv(k)) # Cardinality(lv(k + 1))
      <4>1. IsFiniteSet(lv(k)) /\ lv(k + 1) \in SUBSET lv(k)
        BY <1>4, <3>1
      <4> QED  BY <3>1, <4>1, FS_Subset
    <3>3. Cardinality(lv(k)) <= N - k
      BY <2>2, <3>1
    <3>4. Cardinality(lv(k)) \in Nat /\ Cardinality(lv(k + 1)) \in Nat
      BY <1>4
    <3> HIDE DEF N
    <3> QED  BY <1>0, <3>2, <3>3, <3>4
  <2>3. \A k \in Nat : k \in T
    <3> HIDE DEF T
    <3> QED  BY <2>1, <2>2, NaturalsReached
  <2>4. Cardinality(lv(N)) <= N - N
    BY <1>0, <1>1, <2>3
  <2>5. Cardinality(lv(N)) = 0
    <3> HIDE DEF N
    <3> QED  BY <1>0, <1>4, <2>4
  <2> QED  BY <1>0, <1>1, <1>4, <2>5, FS_EmptySet
<1> DEFINE S == lv(k)
<1>6. \A n \in S : \E m \in S : n \in succ[m]
  BY <1>2, <1>5
<1>7. IsFiniteSet(S) /\ S # {} /\ S \subseteq V
  BY <1>3, <1>4, <1>5
<1> HIDE DEF S
<1>8. \E C \in SUBSET S : C # {} /\ \A n \in C : succ[n] \cap C # {}
  BY <1>6, <1>7, BackwardsIsCyclic
<1> QED  BY <1>7, <1>8
=============================================================================
