------------------------------ MODULE AttrMap -------------------------------
(***************************************************************************)
(* What the attributes of a node or an edge are to a caller: a map from     *)
(* keys to values, and an order of its keys in which a key stays where it   *)
(* is until it is deleted.  Attrs implements it with one slice of pairs.    *)
(***************************************************************************)
EXTENDS Integers, FiniteSets

CONSTANTS Key, TypeKey, Value, Nil

VARIABLES map,     \* the value of every key, Nil for a key that is not there
          before,  \* the pairs <<x, y>> of keys with x listed before y
          blank,   \* nothing has been set or replaced yet
          answer   \* what the last call returned

vars == <<map, before, blank, answer>>

Keys   == {x \in Key : map[x] # Nil}
Orders == {r \in SUBSET (Key \X Key) :
             /\ \A x, y \in Keys' : x # y => (<<x, y>> \in r <=> <<y, x>> \notin r)
             /\ \A x, y, z \in Keys' : <<x, y>> \in r /\ <<y, z>> \in r => <<x, z>> \in r
             /\ \A x \in Key : <<x, x>> \notin r
             /\ r \subseteq Keys' \X Keys'}

Init == map = [x \in Key |-> Nil] /\ before = {} /\ blank = TRUE /\ answer = <<"none">>

(* SetAttr: a new key goes behind the others.                               *)
Set(x, v) ==
    /\ x \notin TypeKey
    /\ map' = [map EXCEPT ![x] = v]
    /\ before' = before \cup {<<y, x>> : y \in IF x \in Keys THEN {} ELSE Keys}
    /\ blank' = FALSE
    /\ answer' = <<"ok">>

Refuse(x) == x \in TypeKey /\ answer' = <<"ErrTypeInAttrs">> /\ UNCHANGED <<map, before, blank>>

(* DeleteAttr.  A map that has lost its last key is not blank again.          *)
Delete(x) ==
    /\ map' = [map EXCEPT ![x] = Nil]
    /\ before' = {p \in before : x \notin {p[1], p[2]}}
    /\ answer' = <<"ok">>
    /\ UNCHANGED blank

(* ReplaceAttrs: the keys that stay keep their order, and the new ones come  *)
(* behind them in any order.                                                 *)
Replace(m) ==
    /\ map' = m
    /\ before' \in {r \in Orders :
          /\ \A p \in before : p[1] \in Keys' /\ p[2] \in Keys' => p \in r
          /\ \A x \in Keys \cap Keys', y \in Keys' \ Keys : <<x, y>> \in r}
    /\ blank' = FALSE
    /\ answer' = <<"ok">>

(* GetAttr, AttrsMap: the map of a blank one is nil, and never that of others.*)
Get(x) == answer' = <<"value", map[x]>> /\ UNCHANGED <<map, before, blank>>
All    == answer' = <<"map", IF blank THEN Nil ELSE map>> /\ UNCHANGED <<map, before, blank>>

Next ==
    \/ \E x \in Key, v \in Value : Set(x, v)
    \/ \E x \in Key : Refuse(x) \/ Delete(x) \/ Get(x)
    \/ \E m \in [Key -> Value \cup {Nil}] : Replace(m)
    \/ All

Spec == Init /\ [][Next]_vars
=============================================================================
