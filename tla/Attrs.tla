------------------------------- MODULE Attrs --------------------------------
(***************************************************************************)
(* The attributes of a node or an edge (struct common of lilgraph.go): one  *)
(* slice of key-value pairs, searched from the front, nil until something   *)
(* is written.  ReplaceAttrs ranges over a Go map, in any order.            *)
(***************************************************************************)
EXTENDS AttrList

CONSTANTS
    Key,      \* strings used as keys
    TypeKey,  \* those that strings.ToLower turns into "type"
    Value,    \* strings used as values
    Nil       \* no such key; and the nil slice, and the nil map

ASSUME AttrAssumption == /\ TypeKey \subseteq Key
                         /\ Nil \notin Value /\ Nil \notin Key
                         /\ Nil \notin Seq([key : Key, value : Value])

VARIABLES attrs,   \* c.attrs: Nil, or a sequence of pairs
          ret      \* what the last call returned

vars == <<attrs, ret>>

Pair == [key : Key, value : Value]

(* A Go map: finitely many keys have a value, the others are Nil.            *)
GoMap == {m \in [Key -> Value \cup {Nil}] : IsFiniteSet({x \in Key : m[x] # Nil})}

(* A nil slice and an empty one hold no pairs.                              *)
Pairs    == IF attrs = Nil THEN << >> ELSE attrs
At(x)    == Places(Pairs, x)
First(x) == FirstPlace(Pairs, x)

Init == attrs = Nil /\ ret = <<"none">>

SetAttr(x, v) ==
    /\ x \notin TypeKey
    /\ attrs' = WithAttr(Pairs, x, v)
    /\ ret' = <<"ok">>

SetAttrType(x) ==
    /\ x \in TypeKey
    /\ ret' = <<"ErrTypeInAttrs">>
    /\ UNCHANGED attrs

Lookup(x) == IF At(x) = {} THEN Nil ELSE Pairs[First(x)].value

GetAttr(x) == ret' = <<"value", Lookup(x)>> /\ UNCHANGED attrs

(* Mutant: DeleteAttr moves the last pair into the gap.                     *)
DeleteAttrSwaps(x) ==
    /\ attrs' = IF At(x) # {} THEN SwapDelete(Pairs, Pairs[First(x)]) ELSE attrs
    /\ ret' = <<"ok">>

DeleteAttr(x) ==
    /\ attrs' = IF At(x) # {} THEN DeleteFirst(Pairs, Pairs[First(x)]) ELSE attrs
    /\ ret' = <<"ok">>

(* Nil for a nil slice, and otherwise, for an empty one too, the map that     *)
(* AttrsMap builds: of two pairs with a key, the later one wins.             *)
AttrsMap ==
    /\ ret' = <<"map", IF attrs = Nil THEN Nil
                       ELSE [x \in Key |-> IF At(x) = {} THEN Nil
                                           ELSE Pairs[Max(At(x))].value]>>
    /\ UNCHANGED attrs

(* The loop over c.attrs keeps a pair whose key is still in the clone of m,   *)
(* and takes its key out of the clone; the loop over the clone appends what   *)
(* is left, in any order.                                                    *)
Kept(pairs, m) ==
    KeepAt([j \in 1..Len(pairs) |-> [pairs[j] EXCEPT !.value = m[pairs[j].key]]],
           {j \in 1..Len(pairs) :
               m[pairs[j].key] # Nil /\ j = FirstPlace(pairs, pairs[j].key)})

(* The pairs of m with the keys of order.                                    *)
Listed(m, order) ==
    [j \in 1..Len(order) |-> [key |-> order[j], value |-> m[order[j]]]]

(* Mutant: ReplaceAttrs does not take the keys it has kept out of the clone. *)
ReplaceAttrsTwice(m) ==
    LET new == {x \in Key : m[x] # Nil}
    IN  /\ \E order \in SetToSeqs(new) :
              attrs' = Kept(Pairs, m) \o Listed(m, order)
        /\ ret' = <<"ok">>

ReplaceAttrs(m) ==
    LET new == {x \in Key : m[x] # Nil /\ At(x) = {}}
    IN  /\ \E order \in SetToSeqs(new) :
              attrs' = Kept(Pairs, m) \o Listed(m, order)
        /\ ret' = <<"ok">>

Next ==
    \/ \E x \in Key, v \in Value : SetAttr(x, v)
    \/ \E x \in Key : SetAttrType(x) \/ GetAttr(x) \/ DeleteAttr(x)
    \/ \E m \in GoMap : ReplaceAttrs(m)
    \/ AttrsMap

Spec == Init /\ [][Next]_vars

-----------------------------------------------------------------------------
(* Every variable holds values of the Go type it stands for.                *)
TypeOK == attrs \in {Nil} \cup Seq(Pair)

(* No key is twice in the slice.  SetAttr, GetAttr and DeleteAttr stop at    *)
(* the first pair with a key, AttrsMap keeps the last: they agree because of *)
(* this, and marshalText would print the key twice without it.               *)
KeysUnique == \A x \in Key : Cardinality(At(x)) <= 1

(* The slice is a list of pairs of distinct keys.                            *)
PairsInv == TypeOK /\ KeysUnique

(* The slice implements a map with an order: of how the pairs were written no *)
(* call's answer shows more than whether any were (AttrsMap returns a nil map *)
(* until then, and an empty one when all are deleted again), and only         *)
(* ReplaceAttrs, for new keys, leaves the order of keys (the order that       *)
(* marshalText prints) open.                                                 *)
Abstract == INSTANCE AttrMap WITH
    map    <- [x \in Key |-> Lookup(x)],
    before <- {p \in Key \X Key : \E i, j \in 1..Len(Pairs) :
                  i < j /\ Pairs[i].key = p[1] /\ Pairs[j].key = p[2]},
    blank  <- attrs = Nil,
    answer <- ret
AbstractSpec == Abstract!Spec

(* "attributes called 'type' aren't allowed to avoid ambiguity": but         *)
(* ReplaceAttrs does not check its keys.                                     *)
NoTypeKey == \A x \in TypeKey : At(x) = {}
=============================================================================
