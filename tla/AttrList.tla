------------------------------ MODULE AttrList ------------------------------
(***************************************************************************)
(* The slice of key-value pairs that a node, an edge and an AST item keep   *)
(* their attributes in, as a sequence of records; and the loop of SetAttr.  *)
(* Attrs has the methods on one such slice, Build runs the loop over ASTs.  *)
(***************************************************************************)
EXTENDS GoSlices

Places(pairs, x)     == {j \in 1..Len(pairs) : pairs[j].key = x}
FirstPlace(pairs, x) == CHOOSE j \in Places(pairs, x) : \A m \in Places(pairs, x) : j <= m

(* SetAttr behind its check of the key: the first pair with the key takes    *)
(* the value, or a new pair goes to the end.                                *)
WithAttr(pairs, x, v) ==
    IF Places(pairs, x) # {} THEN [pairs EXCEPT ![FirstPlace(pairs, x)].value = v]
    ELSE Append(pairs, [key |-> x, value |-> v])
=============================================================================
