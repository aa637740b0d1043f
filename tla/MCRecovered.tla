---------------------------- MODULE MCRecovered ----------------------------
(* Recovered on a small instance: two ids, one of which has nodes of any type *)
(* and the other untyped ones.  Pointers are interchangeable.  States that    *)
(* differ in ret only are taken as one: no step reads ret, and the properties *)
(* read it in the state that a step leads to.                                 *)
EXTENDS Recovered

CONSTANTS a, b

AnyTypeOfA == ({a} \X Type) \cup {<<b, Untyped>>}

PointerSymmetry == Permutations(NodePtr) \cup Permutations(EdgePtr)
AllButRet == <<graphVars, nodeVars, edgeVars, loopVars, misused, broken>>
=============================================================================
