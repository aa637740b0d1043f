----------------------------- MODULE MCLilGraph -----------------------------
(* LilGraph on a small instance: pointers are interchangeable, and so are    *)
(* the valid ids.                                                            *)
EXTENDS LilGraph

PointerSymmetry == Permutations(NodePtr) \cup Permutations(EdgePtr)
                       \cup Permutations(ValidId)
=============================================================================
