---------------------------- MODULE MCIterators ----------------------------
(* Loops over a graph of three nodes with one of a few sets of edges, and     *)
(* pointers for one more node and at least one more edge.                     *)
EXTENDS Iterators

CONSTANTS n1, n2, n3, n4, e1, e2, e3, e4, a, b, c, d, t

ThreeNodes == <<<<n1, a>>, <<n2, b>>, <<n3, c>>>>

(* Two edges out of one node to another, and one into it; two out of one and  *)
(* two into one.                                                             *)
SomeEdges ==
    {<<<<e1, n1, n2, Untyped>>, <<e2, n1, n2, t>>, <<e3, n3, n1, Untyped>>>>,
     <<<<e1, n1, n2, Untyped>>, <<e2, n3, n2, Untyped>>, <<e3, n1, n3, Untyped>>>>}
=============================================================================
