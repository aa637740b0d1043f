----------------------------- MODULE MCTopoSort -----------------------------
(* TopoSort on every directed graph over four vertices, all of which are in  *)
(* the graph or one of which has been deleted.                               *)
EXTENDS TopoSort

CONSTANTS v1, v2, v3, v4

FourVertices == {v1, v2, v3, v4}

(* The edges of a node in the order of v1..v4: what another order would give *)
(* is found under another naming of the vertices, but for the order of nodes *)
(* of the same rank.  Parallel edges of different types: <<v1, v1>>.         *)
Lists == {SelectSeq(<<v1, v2, v3, v4>>, LAMBDA x : x \in S) : S \in SUBSET FourVertices}
             \cup {<<v1, v1>>}

Orders == {<<v1, v2, v3, v4>>, <<v3, v1, v2>>, << >>}
=============================================================================
