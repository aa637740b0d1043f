------------------------------- MODULE Ranks -------------------------------
(***************************************************************************)
(* What lexicalTopoSort computes, without saying how: the ranks of the     *)
(* nodes reached from a set of apexes, and whether the depth-first walks   *)
(* from the apexes meet a cycle.  A graph is a function succ from each node *)
(* to the set of the nodes its edges lead to.  LilGraph uses the outcome in *)
(* one step; TopoSort has the walk itself and is checked against it.        *)
(***************************************************************************)
EXTENDS Integers, FiniteSets

(* The nodes at the end of some walk of exactly k edges from an apex.       *)
Level(apexes, succ, k) ==
    LET f[j \in 0..k] ==
            IF j = 0 THEN apexes ELSE UNION {succ[n] : n \in f[j - 1]}
    IN  f[k]

(* A walk with as many edges as there are nodes visits one of them twice,   *)
(* and if some walk from an apex visits a node twice there are walks of     *)
(* every length.                                                            *)
WalkRepeats(vertices, apexes, succ) ==
    Level(apexes, succ, Cardinality(vertices)) # {}

(* The length of the longest walk from an apex to n, 0 if there is none:    *)
(* how many lengths k are reached or exceeded by such a walk.               *)
Rank(vertices, apexes, succ) ==
    LET K == 1..Cardinality(vertices)
    IN  [n \in vertices |->
            Cardinality({k \in K :
                \E m \in K : m >= k /\ n \in Level(apexes, succ, m)})]
=============================================================================
