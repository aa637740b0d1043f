--------------------------- MODULE PropertyGraph ---------------------------
(***************************************************************************)
(* What a Lilgraph promises to a caller that names nodes by their ids: a    *)
(* set of typed nodes, a set of typed arcs between them, and the answer of  *)
(* each call.  No pointers, no indexes, no adjacency lists; every operation *)
(* is one atomic step.  LilGraph implements it (MCLilGraph).                *)
(***************************************************************************)
EXTENDS Integers, FiniteSets

CONSTANTS Id, ValidId, Type, Untyped, Nil,
          StaleHandles   \* whether callers use pointers to deleted nodes

VARIABLES typeOf,   \* the type of each node, Nil for an id with no node
          arcs,     \* the edges, as <<from, to, type>>
          result    \* what the last call returned

vars == <<typeOf, arcs, result>>

Present == {x \in Id : typeOf[x] # Nil}

Init == typeOf = [x \in Id |-> Nil] /\ arcs = {} /\ result = "none"

(* AddNode: a type is set once, by the first call that gives one.           *)
Upsert(x, t) ==
    /\ result' = IF x \notin ValidId THEN "ErrInvalidId"
                 ELSE IF x \notin Present THEN "node_new"
                 ELSE IF typeOf[x] \in {t, Untyped} \/ t = Untyped
                 THEN "node_existed" ELSE "ErrTypeChange"
    /\ typeOf' = IF \/ result' = "node_new"
                    \/ result' = "node_existed" /\ t # Untyped
                 THEN [typeOf EXCEPT ![x] = t] ELSE typeOf
    /\ UNCHANGED arcs

(* AddEdge: a simple digraph, but for parallel edges of different types.    *)
Connect(x, y, t) ==
    /\ result' = IF x = y THEN "ErrLoop"
                 ELSE IF <<x, y, t>> \in arcs THEN "edge_existed" ELSE "edge_new"
    /\ arcs' = IF x = y THEN arcs ELSE arcs \cup {<<x, y, t>>}
    /\ UNCHANGED typeOf

(* DeleteEdge.                                                              *)
Disconnect(a) ==
    /\ arcs' = arcs \ {a}
    /\ result' = "edge_deleted"
    /\ UNCHANGED typeOf

(* DeleteNode: the node goes, and with it every arc at it.                  *)
Remove(x) ==
    /\ typeOf' = [typeOf EXCEPT ![x] = Nil]
    /\ arcs' = {a \in arcs : x \notin {a[1], a[2]}}
    /\ result' = "node_deleted"

(* DeleteEdge and DeleteNode through a pointer that is no longer there.     *)
Absent == result' = "absent" /\ UNCHANGED <<typeOf, arcs>>

(* A set of nodes each of which has an arc into the set.                    *)
Cyclic == \E S \in SUBSET Present :
    S # {} /\ \A x \in S : \E a \in arcs : a[1] = x /\ a[2] \in S

(* SortTopo may succeed on any graph (it overlooks cycles: TopoSort), but   *)
(* must succeed on one without a cycle.                                     *)
Sort ==
    /\ result' \in IF Cyclic \/ StaleHandles THEN {"sorted", "ErrCyclic"}
                   ELSE {"sorted"}
    /\ UNCHANGED <<typeOf, arcs>>

(* AddEdge and DeleteEdge on edges that have a deleted node as an endpoint  *)
(* are invisible to callers that only hold nodes of the graph.              *)
Detached ==
    /\ StaleHandles
    /\ result' \in {"edge_new", "edge_existed", "ErrLoop", "edge_deleted"}
    /\ UNCHANGED <<typeOf, arcs>>

Next ==
    \/ \E x \in Id, t \in Type : Upsert(x, t)
    \/ \E x, y \in Present, t \in Type : Connect(x, y, t)
    \/ \E a \in arcs : Disconnect(a)
    \/ \E x \in Present : Remove(x)
    \/ Absent \/ Sort \/ Detached

Spec == Init /\ [][Next]_vars
=============================================================================
