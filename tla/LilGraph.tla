------------------------------ MODULE LilGraph ------------------------------
(***************************************************************************)
(* The in-memory graph of lilgraph.go: type Lilgraph with its four         *)
(* collections, and the Node and Edge structs its pointers lead to.         *)
(*                                                                         *)
(* Pointers are values of NodePtr and EdgePtr.  The structs behind them are *)
(* functions of the pointer, and outlive their deletion from the graph: a   *)
(* caller may hold, and pass back, a pointer that the graph has dropped.    *)
(* DeleteNode is the one operation with loops; each iteration is a step, so *)
(* that the invariants also say what the loops rely on half way through.    *)
(***************************************************************************)
EXTENDS GoSlices, Ranks

CONSTANTS
    NodePtr,       \* *Node values the allocator can return
    EdgePtr,       \* *Edge values the allocator can return
    Id,            \* strings a caller passes as a node id
    ValidId,       \* those that match idRegexp
    Type,          \* type strings of nodes and edges
    Untyped,       \* the type string ""
    Nil,           \* the nil pointer, and "no such key" of a map lookup
    StaleHandles   \* whether callers go on using pointers to deleted nodes

ASSUME PointerAssumption == /\ IsFiniteSet(NodePtr)
                            /\ Nil \notin NodePtr \cup EdgePtr
ASSUME DataAssumption == /\ ValidId \subseteq Id
                         /\ Untyped \in Type
                         /\ Nil \notin Id \cup Type
                         /\ StaleHandles \in BOOLEAN

VARIABLES
    nodes, edges, nodesById, edgesById,   \* struct Lilgraph
    id, typ, edgesFrom, edgesTo,          \* struct Node, by NodePtr
    from, to, edgeTyp,                    \* struct Edge, by EdgePtr
    pc, cur, i,                           \* the loop DeleteNode(cur) is in
    ret                                   \* what the last call returned

graphVars == <<nodes, edges, nodesById, edgesById>>
nodeVars  == <<id, typ, edgesFrom, edgesTo>>
edgeVars  == <<from, to, edgeTyp>>
loopVars  == <<pc, cur, i>>
vars      == <<graphVars, nodeVars, edgeVars, loopVars, ret>>

Ptr          == NodePtr \cup {Nil}
EdgeIdentity == Ptr \X Ptr \X Type

(* Which structs have been allocated: id is set once, by AddNode, and       *)
(* edgeTyp once, by AddEdge.                                                *)
NodeExists(n) == id[n] # Nil
EdgeExists(e) == edgeTyp[e] # Nil
InGraph(n)    == n \in ToSet(nodes)

(* The node pointers a caller may pass in.                                  *)
Handle == {n \in NodePtr : NodeExists(n) /\ (StaleHandles \/ InGraph(n))}

Init ==
    /\ nodes = << >> /\ edges = << >>
    /\ nodesById = [x \in Id |-> Nil]
    /\ edgesById = [k \in EdgeIdentity |-> Nil]
    /\ id = [n \in NodePtr |-> Nil] /\ typ = [n \in NodePtr |-> Untyped]
    /\ edgesFrom = [n \in NodePtr |-> << >>]
    /\ edgesTo = [n \in NodePtr |-> << >>]
    /\ from = [e \in EdgePtr |-> Nil] /\ to = [e \in EdgePtr |-> Nil]
    /\ edgeTyp = [e \in EdgePtr |-> Nil]
    /\ pc = "idle" /\ cur = Nil /\ i = 1
    /\ ret = "none"

-----------------------------------------------------------------------------
(* AddNode(id, typ)                                                         *)

AddNodeInvalid(x, t) ==
    /\ x \notin ValidId
    /\ ret' = "ErrInvalidId"
    /\ UNCHANGED <<graphVars, nodeVars, edgeVars, loopVars>>

TypeConflict(n, t) == t # Untyped /\ typ[n] # Untyped /\ typ[n] # t

AddNodeTypeChange(x, t) ==
    /\ x \in ValidId /\ nodesById[x] # Nil
    /\ TypeConflict(nodesById[x], t)
    /\ ret' = "ErrTypeChange"
    /\ UNCHANGED <<graphVars, nodeVars, edgeVars, loopVars>>

AddNodeExisting(x, t) ==
    /\ x \in ValidId /\ nodesById[x] # Nil
    /\ ~TypeConflict(nodesById[x], t)
    /\ typ' = IF t = Untyped THEN typ ELSE [typ EXCEPT ![nodesById[x]] = t]
    /\ ret' = "node_existed"
    /\ UNCHANGED <<graphVars, id, edgesFrom, edgesTo, edgeVars, loopVars>>

(* Mutant: AddNode puts the new node first.                                 *)
AddNodeFirst(x, t) ==
    /\ x \in ValidId /\ nodesById[x] = Nil
    /\ \E n \in NodePtr :
          /\ ~NodeExists(n)
          /\ id' = [id EXCEPT ![n] = x]
          /\ typ' = [typ EXCEPT ![n] = t]
          /\ nodes' = <<n>> \o nodes
          /\ nodesById' = [nodesById EXCEPT ![x] = n]
    /\ ret' = "node_new"
    /\ UNCHANGED <<edges, edgesById, edgesFrom, edgesTo, edgeVars, loopVars>>

AddNodeNew(x, t) ==
    /\ x \in ValidId /\ nodesById[x] = Nil
    /\ \E n \in NodePtr :
          /\ ~NodeExists(n)
          /\ id' = [id EXCEPT ![n] = x]
          /\ typ' = [typ EXCEPT ![n] = t]
          /\ nodes' = Append(nodes, n)
          /\ nodesById' = [nodesById EXCEPT ![x] = n]
    /\ ret' = "node_new"
    /\ UNCHANGED <<edges, edgesById, edgesFrom, edgesTo, edgeVars, loopVars>>

AddNode(x, t) ==
    /\ pc = "idle"
    /\ \/ AddNodeInvalid(x, t) \/ AddNodeTypeChange(x, t)
       \/ AddNodeExisting(x, t) \/ AddNodeNew(x, t)

-----------------------------------------------------------------------------
(* AddEdge(from, to, edgeType)                                              *)

AddEdgeLoop(f, t, ty) ==
    /\ f = t
    /\ ret' = "ErrLoop"
    /\ UNCHANGED <<graphVars, nodeVars, edgeVars, loopVars>>

AddEdgeExisting(f, t, ty) ==
    /\ f # t /\ edgesById[<<f, t, ty>>] # Nil
    /\ ret' = "edge_existed"
    /\ UNCHANGED <<graphVars, nodeVars, edgeVars, loopVars>>

(* Mutant: AddEdge does not look whether the graph has the edge.            *)
AddEdgeUnchecked(f, t, ty) ==
    /\ f # t
    /\ \E e \in EdgePtr :
          /\ ~EdgeExists(e)
          /\ from' = [from EXCEPT ![e] = f]
          /\ to' = [to EXCEPT ![e] = t]
          /\ edgeTyp' = [edgeTyp EXCEPT ![e] = ty]
          /\ edges' = Append(edges, e)
          /\ edgesById' = [edgesById EXCEPT ![<<f, t, ty>>] = e]
          /\ edgesFrom' = [edgesFrom EXCEPT ![f] = Append(@, e)]
          /\ edgesTo' = [edgesTo EXCEPT ![t] = Append(@, e)]
    /\ ret' = "edge_new"
    /\ UNCHANGED <<nodes, nodesById, id, typ, loopVars>>

AddEdgeNew(f, t, ty) ==
    /\ f # t /\ edgesById[<<f, t, ty>>] = Nil
    /\ \E e \in EdgePtr :
          /\ ~EdgeExists(e)
          /\ from' = [from EXCEPT ![e] = f]
          /\ to' = [to EXCEPT ![e] = t]
          /\ edgeTyp' = [edgeTyp EXCEPT ![e] = ty]
          /\ edges' = Append(edges, e)
          /\ edgesById' = [edgesById EXCEPT ![<<f, t, ty>>] = e]
          /\ edgesFrom' = [edgesFrom EXCEPT ![f] = Append(@, e)]
          /\ edgesTo' = [edgesTo EXCEPT ![t] = Append(@, e)]
    /\ ret' = "edge_new"
    /\ UNCHANGED <<nodes, nodesById, id, typ, loopVars>>

AddEdge(f, t, ty) ==
    /\ pc = "idle"
    /\ AddEdgeLoop(f, t, ty) \/ AddEdgeExisting(f, t, ty) \/ AddEdgeNew(f, t, ty)

-----------------------------------------------------------------------------
(* Mutant: deleteEdge forgets the adjacency list of the edge's end.         *)
deleteEdgeKeepsIn(e, f, t, outs, ins, purgeFrom, purgeTo) ==
    /\ IF e \in ToSet(edges)
       THEN /\ edges' = DeleteFirst(edges, e)
            /\ edgesById' = [edgesById EXCEPT ![<<f, t, edgeTyp[e]>>] = Nil]
            /\ edgesFrom' = IF purgeFrom
                            THEN [outs EXCEPT ![f] = DeleteFunc(@, e)] ELSE outs
       ELSE edgesFrom' = outs /\ UNCHANGED <<edges, edgesById>>
    /\ edgesTo' = ins

(* Mutant: deleteEdge forgets edgesById.                                    *)
deleteEdgeKeepsIndex(e, f, t, outs, ins, purgeFrom, purgeTo) ==
    /\ edges' = IF e \in ToSet(edges) THEN DeleteFirst(edges, e) ELSE edges
    /\ edgesFrom' = IF e \in ToSet(edges) /\ purgeFrom
                    THEN [outs EXCEPT ![f] = DeleteFunc(@, e)] ELSE outs
    /\ edgesTo' = IF e \in ToSet(edges) /\ purgeTo
                  THEN [ins EXCEPT ![t] = DeleteFunc(@, e)] ELSE ins
    /\ UNCHANGED edgesById

(* deleteEdge(e, purgeFrom, purgeTo).  The callers assign e.from, e.to and  *)
(* an adjacency slot before the call: f and t are the endpoints, outs and   *)
(* ins the adjacency lists that deleteEdge finds.                           *)
deleteEdge(e, f, t, outs, ins, purgeFrom, purgeTo) ==
    IF e \in ToSet(edges)
    THEN /\ edges' = DeleteFirst(edges, e)
         /\ edgesById' = [edgesById EXCEPT ![<<f, t, edgeTyp[e]>>] = Nil]
         /\ edgesFrom' = IF purgeFrom
                         THEN [outs EXCEPT ![f] = DeleteFunc(@, e)] ELSE outs
         /\ edgesTo' = IF purgeTo
                       THEN [ins EXCEPT ![t] = DeleteFunc(@, e)] ELSE ins
    ELSE /\ edgesFrom' = outs /\ edgesTo' = ins
         /\ UNCHANGED <<edges, edgesById>>

DeleteEdge(e) ==
    /\ pc = "idle"
    /\ deleteEdge(e, from[e], to[e], edgesFrom, edgesTo, TRUE, TRUE)
    /\ ret' = IF e \in ToSet(edges) THEN "edge_deleted" ELSE "absent"
    /\ UNCHANGED <<nodes, nodesById, id, typ, edgeVars, loopVars>>

-----------------------------------------------------------------------------
(* DeleteNode(n): up to the first loop, one step per iteration of each      *)
(* loop, and the step between the loops and after them.                     *)

DeleteNodeAbsent(n) ==
    /\ pc = "idle" /\ ~InGraph(n)
    /\ ret' = "absent"
    /\ UNCHANGED <<graphVars, nodeVars, edgeVars, loopVars>>

(* Mutant: DeleteNode drops the result of slices.Delete, which has shifted  *)
(* the elements and set the last one to nil.                                *)
DeleteNodeDropsResult(n) ==
    /\ pc = "idle" /\ InGraph(n)
    /\ nodes' = Append(DeleteFirst(nodes, n), Nil)
    /\ nodesById' = [nodesById EXCEPT ![id[n]] = Nil]
    /\ pc' = "purgeFrom" /\ cur' = n /\ i' = 1
    /\ UNCHANGED <<edges, edgesById, nodeVars, edgeVars, ret>>

(* Mutant: DeleteNode forgets nodesById.                                    *)
DeleteNodeKeepsIndex(n) ==
    /\ pc = "idle" /\ InGraph(n)
    /\ nodes' = DeleteFirst(nodes, n)
    /\ pc' = "purgeFrom" /\ cur' = n /\ i' = 1
    /\ UNCHANGED <<nodesById, edges, edgesById, nodeVars, edgeVars, ret>>

DeleteNodeStart(n) ==
    /\ pc = "idle" /\ InGraph(n)
    /\ nodes' = DeleteFirst(nodes, n)
    /\ nodesById' = [nodesById EXCEPT ![id[n]] = Nil]
    /\ pc' = "purgeFrom" /\ cur' = n /\ i' = 1
    /\ UNCHANGED <<edges, edgesById, nodeVars, edgeVars, ret>>

PurgeFromStep ==
    /\ pc = "purgeFrom" /\ i <= Len(edgesFrom[cur])
    /\ LET e == edgesFrom[cur][i] IN
          /\ from' = [from EXCEPT ![e] = Nil]
          /\ deleteEdge(e, Nil, to[e], [edgesFrom EXCEPT ![cur][i] = Nil],
                        edgesTo, FALSE, TRUE)
    /\ i' = i + 1
    /\ UNCHANGED <<nodes, nodesById, id, typ, to, edgeTyp, pc, cur, ret>>

(* Mutant: the first loop of DeleteNode may stop before its last element.   *)
PurgeFromDoneEarly ==
    /\ pc = "purgeFrom" /\ i >= Len(edgesFrom[cur])
    /\ pc' = "purgeTo" /\ i' = 1
    /\ UNCHANGED <<graphVars, nodeVars, edgeVars, cur, ret>>

PurgeFromDone ==
    /\ pc = "purgeFrom" /\ i > Len(edgesFrom[cur])
    /\ pc' = "purgeTo" /\ i' = 1
    /\ UNCHANGED <<graphVars, nodeVars, edgeVars, cur, ret>>

PurgeToStep ==
    /\ pc = "purgeTo" /\ i <= Len(edgesTo[cur])
    /\ LET e == edgesTo[cur][i] IN
          /\ to' = [to EXCEPT ![e] = Nil]
          /\ deleteEdge(e, from[e], Nil, edgesFrom,
                        [edgesTo EXCEPT ![cur][i] = Nil], TRUE, FALSE)
    /\ i' = i + 1
    /\ UNCHANGED <<nodes, nodesById, id, typ, from, edgeTyp, pc, cur, ret>>

DeleteNodeEnd ==
    /\ pc = "purgeTo" /\ i > Len(edgesTo[cur])
    /\ edgesFrom' = [edgesFrom EXCEPT ![cur] = << >>]
    /\ edgesTo' = [edgesTo EXCEPT ![cur] = << >>]
    /\ pc' = "idle" /\ cur' = Nil /\ i' = 1
    /\ ret' = "node_deleted"
    /\ UNCHANGED <<graphVars, id, typ, edgeVars>>

-----------------------------------------------------------------------------
(* SortTopo(): the outcome of lexicalTopoSort(g.nodes), whose recursive     *)
(* walk is module TopoSort.                                                 *)

Apexes == {n \in ToSet(nodes) : edgesTo[n] = << >>}
succ   == [n \in NodePtr |-> {to[e] : e \in ToSet(edgesFrom[n])}]

SortTopo ==
    /\ pc = "idle"
    /\ IF nodes # << >> /\ (Apexes = {} \/ WalkRepeats(NodePtr, Apexes, succ))
       THEN ret' = "ErrCyclic" /\ UNCHANGED nodes
       ELSE ret' = "sorted" /\ nodes' = StableSort(nodes, Rank(NodePtr, Apexes, succ))
    /\ UNCHANGED <<edges, nodesById, edgesById, nodeVars, edgeVars, loopVars>>

-----------------------------------------------------------------------------
Next ==
    \/ \E x \in Id, t \in Type : AddNode(x, t)
    \/ \E f, t \in Handle, ty \in Type : AddEdge(f, t, ty)
    \/ \E e \in EdgePtr : EdgeExists(e) /\ DeleteEdge(e)
    \/ \E n \in Handle : DeleteNodeAbsent(n) \/ DeleteNodeStart(n)
    \/ PurgeFromStep \/ PurgeFromDone \/ PurgeToStep \/ DeleteNodeEnd
    \/ SortTopo

Spec == Init /\ [][Next]_vars

-----------------------------------------------------------------------------
(* Properties.  Those that do not mention "idle" hold also between two        *)
(* iterations of the loops of DeleteNode.                                    *)

(* Every variable holds values of the Go type it stands for.                *)
TypeOK ==
    /\ nodes \in Seq(NodePtr) /\ edges \in Seq(EdgePtr)
    /\ nodesById \in [Id -> Ptr]
    /\ edgesById \in [EdgeIdentity -> EdgePtr \cup {Nil}]
    /\ id \in [NodePtr -> Id \cup {Nil}] /\ typ \in [NodePtr -> Type]
    /\ edgesFrom \in [NodePtr -> Seq(EdgePtr \cup {Nil})]
    /\ edgesTo \in [NodePtr -> Seq(EdgePtr \cup {Nil})]
    /\ from \in [EdgePtr -> Ptr] /\ to \in [EdgePtr -> Ptr]
    /\ edgeTyp \in [EdgePtr -> Type \cup {Nil}]
    /\ pc \in {"idle", "purgeFrom", "purgeTo"} /\ i \in Nat \ {0}
    /\ IF pc = "idle" THEN cur = Nil ELSE cur \in NodePtr
    /\ ret \in {"none", "ErrInvalidId", "ErrTypeChange", "ErrLoop", "ErrCyclic",
                "node_new", "node_existed", "node_deleted", "absent", "sorted",
                "edge_new", "edge_existed", "edge_deleted"}

(* g.nodes and g.nodesById are two views of one set: a node is listed once,  *)
(* found under its own valid id, and nothing else is found under any id; the *)
(* node whose edges DeleteNode is purging is in neither.  DeleteNode removes *)
(* from both, AddNode adds to both, SortTopo reorders one.                   *)
NodesIndexed ==
    /\ IsInjective(nodes)
    /\ \A n \in ToSet(nodes) : id[n] \in ValidId /\ nodesById[id[n]] = n
    /\ \A x \in Id : nodesById[x] # Nil =>
                        InGraph(nodesById[x]) /\ id[nodesById[x]] = x
    /\ pc # "idle" => NodeExists(cur) /\ ~InGraph(cur)

(* An edge listed in g.edges is listed once, joins two different allocated   *)
(* nodes and is what edgesById has for its identity: so no two edges of the  *)
(* graph have the same endpoints and type.                                   *)
EdgesWired ==
    /\ IsInjective(edges)
    /\ \A e \in ToSet(edges) :
        /\ EdgeExists(e)
        /\ from[e] \in NodePtr /\ NodeExists(from[e])
        /\ to[e] \in NodePtr /\ NodeExists(to[e])
        /\ from[e] # to[e]
        /\ edgesById[<<from[e], to[e], edgeTyp[e]>>] = e

EdgesOut(n) == {e \in ToSet(edges) : from[e] = n}
EdgesIn(n)  == {e \in ToSet(edges) : to[e] = n}

(* How many slots of a list of n the loops of DeleteNode have set to nil.    *)
OutPurged(n) == IF n # cur THEN 0
                ELSE IF pc = "purgeTo" THEN Len(edgesFrom[n]) ELSE i - 1
InPurged(n)  == IF n = cur /\ pc = "purgeTo" THEN i - 1 ELSE 0

(* list has p nils and then the elements of S, each once.                    *)
Lists(list, p, S) ==
    /\ \A j \in 1..Len(list) : IF j <= p THEN list[j] = Nil ELSE list[j] \in S
    /\ \A j, k \in 1..Len(list) : list[j] = list[k] => j = k \/ list[j] = Nil
    /\ S \subseteq ToSet(list)

(* The adjacency lists of a node, in the graph or not, hold the edges of the *)
(* graph at that node, each once and no other: no edge of the graph is lost  *)
(* to a walk, and no reader of an idle graph dereferences a nil or a deleted *)
(* edge.  While DeleteNode purges a node, nils replace its edges in order.   *)
AdjacencyExact ==
    \A n \in NodePtr : /\ Lists(edgesFrom[n], OutPurged(n), EdgesOut(n))
                       /\ Lists(edgesTo[n], InPurged(n), EdgesIn(n))

(* What FindEdge may return: under every key, an edge of the key's type; and *)
(* it is the edge of the graph with the key's endpoints unless one of these  *)
(* has left the graph.  (DeleteNode leaves such keys behind: IndexExact.)    *)
IndexLive ==
    \A k \in EdgeIdentity : edgesById[k] # Nil =>
        LET e == edgesById[k] IN
        /\ edgeTyp[e] = k[3]
        /\ k[1] \in NodePtr /\ NodeExists(k[1])
        /\ k[2] \in NodePtr /\ NodeExists(k[2])
        /\ \/ e \in ToSet(edges) /\ from[e] = k[1] /\ to[e] = k[2]
           \/ ~InGraph(k[1]) \/ ~InGraph(k[2])

(* For two nodes of the graph FindEdge returns an edge exactly when g.edges  *)
(* has one with these endpoints and this type, and returns that one.         *)
LiveIndexExact ==
    \A n, m \in ToSet(nodes), t \in Type, e \in EdgePtr :
        edgesById[<<n, m, t>>] = e <=>
            e \in ToSet(edges) /\ from[e] = n /\ to[e] = m /\ edgeTyp[e] = t

(* Callers that drop a pointer to a node when they delete it never see an    *)
(* edge of the graph that leads out of the graph; inside DeleteNode the only *)
(* other endpoint is the node being deleted.                                 *)
EndpointsLive ==
    ~StaleHandles =>
        \A e \in ToSet(edges) : {from[e], to[e]} \subseteq ToSet(nodes) \cup {cur}

(* The inductive invariant that the proofs about LilGraph rest on.           *)
GraphInv == TypeOK /\ NodesIndexed /\ EdgesWired /\ AdjacencyExact /\ IndexLive

(* The elements of list that s also has come in the order of s.              *)
InOrder(list, s) ==
    \A j, k \in DOMAIN list, p, q \in DOMAIN s :
        j < k /\ list[j] = s[p] /\ list[k] = s[q] => p < q

(* The edges of each adjacency list come in the order in which g.edges has   *)
(* them: the order in which EdgesFrom, FindEdges and SortTopo meet a node's  *)
(* edges is the order in which Edges lists them.  With AdjacencyExact: each  *)
(* list of an idle graph is the part of g.edges at its node.                 *)
AdjacencyOrder ==
    \A n \in NodePtr : InOrder(edgesFrom[n], edges) /\ InOrder(edgesTo[n], edges)

(* What the delete-node test says of a caller that still holds a pointer to  *)
(* a deleted node: its edge connections are severed.  FindEdge disagrees.    *)
IndexExact ==
    pc = "idle" /\ ~StaleHandles =>
        \A k \in EdgeIdentity : edgesById[k] # Nil => InGraph(k[1]) /\ InGraph(k[2])

(* The state a caller sees who names nodes by their ids.  A deletion takes   *)
(* effect when DeleteNode has removed the node from the two collections of   *)
(* nodes: the edges its loops have still to purge are not counted.           *)
typeOf == [x \in Id |-> IF nodesById[x] = Nil THEN Nil ELSE typ[nodesById[x]]]
arcs   == {<<id[from[e]], id[to[e]], edgeTyp[e]>> :
              e \in {d \in ToSet(edges) : InGraph(from[d]) /\ InGraph(to[d])}}
result == IF pc = "idle" THEN ret ELSE "node_deleted"

Abstract == INSTANCE PropertyGraph

(* The pointer structure implements the graph of ids: the four collections   *)
(* and the adjacency lists never let one call's answer contradict another's, *)
(* deleted ids can be reused, and the edges of a deleted node do not come    *)
(* back with its id.                                                         *)
AbstractSpec == Abstract!Spec
=============================================================================
