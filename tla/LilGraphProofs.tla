--------------------------- MODULE LilGraphProofs ---------------------------
(***************************************************************************)
(* Proofs about LilGraph, for every set of pointers, ids and types, whether *)
(* or not callers use pointers to deleted nodes: GraphInv is inductive; the *)
(* properties of FindEdge and of the endpoints follow from it, and so does  *)
(* the order of the adjacency lists; and LilGraph implements PropertyGraph. *)
(***************************************************************************)
EXTENDS LilGraph, OperatorProofs

-----------------------------------------------------------------------------
(* Lists under the four operations the code applies to adjacency lists.      *)

EdgeSlot == EdgePtr \cup {Nil}

LEMMA NilIsNoPointer == Nil \notin NodePtr /\ Nil \notin EdgePtr
BY PointerAssumption

(* AddEdge appends an edge to a list that no loop is purging.                *)
LEMMA ListsAppend ==
    ASSUME NEW list \in Seq(EdgeSlot), NEW S \in SUBSET EdgePtr,
           Lists(list, 0, S), NEW e \in EdgePtr, e \notin S
    PROVE  Lists(Append(list, e), 0, S \cup {e})
<1> DEFINE out == Append(list, e)
<1>1. /\ out \in Seq(EdgeSlot) /\ Len(out) = Len(list) + 1
      /\ \A j \in 1..Len(list) : out[j] = list[j]
      /\ out[Len(list) + 1] = e
      /\ ToSet(out) = ToSet(list) \cup {e}
  <2>1. e \in EdgeSlot
    BY DEF EdgeSlot
  <2> QED  BY <2>1, AppendFacts
<1>2. Len(list) \in Nat
  OBVIOUS
<1> HIDE DEF out
<1>3. \A j \in 1..Len(out) : j \in 1..Len(list) \/ j = Len(list) + 1
  BY <1>1, <1>2
<1>4. /\ \A j \in 1..Len(list) : list[j] \in S
      /\ \A j, k \in 1..Len(list) : list[j] = list[k] => j = k \/ list[j] = Nil
      /\ S \subseteq ToSet(list)
  BY DEF Lists
<1>5. \A j \in 1..Len(out) : out[j] \in S \cup {e}
  BY <1>1, <1>3, <1>4
<1>6. ASSUME NEW j \in 1..Len(out), NEW k \in 1..Len(out), out[j] = out[k]
      PROVE  j = k \/ out[j] = Nil
  BY <1>1, <1>3, <1>4, <1>6
<1>7. Lists(out, 0, S \cup {e})
  BY <1>1, <1>4, <1>5, <1>6 DEF Lists
<1> QED  BY <1>7 DEF out

(* deleteEdge deletes an edge from a list that no loop is purging.           *)
LEMMA ListsDelete ==
    ASSUME NEW list \in Seq(EdgeSlot), NEW S \in SUBSET EdgePtr,
           Lists(list, 0, S), NEW e \in EdgePtr
    PROVE  Lists(DeleteFunc(list, e), 0, S \ {e})
<1> DEFINE out == DeleteFunc(list, e)
<1>1. /\ \A j \in 1..Len(list) : list[j] \in S
      /\ \A j, k \in 1..Len(list) : list[j] = list[k] => j = k \/ list[j] = Nil
      /\ S \subseteq ToSet(list)
  BY DEF Lists
<1>2. /\ out \in Seq(EdgeSlot)
      /\ ToSet(out) = ToSet(list) \ {e}
      /\ \A j, k \in 1..Len(out) : out[j] = out[k] => j = k \/ out[j] = Nil
  <2>1. RepeatsOnly(list, Nil)
    BY <1>1 DEF RepeatsOnly
  <2>2. /\ DeleteFunc(list, e) \in Seq(EdgeSlot)
        /\ ToSet(DeleteFunc(list, e)) = ToSet(list) \ {e}
        /\ RepeatsOnly(DeleteFunc(list, e), Nil)
    BY <2>1, DeleteFuncProperties
  <2> QED  BY <2>2 DEF RepeatsOnly
<1> HIDE DEF out
<1>3. ToSet(list) \subseteq S
  <2> SUFFICES ASSUME NEW x \in ToSet(list) PROVE x \in S
    OBVIOUS
  <2>1. PICK j \in 1..Len(list) : list[j] = x
    BY ToSetOfSeq
  <2> QED  BY <1>1, <2>1
<1>4. \A j \in 1..Len(out) : out[j] \in S \ {e}
  <2>1. \A j \in 1..Len(out) : out[j] \in ToSet(out)
    BY <1>2, ToSetOfSeq
  <2> QED  BY <1>2, <1>3, <2>1
<1>5. \A j \in 1..Len(out) : ~(j <= 0)
  BY <1>2
<1>6. Lists(out, 0, S \ {e})
  BY <1>1, <1>2, <1>4, <1>5 DEF Lists
<1> QED  BY <1>6 DEF out

(* A loop of DeleteNode replaces the next edge of a list by nil.             *)
LEMMA ListsPurge ==
    ASSUME NEW list \in Seq(EdgeSlot), NEW S \in SUBSET EdgePtr,
           NEW k \in 1..Len(list), Lists(list, k - 1, S)
    PROVE  /\ list[k] \in S
           /\ Lists([list EXCEPT ![k] = Nil], k, S \ {list[k]})
<1> DEFINE out == [list EXCEPT ![k] = Nil]
<1>1. /\ out \in Seq(EdgeSlot) /\ Len(out) = Len(list) /\ Len(list) \in Nat
      /\ out[k] = Nil
      /\ \A j \in 1..Len(list) : j # k => out[j] = list[j]
  BY DEF EdgeSlot
<1> HIDE DEF out
<1>2. /\ \A j \in 1..Len(list) : IF j <= k - 1 THEN list[j] = Nil ELSE list[j] \in S
      /\ \A j, m \in 1..Len(list) : list[j] = list[m] => j = m \/ list[j] = Nil
      /\ S \subseteq ToSet(list)
  BY DEF Lists
<1>3. list[k] \in S /\ list[k] # Nil
  BY <1>2, NilIsNoPointer
<1>4. \A j \in 1..Len(out) : IF j <= k THEN out[j] = Nil ELSE out[j] \in S \ {list[k]}
  <2> SUFFICES ASSUME NEW j \in 1..Len(list)
               PROVE  IF j <= k THEN out[j] = Nil ELSE out[j] \in S \ {list[k]}
    BY <1>1
  <2>1. CASE j < k
    BY <1>1, <1>2, <2>1
  <2>2. CASE j = k
    BY <1>1, <2>2
  <2>3. CASE j > k
    <3>1. list[j] \in S /\ out[j] = list[j]
      BY <1>1, <1>2, <2>3
    <3>2. list[j] # list[k]
      BY <1>2, <1>3, <2>3
    <3> QED  BY <2>3, <3>1, <3>2
  <2> QED  BY <2>1, <2>2, <2>3
<1>5. \A j, m \in 1..Len(out) : out[j] = out[m] => j = m \/ out[j] = Nil
  BY <1>1, <1>2
<1>6. S \ {list[k]} \subseteq ToSet(out)
  <2> SUFFICES ASSUME NEW x \in S, x # list[k] PROVE x \in ToSet(out)
    OBVIOUS
  <2>1. PICK j \in 1..Len(list) : list[j] = x
    BY <1>2, ToSetOfSeq
  <2>2. j \in 1..Len(out) /\ out[j] = x
    BY <1>1, <2>1
  <2> QED  BY <1>1, <2>2, ToSetOfSeq
<1>7. Lists(out, k, S \ {list[k]})
  BY <1>4, <1>5, <1>6 DEF Lists
<1> QED  BY <1>3, <1>7 DEF out

(* After the last iteration of a loop the list holds no edge.                *)
LEMMA ListsPurged ==
    ASSUME NEW list \in Seq(EdgeSlot), NEW S \in SUBSET EdgePtr,
           NEW p, \A j \in 1..Len(list) : j <= p, Lists(list, p, S)
    PROVE  S = {} /\ Lists(list, Len(list), S)
<1>1. \A j \in 1..Len(list) : list[j] = Nil
  BY DEF Lists
<1>2. ASSUME NEW x \in S PROVE FALSE
  <2>1. PICK j \in 1..Len(list) : list[j] = x
    BY ToSetOfSeq DEF Lists
  <2> QED  BY <1>1, <2>1, NilIsNoPointer
<1>3. \A j \in 1..Len(list) : j <= Len(list)
  OBVIOUS
<1> QED  BY <1>1, <1>2, <1>3 DEF Lists

-----------------------------------------------------------------------------
(* GraphInv holds initially.                                                 *)
LEMMA InitGraphInv == Init => GraphInv
<1> SUFFICES ASSUME Init PROVE GraphInv
  OBVIOUS
<1>1. /\ nodes \in Seq(NodePtr) /\ edges \in Seq(EdgePtr)
      /\ Len(nodes) = 0 /\ Len(edges) = 0
      /\ ToSet(nodes) = {} /\ ToSet(edges) = {}
      /\ IsInjective(nodes) /\ IsInjective(edges)
  <2>1. nodes = << >> /\ edges = << >>
    BY DEF Init
  <2> QED  BY <2>1 DEF ToSet, IsInjective
<1>2. TypeOK
  BY <1>1, DataAssumption DEF Init, TypeOK, Ptr, EdgeIdentity
<1>3. NodesIndexed
  BY <1>1 DEF Init, NodesIndexed
<1>4. EdgesWired
  BY <1>1 DEF EdgesWired
<1>5. AdjacencyExact
  BY <1>1 DEF Init, AdjacencyExact, Lists, EdgesOut, EdgesIn
<1>6. IndexLive
  BY DEF Init, IndexLive
<1> QED  BY <1>2, <1>3, <1>4, <1>5, <1>6 DEF GraphInv

-----------------------------------------------------------------------------
(* Steps that leave the edges alone.                                         *)

(* A call that changes nothing but its answer.                               *)
Answer == {"none", "ErrInvalidId", "ErrTypeChange", "ErrLoop", "ErrCyclic",
           "node_new", "node_existed", "node_deleted", "absent", "sorted",
           "edge_new", "edge_existed", "edge_deleted"}

LEMMA QuietStep ==
    ASSUME GraphInv, UNCHANGED <<graphVars, nodeVars, edgeVars, loopVars>>,
           ret' \in Answer
    PROVE  GraphInv'
<1> USE DEF graphVars, nodeVars, edgeVars, loopVars
<1>1. TypeOK'
  BY DEF GraphInv, TypeOK, Answer
<1>2. NodesIndexed' /\ EdgesWired'
  BY DEF GraphInv, NodesIndexed, EdgesWired, InGraph, NodeExists, EdgeExists
<1>3. AdjacencyExact'
  BY DEF GraphInv, AdjacencyExact, EdgesOut, EdgesIn, OutPurged, InPurged
<1>4. IndexLive'
  BY DEF GraphInv, IndexLive, InGraph, NodeExists
<1> QED  BY <1>1, <1>2, <1>3, <1>4 DEF GraphInv

(* The adjacency lists of a step that touches none of what they depend on.   *)
LEMMA SameAdjacency ==
    ASSUME AdjacencyExact, UNCHANGED <<edges, from, to, edgesFrom, edgesTo, loopVars>>
    PROVE  AdjacencyExact'
BY DEF AdjacencyExact, EdgesOut, EdgesIn, OutPurged, InPurged, loopVars

(* A new node is filed in both collections of nodes.                         *)
LEMMA NewNodeIndexed ==
    ASSUME nodes \in Seq(NodePtr), nodesById \in [Id -> Ptr],
           id \in [NodePtr -> Id \cup {Nil}], pc # "idle" => cur \in NodePtr,
           NodesIndexed,
           NEW x \in ValidId, NEW n \in NodePtr, ~NodeExists(n), nodesById[x] = Nil,
           id' = [id EXCEPT ![n] = x], nodes' = Append(nodes, n),
           nodesById' = [nodesById EXCEPT ![x] = n], UNCHANGED <<pc, cur>>
    PROVE  NodesIndexed'
<1>1. x # Nil /\ n # Nil /\ x \in Id
  BY PointerAssumption, DataAssumption
<1>2. n \notin ToSet(nodes)
  BY DataAssumption DEF NodesIndexed, NodeExists
<1>3. IsInjective(nodes') /\ ToSet(nodes') = ToSet(nodes) \cup {n}
  BY <1>2, AppendFacts DEF NodesIndexed
<1>4. \A m \in ToSet(nodes) : m \in NodePtr
  BY ToSetOfSeq
<1>5. /\ \A m \in ToSet(nodes) : id[m] \in ValidId /\ nodesById[id[m]] = m
      /\ \A y \in Id : nodesById[y] # Nil =>
            nodesById[y] \in ToSet(nodes) /\ id[nodesById[y]] = y
      /\ ValidId \subseteq Id
  BY DataAssumption DEF NodesIndexed, InGraph
<1>6. \A m \in ToSet(nodes') : id'[m] \in ValidId /\ nodesById'[id'[m]] = m
  BY <1>1, <1>2, <1>3, <1>4, <1>5, NilIsNoPointer
<1>7. \A y \in Id : nodesById'[y] # Nil =>
         nodesById'[y] \in ToSet(nodes') /\ id'[nodesById'[y]] = y
  BY <1>1, <1>2, <1>3, <1>4, <1>5
<1>8. pc' # "idle" => NodeExists(cur)' /\ ~InGraph(cur)'
  BY <1>1, <1>3 DEF NodesIndexed, InGraph, NodeExists
<1> QED  BY <1>3, <1>6, <1>7, <1>8 DEF NodesIndexed, InGraph

LEMMA AddNodeStep ==
    ASSUME GraphInv, NEW x \in Id, NEW t \in Type, AddNode(x, t)
    PROVE  GraphInv'
<1>1. CASE AddNodeInvalid(x, t) \/ AddNodeTypeChange(x, t)
  BY <1>1, QuietStep DEF AddNodeInvalid, AddNodeTypeChange, Answer
<1>2. CASE AddNodeExisting(x, t)
  <2> USE <1>2 DEF AddNodeExisting, graphVars, edgeVars, loopVars
  <2>1. TypeOK'
    BY DEF GraphInv, TypeOK
  <2>2. NodesIndexed' /\ EdgesWired'
    BY DEF GraphInv, NodesIndexed, EdgesWired, InGraph, NodeExists, EdgeExists
  <2>3. AdjacencyExact'
    BY SameAdjacency DEF GraphInv
  <2>4. IndexLive'
    BY DEF GraphInv, IndexLive, InGraph, NodeExists
  <2> QED  BY <2>1, <2>2, <2>3, <2>4 DEF GraphInv
<1>3. CASE AddNodeNew(x, t)
  <2>1. PICK n \in NodePtr :
            /\ ~NodeExists(n)
            /\ id' = [id EXCEPT ![n] = x]
            /\ typ' = [typ EXCEPT ![n] = t]
            /\ nodes' = Append(nodes, n)
            /\ nodesById' = [nodesById EXCEPT ![x] = n]
    BY <1>3 DEF AddNodeNew
  <2>2. /\ x \in ValidId /\ nodesById[x] = Nil /\ ret' = "node_new"
        /\ UNCHANGED <<edges, edgesById, edgesFrom, edgesTo, edgeVars, loopVars>>
    BY <1>3 DEF AddNodeNew
  <2>3. x # Nil /\ n # Nil
    BY PointerAssumption, DataAssumption
  <2>4. n \notin ToSet(nodes)
    BY <2>1, DataAssumption DEF GraphInv, NodesIndexed, NodeExists
  <2>5. /\ nodes' \in Seq(NodePtr) /\ IsInjective(nodes')
        /\ ToSet(nodes') = ToSet(nodes) \cup {n}
    BY <2>1, <2>4, AppendFacts DEF GraphInv, TypeOK, NodesIndexed
  <2>6. TypeOK'
    BY <2>1, <2>2, <2>5 DEF GraphInv, TypeOK, edgeVars, loopVars, Ptr
  <2>7. NodesIndexed'
    BY <2>1, <2>2, NewNodeIndexed DEF GraphInv, TypeOK, loopVars
  <2>8. EdgesWired'
    BY <2>1, <2>2, <2>3 DEF GraphInv, TypeOK, EdgesWired, NodeExists, EdgeExists, edgeVars
  <2>9. AdjacencyExact'
    BY <2>2, SameAdjacency DEF GraphInv, edgeVars
  <2>10. IndexLive'
    BY <2>1, <2>2, <2>3, <2>5 DEF GraphInv, TypeOK, IndexLive, InGraph, NodeExists, edgeVars
  <2> QED  BY <2>6, <2>7, <2>8, <2>9, <2>10 DEF GraphInv
<1> QED  BY <1>1, <1>2, <1>3 DEF AddNode

-----------------------------------------------------------------------------
(* AddEdge.                                                                  *)

(* What GraphInv says of a graph no loop is purging, in the form the steps   *)
(* that start from one use it.                                               *)
LEMMA IdleLists ==
    ASSUME GraphInv, pc = "idle"
    PROVE  \A n \in NodePtr :
              /\ edgesFrom[n] \in Seq(EdgeSlot) /\ edgesTo[n] \in Seq(EdgeSlot)
              /\ EdgesOut(n) \in SUBSET EdgePtr /\ EdgesIn(n) \in SUBSET EdgePtr
              /\ Lists(edgesFrom[n], 0, EdgesOut(n))
              /\ Lists(edgesTo[n], 0, EdgesIn(n))
<1>1. \A n \in NodePtr : OutPurged(n) = 0 /\ InPurged(n) = 0
  BY PointerAssumption DEF GraphInv, TypeOK, OutPurged, InPurged
<1>2. ToSet(edges) \subseteq EdgePtr
  BY ToSetOfSeq DEF GraphInv, TypeOK
<1> QED
  BY <1>1, <1>2 DEF GraphInv, TypeOK, AdjacencyExact, EdgesOut, EdgesIn, EdgeSlot

LEMMA AddEdgeStep ==
    ASSUME GraphInv, NEW f \in Handle, NEW t \in Handle, NEW ty \in Type,
           AddEdge(f, t, ty)
    PROVE  GraphInv'
<1>1. CASE AddEdgeLoop(f, t, ty) \/ AddEdgeExisting(f, t, ty)
  BY <1>1, QuietStep DEF AddEdgeLoop, AddEdgeExisting, Answer
<1>2. CASE AddEdgeNew(f, t, ty)
  <2>1. PICK e \in EdgePtr :
            /\ ~EdgeExists(e)
            /\ from' = [from EXCEPT ![e] = f]
            /\ to' = [to EXCEPT ![e] = t]
            /\ edgeTyp' = [edgeTyp EXCEPT ![e] = ty]
            /\ edges' = Append(edges, e)
            /\ edgesById' = [edgesById EXCEPT ![<<f, t, ty>>] = e]
            /\ edgesFrom' = [edgesFrom EXCEPT ![f] = Append(edgesFrom[f], e)]
            /\ edgesTo' = [edgesTo EXCEPT ![t] = Append(edgesTo[t], e)]
    BY <1>2 DEF AddEdgeNew
  <2>2. /\ f # t /\ edgesById[<<f, t, ty>>] = Nil /\ ret' = "edge_new"
        /\ UNCHANGED <<nodes, nodesById, id, typ, pc, cur, i>>
        /\ pc = "idle"
    BY <1>2 DEF AddEdgeNew, AddEdge, loopVars
  <2>3. /\ f \in NodePtr /\ NodeExists(f) /\ t \in NodePtr /\ NodeExists(t)
        /\ ty # Nil /\ e # Nil
    BY DataAssumption, NilIsNoPointer DEF Handle
  <2>4. e \notin ToSet(edges) /\ ToSet(edges) \subseteq EdgePtr
    BY <2>1, ToSetOfSeq DEF GraphInv, TypeOK, EdgesWired
  <2>5. /\ edges' \in Seq(EdgePtr) /\ IsInjective(edges')
        /\ ToSet(edges') = ToSet(edges) \cup {e}
    BY <2>1, <2>4, AppendFacts DEF GraphInv, TypeOK, EdgesWired
  <2>6. /\ Append(edgesFrom[f], e) \in Seq(EdgeSlot)
        /\ Append(edgesTo[t], e) \in Seq(EdgeSlot)
    BY <2>2, <2>3, IdleLists DEF EdgeSlot
  <2>7. TypeOK'
    BY <2>1, <2>2, <2>3, <2>5, <2>6
    DEF GraphInv, TypeOK, EdgeIdentity, Ptr, EdgeSlot
  <2>8. EdgesWired'
    <3>1. \A d \in ToSet(edges) : d # e /\ d # Nil /\ d \in EdgePtr
      BY <2>4, NilIsNoPointer
    <3>2. ASSUME NEW d \in ToSet(edges)
          PROVE  /\ <<from[d], to[d], edgeTyp[d]>> \in EdgeIdentity
                 /\ <<from[d], to[d], edgeTyp[d]>> # <<f, t, ty>>
                 /\ edgesById[<<from[d], to[d], edgeTyp[d]>>] = d
      BY <2>2, <3>1 DEF GraphInv, TypeOK, EdgesWired, EdgeIdentity, Ptr, EdgeExists
    <3>3. <<f, t, ty>> \in EdgeIdentity
      BY <2>3 DEF EdgeIdentity, Ptr
    <3>4. edgesById \in [EdgeIdentity -> EdgePtr \cup {Nil}]
      BY DEF GraphInv, TypeOK
    <3>5. ASSUME NEW d \in ToSet(edges)
          PROVE  /\ from'[d] = from[d] /\ to'[d] = to[d] /\ edgeTyp'[d] = edgeTyp[d]
                 /\ edgesById'[<<from[d], to[d], edgeTyp[d]>>] = d
      BY <2>1, <3>1, <3>2, <3>3, <3>4 DEF GraphInv, TypeOK
    <3>6. /\ from'[e] = f /\ to'[e] = t /\ edgeTyp'[e] = ty
          /\ edgesById'[<<f, t, ty>>] = e
      BY <2>1, <3>3, <3>4 DEF GraphInv, TypeOK
    <3>7. ASSUME NEW d \in ToSet(edges')
          PROVE  /\ EdgeExists(d)'
                 /\ from'[d] \in NodePtr /\ NodeExists(from[d])'
                 /\ to'[d] \in NodePtr /\ NodeExists(to[d])'
                 /\ from'[d] # to'[d]
                 /\ edgesById'[<<from'[d], to'[d], edgeTyp'[d]>>] = d
      <4>1. CASE d = e
        BY <4>1, <2>2, <2>3, <3>6 DEF EdgeExists, NodeExists
      <4>2. CASE d \in ToSet(edges)
        <5>1. /\ edgeTyp[d] # Nil /\ from[d] # to[d]
              /\ from[d] \in NodePtr /\ id[from[d]] # Nil
              /\ to[d] \in NodePtr /\ id[to[d]] # Nil
          BY <4>2 DEF GraphInv, EdgesWired, EdgeExists, NodeExists
        <5>2. /\ from'[d] = from[d] /\ to'[d] = to[d] /\ edgeTyp'[d] = edgeTyp[d]
              /\ edgesById'[<<from[d], to[d], edgeTyp[d]>>] = d /\ id' = id
          BY <4>2, <2>2, <3>5
        <5> QED  BY <5>1, <5>2 DEF EdgeExists, NodeExists
      <4> QED  BY <4>1, <4>2, <2>5
    <3> QED  BY <2>5, <3>7 DEF EdgesWired
  <2>9. AdjacencyExact'
    <3>1. ASSUME NEW n \in NodePtr
          PROVE  /\ EdgesOut(n)' = IF n = f THEN EdgesOut(n) \cup {e} ELSE EdgesOut(n)
                 /\ EdgesIn(n)' = IF n = t THEN EdgesIn(n) \cup {e} ELSE EdgesIn(n)
                 /\ OutPurged(n)' = 0 /\ InPurged(n)' = 0
                 /\ e \notin EdgesOut(n) /\ e \notin EdgesIn(n)
      BY <2>1, <2>2, <2>4, <2>5, PointerAssumption
      DEF GraphInv, TypeOK, EdgesOut, EdgesIn, OutPurged, InPurged
    <3>2. ASSUME NEW n \in NodePtr
          PROVE  Lists(edgesFrom'[n], 0, EdgesOut(n)')
      <4>1. CASE n = f
        <5>1. Lists(Append(edgesFrom[f], e), 0, EdgesOut(f) \cup {e})
          BY <2>2, <2>3, <3>1, IdleLists, ListsAppend
        <5> QED  BY <4>1, <5>1, <2>1, <3>1 DEF GraphInv, TypeOK
      <4>2. CASE n # f
        BY <4>2, <2>1, <2>2, <3>1, IdleLists DEF GraphInv, TypeOK
      <4> QED  BY <4>1, <4>2
    <3>3. ASSUME NEW n \in NodePtr
          PROVE  Lists(edgesTo'[n], 0, EdgesIn(n)')
      <4>1. CASE n = t
        <5>1. Lists(Append(edgesTo[t], e), 0, EdgesIn(t) \cup {e})
          BY <2>2, <2>3, <3>1, IdleLists, ListsAppend
        <5> QED  BY <4>1, <5>1, <2>1, <3>1 DEF GraphInv, TypeOK
      <4>2. CASE n # t
        BY <4>2, <2>1, <2>2, <3>1, IdleLists DEF GraphInv, TypeOK
      <4> QED  BY <4>1, <4>2
    <3> QED  BY <3>1, <3>2, <3>3 DEF AdjacencyExact
  <2>10. IndexLive'
    <3> SUFFICES ASSUME NEW k \in EdgeIdentity, edgesById'[k] # Nil
                 PROVE  LET d == edgesById'[k] IN
                        /\ edgeTyp'[d] = k[3]
                        /\ k[1] \in NodePtr /\ NodeExists(k[1])'
                        /\ k[2] \in NodePtr /\ NodeExists(k[2])'
                        /\ \/ d \in ToSet(edges') /\ from'[d] = k[1] /\ to'[d] = k[2]
                           \/ ~InGraph(k[1])' \/ ~InGraph(k[2])'
      BY DEF IndexLive
    <3>1. CASE k = <<f, t, ty>>
      BY <3>1, <2>1, <2>2, <2>3, <2>5 DEF GraphInv, TypeOK, NodeExists
    <3>2. CASE k # <<f, t, ty>>
      <4>1. edgesById'[k] = edgesById[k] /\ edgesById[k] \in EdgePtr
        BY <3>2, <2>1 DEF GraphInv, TypeOK
      <4>2. edgesById[k] # e
        BY <2>1, <4>1, DataAssumption DEF GraphInv, IndexLive, EdgeExists, EdgeIdentity
      <4> QED
        BY <4>1, <4>2, <2>1, <2>2, <2>5
        DEF GraphInv, TypeOK, IndexLive, NodeExists, InGraph
    <3> QED  BY <3>1, <3>2
  <2>11. NodesIndexed'
    BY <2>2 DEF GraphInv, NodesIndexed, InGraph, NodeExists
  <2> QED  BY <2>7, <2>8, <2>9, <2>10, <2>11 DEF GraphInv
<1> QED  BY <1>1, <1>2 DEF AddEdge

-----------------------------------------------------------------------------
(* Steps that take an edge e out of g.edges, whoever calls deleteEdge: the    *)
(* endpoints of the other edges and their keys stay.                         *)
LEMMA DropEdge ==
    ASSUME GraphInv, NEW e \in ToSet(edges), edges' = DeleteFirst(edges, e),
           UNCHANGED <<edgeTyp, id>>,
           \A d \in EdgePtr : d # e => from'[d] = from[d] /\ to'[d] = to[d],
           \A d \in ToSet(edges) : d # e =>
               edgesById'[<<from[d], to[d], edgeTyp[d]>>] = d
    PROVE  /\ edges' \in Seq(EdgePtr) /\ ToSet(edges') = ToSet(edges) \ {e}
           /\ EdgesWired'
           /\ \A n : /\ EdgesOut(n)' = EdgesOut(n) \ {e}
                    /\ EdgesIn(n)' = EdgesIn(n) \ {e}
<1>1. /\ edges' \in Seq(EdgePtr) /\ IsInjective(edges')
      /\ ToSet(edges') = ToSet(edges) \ {e}
  BY DeleteFirstProperties DEF GraphInv, TypeOK, EdgesWired
<1>2. ToSet(edges) \subseteq EdgePtr
  BY ToSetOfSeq DEF GraphInv, TypeOK
<1>3. \A n : /\ EdgesOut(n)' = EdgesOut(n) \ {e}
            /\ EdgesIn(n)' = EdgesIn(n) \ {e}
  BY <1>1, <1>2 DEF EdgesOut, EdgesIn
<1>4. ASSUME NEW d \in ToSet(edges')
      PROVE  /\ EdgeExists(d)'
             /\ from'[d] \in NodePtr /\ NodeExists(from[d])'
             /\ to'[d] \in NodePtr /\ NodeExists(to[d])'
             /\ from'[d] # to'[d]
             /\ edgesById'[<<from'[d], to'[d], edgeTyp'[d]>>] = d
  <2>1. d \in ToSet(edges) /\ d # e /\ d \in EdgePtr
    BY <1>1, <1>2
  <2>2. /\ edgeTyp[d] # Nil /\ from[d] # to[d]
        /\ from[d] \in NodePtr /\ id[from[d]] # Nil
        /\ to[d] \in NodePtr /\ id[to[d]] # Nil
    BY <2>1 DEF GraphInv, EdgesWired, EdgeExists, NodeExists
  <2>3. /\ from'[d] = from[d] /\ to'[d] = to[d] /\ edgeTyp'[d] = edgeTyp[d]
        /\ edgesById'[<<from[d], to[d], edgeTyp[d]>>] = d /\ id' = id
    BY <2>1
  <2> QED  BY <2>2, <2>3 DEF EdgeExists, NodeExists
<1>5. EdgesWired'
  BY <1>1, <1>4 DEF EdgesWired
<1> QED  BY <1>1, <1>3, <1>5

(* The keys of two different edges of the graph differ.                      *)
LEMMA KeysDiffer ==
    ASSUME GraphInv
    PROVE  \A d \in ToSet(edges) :
              /\ d \in EdgePtr /\ d # Nil
              /\ from[d] \in NodePtr /\ to[d] \in NodePtr /\ from[d] # to[d]
              /\ <<from[d], to[d], edgeTyp[d]>> \in EdgeIdentity
              /\ edgesById[<<from[d], to[d], edgeTyp[d]>>] = d
              /\ edgeTyp[d] \in Type
<1>1. ToSet(edges) \subseteq EdgePtr
  BY ToSetOfSeq DEF GraphInv, TypeOK
<1>2. ASSUME NEW d \in ToSet(edges)
      PROVE  /\ d \in EdgePtr /\ d # Nil
             /\ from[d] \in NodePtr /\ to[d] \in NodePtr /\ from[d] # to[d]
             /\ edgesById[<<from[d], to[d], edgeTyp[d]>>] = d
             /\ edgeTyp[d] \in Type
  BY <1>1, NilIsNoPointer DEF GraphInv, TypeOK, EdgesWired, EdgeExists
<1> QED  BY <1>2 DEF EdgeIdentity, Ptr

(* DeleteEdge.                                                               *)
LEMMA DeleteEdgeStep ==
    ASSUME GraphInv, NEW e \in EdgePtr, EdgeExists(e), DeleteEdge(e)
    PROVE  GraphInv'
<1>1. CASE e \notin ToSet(edges)
  <2>1. /\ UNCHANGED <<graphVars, nodeVars, edgeVars, loopVars>> /\ ret' = "absent"
    BY <1>1 DEF DeleteEdge, deleteEdge, graphVars, nodeVars
  <2> QED  BY <2>1, QuietStep DEF Answer
<1>2. CASE e \in ToSet(edges)
  <2> DEFINE f == from[e]
             t == to[e]
             key == <<f, t, edgeTyp[e]>>
  <2>1. /\ edges' = DeleteFirst(edges, e)
        /\ edgesById' = [edgesById EXCEPT ![key] = Nil]
        /\ edgesFrom' = [edgesFrom EXCEPT ![f] = DeleteFunc(edgesFrom[f], e)]
        /\ edgesTo' = [edgesTo EXCEPT ![t] = DeleteFunc(edgesTo[t], e)]
        /\ pc = "idle" /\ ret' = "edge_deleted"
        /\ UNCHANGED <<nodes, nodesById, id, typ, from, to, edgeTyp, pc, cur, i>>
    BY <1>2 DEF DeleteEdge, deleteEdge, edgeVars, loopVars
  <2>2. /\ f \in NodePtr /\ t \in NodePtr /\ key \in EdgeIdentity
        /\ edgesById \in [EdgeIdentity -> EdgePtr \cup {Nil}]
    BY <1>2, KeysDiffer DEF GraphInv, TypeOK
  <2>3. \A d \in ToSet(edges) : d # e =>
            edgesById'[<<from[d], to[d], edgeTyp[d]>>] = d
    <3> SUFFICES ASSUME NEW d \in ToSet(edges), d # e
                 PROVE  edgesById'[<<from[d], to[d], edgeTyp[d]>>] = d
      OBVIOUS
    <3>1. /\ <<from[d], to[d], edgeTyp[d]>> \in EdgeIdentity
          /\ edgesById[<<from[d], to[d], edgeTyp[d]>>] = d /\ edgesById[key] = e
      BY <1>2, KeysDiffer
    <3>2. <<from[d], to[d], edgeTyp[d]>> # key
      BY <3>1
    <3> HIDE DEF key
    <3> QED  BY <2>1, <2>2, <3>1, <3>2
  <2>4. /\ edges' \in Seq(EdgePtr) /\ ToSet(edges') = ToSet(edges) \ {e}
        /\ EdgesWired'
        /\ \A n : /\ EdgesOut(n)' = EdgesOut(n) \ {e}
                 /\ EdgesIn(n)' = EdgesIn(n) \ {e}
    BY <1>2, <2>1, <2>3, DropEdge
  <2> HIDE DEF key
  <2>5. TypeOK'
    <3>1. /\ DeleteFunc(edgesFrom[f], e) \in Seq(EdgeSlot)
          /\ DeleteFunc(edgesTo[t], e) \in Seq(EdgeSlot)
      BY <2>1, <2>2, IdleLists, DeleteFuncProperties
    <3> QED  BY <2>1, <2>2, <2>4, <3>1 DEF GraphInv, TypeOK, EdgeSlot
  <2>6. AdjacencyExact'
    <3>1. ASSUME NEW n \in NodePtr PROVE OutPurged(n)' = 0 /\ InPurged(n)' = 0
      BY <2>1, PointerAssumption DEF GraphInv, TypeOK, OutPurged, InPurged
    <3>2. ASSUME NEW n \in NodePtr PROVE Lists(edgesFrom'[n], 0, EdgesOut(n)')
      <4>1. CASE n = f
        <5>1. Lists(DeleteFunc(edgesFrom[f], e), 0, EdgesOut(f) \ {e})
          BY <2>1, <2>2, IdleLists, ListsDelete
        <5> QED  BY <4>1, <5>1, <2>1, <2>4 DEF GraphInv, TypeOK
      <4>2. CASE n # f
        <5>1. EdgesOut(n)' = EdgesOut(n)
          BY <4>2, <2>4 DEF EdgesOut
        <5> QED  BY <4>2, <5>1, <2>1, IdleLists DEF GraphInv, TypeOK
      <4> QED  BY <4>1, <4>2
    <3>3. ASSUME NEW n \in NodePtr PROVE Lists(edgesTo'[n], 0, EdgesIn(n)')
      <4>1. CASE n = t
        <5>1. Lists(DeleteFunc(edgesTo[t], e), 0, EdgesIn(t) \ {e})
          BY <2>1, <2>2, IdleLists, ListsDelete
        <5> QED  BY <4>1, <5>1, <2>1, <2>4 DEF GraphInv, TypeOK
      <4>2. CASE n # t
        <5>1. EdgesIn(n)' = EdgesIn(n)
          BY <4>2, <2>4 DEF EdgesIn
        <5> QED  BY <4>2, <5>1, <2>1, IdleLists DEF GraphInv, TypeOK
      <4> QED  BY <4>1, <4>2
    <3> QED  BY <3>1, <3>2, <3>3 DEF AdjacencyExact
  <2>7. IndexLive'
    <3> SUFFICES ASSUME NEW k \in EdgeIdentity, edgesById'[k] # Nil
                 PROVE  LET d == edgesById'[k] IN
                        /\ edgeTyp'[d] = k[3]
                        /\ k[1] \in NodePtr /\ NodeExists(k[1])'
                        /\ k[2] \in NodePtr /\ NodeExists(k[2])'
                        /\ \/ d \in ToSet(edges') /\ from'[d] = k[1] /\ to'[d] = k[2]
                           \/ ~InGraph(k[1])' \/ ~InGraph(k[2])'
      BY DEF IndexLive
    <3>1. k # key /\ edgesById'[k] = edgesById[k]
      BY <2>1, <2>2
    <3>2. CASE edgesById[k] = e
      <4>1. edgeTyp[e] = k[3]
        BY <3>1, <3>2 DEF GraphInv, IndexLive
      <4>2. ~(from[e] = k[1] /\ to[e] = k[2])
        BY <4>1, <3>1 DEF key, EdgeIdentity
      <4> QED
        BY <3>1, <3>2, <4>2, <2>1 DEF GraphInv, IndexLive, NodeExists, InGraph
    <3>3. CASE edgesById[k] # e
      BY <3>1, <3>3, <2>1, <2>4 DEF GraphInv, IndexLive, NodeExists, InGraph
    <3> QED  BY <3>2, <3>3
  <2>8. NodesIndexed'
    BY <2>1 DEF GraphInv, NodesIndexed, InGraph, NodeExists
  <2> QED  BY <2>4, <2>5, <2>6, <2>7, <2>8 DEF GraphInv
<1> QED  BY <1>1, <1>2

-----------------------------------------------------------------------------
(* DeleteNode.                                                               *)
(* A node that DeleteNode takes out of the graph leaves both collections.     *)
LEMMA NodeLeaves ==
    ASSUME nodes \in Seq(NodePtr), nodesById \in [Id -> Ptr], NodesIndexed,
           NEW n \in ToSet(nodes), NodeExists(n), nodes' = DeleteFirst(nodes, n),
           nodesById' = [nodesById EXCEPT ![id[n]] = Nil], cur' = n, UNCHANGED id
    PROVE  NodesIndexed'
<1>1. IsInjective(nodes') /\ ToSet(nodes') = ToSet(nodes) \ {n}
  BY DeleteFirstProperties DEF NodesIndexed
<1>2. /\ \A m \in ToSet(nodes) : id[m] \in ValidId /\ nodesById[id[m]] = m
      /\ \A y \in Id : nodesById[y] # Nil =>
            nodesById[y] \in ToSet(nodes) /\ id[nodesById[y]] = y
      /\ ValidId \subseteq Id
  BY DataAssumption DEF NodesIndexed, InGraph
<1>3. \A m \in ToSet(nodes') : id[m] \in ValidId /\ nodesById'[id[m]] = m
  BY <1>1, <1>2
<1>4. \A y \in Id : nodesById'[y] # Nil =>
         nodesById'[y] \in ToSet(nodes') /\ id[nodesById'[y]] = y
  BY <1>1, <1>2
<1> QED  BY <1>1, <1>3, <1>4 DEF NodesIndexed, InGraph, NodeExists

LEMMA DeleteNodeStartStep ==
    ASSUME GraphInv, NEW n \in Handle, DeleteNodeAbsent(n) \/ DeleteNodeStart(n)
    PROVE  GraphInv'
<1>1. CASE DeleteNodeAbsent(n)
  BY <1>1, QuietStep DEF DeleteNodeAbsent, Answer
<1>2. CASE DeleteNodeStart(n)
  <2>1. /\ pc = "idle" /\ n \in ToSet(nodes)
        /\ nodes' = DeleteFirst(nodes, n)
        /\ nodesById' = [nodesById EXCEPT ![id[n]] = Nil]
        /\ pc' = "purgeFrom" /\ cur' = n /\ i' = 1
        /\ UNCHANGED <<edges, edgesById, id, typ, edgesFrom, edgesTo,
                      from, to, edgeTyp, ret>>
    BY <1>2 DEF DeleteNodeStart, InGraph, nodeVars, edgeVars
  <2>2. n \in NodePtr /\ NodeExists(n) /\ n # Nil
    BY NilIsNoPointer DEF Handle
  <2>3. /\ nodes' \in Seq(NodePtr) /\ IsInjective(nodes')
        /\ ToSet(nodes') = ToSet(nodes) \ {n}
    BY <2>1, DeleteFirstProperties DEF GraphInv, TypeOK, NodesIndexed
  <2>4. TypeOK'
    <3>1. nodesById' \in [Id -> Ptr]
      BY <2>1 DEF GraphInv, TypeOK, Ptr
    <3>2. 1 \in Nat \ {0}
      OBVIOUS
    <3> QED  BY <2>1, <2>2, <2>3, <3>1, <3>2 DEF GraphInv, TypeOK
  <2>5. NodesIndexed'
    BY <2>1, <2>2, NodeLeaves DEF GraphInv, TypeOK
  <2>6. EdgesWired'
    BY <2>1 DEF GraphInv, EdgesWired, EdgeExists, NodeExists
  <2>7. AdjacencyExact'
    <3>1. ASSUME NEW m \in NodePtr
          PROVE  /\ OutPurged(m)' = 0 /\ InPurged(m)' = 0
                 /\ EdgesOut(m)' = EdgesOut(m) /\ EdgesIn(m)' = EdgesIn(m)
      BY <2>1 DEF OutPurged, InPurged, EdgesOut, EdgesIn
    <3> QED  BY <2>1, <3>1, IdleLists DEF AdjacencyExact
  <2>8. IndexLive'
    BY <2>1, <2>3 DEF GraphInv, IndexLive, InGraph, NodeExists
  <2> QED  BY <2>4, <2>5, <2>6, <2>7, <2>8 DEF GraphInv
<1> QED  BY <1>1, <1>2

(* What GraphInv says of the lists while DeleteNode purges cur.              *)
LEMMA PurgeLists ==
    ASSUME GraphInv, pc # "idle"
    PROVE  /\ cur \in NodePtr /\ ~InGraph(cur)
           /\ \A n \in NodePtr :
              /\ edgesFrom[n] \in Seq(EdgeSlot) /\ edgesTo[n] \in Seq(EdgeSlot)
              /\ EdgesOut(n) \in SUBSET EdgePtr /\ EdgesIn(n) \in SUBSET EdgePtr
              /\ n # cur => /\ Lists(edgesFrom[n], 0, EdgesOut(n))
                            /\ Lists(edgesTo[n], 0, EdgesIn(n))
           /\ pc = "purgeFrom" => /\ Lists(edgesFrom[cur], i - 1, EdgesOut(cur))
                                  /\ Lists(edgesTo[cur], 0, EdgesIn(cur))
           /\ pc = "purgeTo" =>
                 /\ Lists(edgesFrom[cur], Len(edgesFrom[cur]), EdgesOut(cur))
                 /\ Lists(edgesTo[cur], i - 1, EdgesIn(cur))
<1>1. cur \in NodePtr /\ ~InGraph(cur) /\ pc \in {"purgeFrom", "purgeTo"}
  BY DEF GraphInv, TypeOK, NodesIndexed
<1>2. ToSet(edges) \subseteq EdgePtr
  BY ToSetOfSeq DEF GraphInv, TypeOK
<1>3. \A n \in NodePtr :
         /\ edgesFrom[n] \in Seq(EdgeSlot) /\ edgesTo[n] \in Seq(EdgeSlot)
         /\ EdgesOut(n) \in SUBSET EdgePtr /\ EdgesIn(n) \in SUBSET EdgePtr
  BY <1>2 DEF GraphInv, TypeOK, EdgesOut, EdgesIn, EdgeSlot
<1>4. \A n \in NodePtr : /\ Lists(edgesFrom[n], OutPurged(n), EdgesOut(n))
                         /\ Lists(edgesTo[n], InPurged(n), EdgesIn(n))
  BY DEF GraphInv, AdjacencyExact
<1> QED  BY <1>1, <1>3, <1>4 DEF OutPurged, InPurged

(* The edge that an iteration of the loop works on is in the graph.         *)
LEMMA PurgeFromStepEdge ==
    ASSUME GraphInv, PurgeFromStep
    PROVE  /\ cur \in NodePtr /\ pc = "purgeFrom" /\ i \in 1..Len(edgesFrom[cur])
           /\ edgesFrom[cur][i] \in EdgesOut(cur)
           /\ Lists([edgesFrom[cur] EXCEPT ![i] = Nil], i, EdgesOut(cur) \ {edgesFrom[cur][i]})
<1>1. pc = "purgeFrom" /\ i \in 1..Len(edgesFrom[cur])
  <2>1. pc \in {"purgeFrom", "purgeTo"} /\ cur \in NodePtr /\ i \in Nat \ {0}
    BY DEF PurgeFromStep, GraphInv, TypeOK
  <2>2. Len(edgesFrom[cur]) \in Nat
    BY <2>1, PurgeLists
  <2> QED  BY <2>1, <2>2 DEF PurgeFromStep
<1>2. PICK list \in Seq(EdgeSlot) : list = edgesFrom[cur]
  BY <1>1, PurgeLists
<1>3. /\ edgesFrom[cur][i] \in EdgesOut(cur)
      /\ Lists([list EXCEPT ![i] = Nil], i, EdgesOut(cur) \ {edgesFrom[cur][i]})
  BY <1>1, <1>2, PurgeLists, ListsPurge
<1> QED  BY <1>1, <1>2, <1>3, PurgeLists

LEMMA PurgeFromStepInv ==
    ASSUME GraphInv, PurgeFromStep
    PROVE  GraphInv'
<1> DEFINE e == edgesFrom[cur][i]
           far == to[e]
           key == <<Nil, to[e], edgeTyp[e]>>
<1>1. pc = "purgeFrom" /\ i \in 1..Len(edgesFrom[cur])
  BY PurgeFromStepEdge
<1>2. PICK list \in Seq(EdgeSlot) : list = edgesFrom[cur]
  BY <1>1, PurgeLists
<1>3. e \in EdgesOut(cur) /\ Lists([list EXCEPT ![i] = Nil], i, EdgesOut(cur) \ {e})
  BY <1>2, PurgeFromStepEdge
<1>4. e \in ToSet(edges) /\ from[e] = cur /\ cur \in NodePtr
  BY <1>1, <1>3, PurgeLists DEF EdgesOut, EdgesIn
<1>5. e \in EdgePtr /\ far \in NodePtr /\ far # cur
  BY <1>4, KeysDiffer
<1>6. /\ edges' = DeleteFirst(edges, e)
      /\ edgesById' = [edgesById EXCEPT ![key] = Nil]
      /\ edgesFrom' = [edgesFrom EXCEPT ![cur] = [list EXCEPT ![i] = Nil]]
      /\ edgesTo' = [edgesTo EXCEPT ![far] = DeleteFunc(edgesTo[far], e)]
      /\ from' = [from EXCEPT ![e] = Nil] /\ i' = i + 1
      /\ UNCHANGED <<nodes, nodesById, id, typ, to, edgeTyp, pc, cur, ret>>
  BY <1>2, <1>4 DEF PurgeFromStep, deleteEdge
<1> HIDE DEF e, far, key
<1>7. \A k \in EdgeIdentity : k[1] \in NodePtr /\ k[2] \in NodePtr =>
          edgesById'[k] = edgesById[k]
  BY <1>6, NilIsNoPointer DEF GraphInv, TypeOK, key
<1>8. \A d \in ToSet(edges) : edgesById'[<<from[d], to[d], edgeTyp[d]>>] = d
  BY <1>7, KeysDiffer
<1>9. /\ edges' \in Seq(EdgePtr) /\ ToSet(edges') = ToSet(edges) \ {e}
      /\ EdgesWired'
      /\ \A n : /\ EdgesOut(n)' = EdgesOut(n) \ {e}
               /\ EdgesIn(n)' = EdgesIn(n) \ {e}
  <2>1. \A d \in EdgePtr : d # e => from'[d] = from[d] /\ to'[d] = to[d]
    BY <1>6 DEF GraphInv, TypeOK
  <2> QED  BY <1>4, <1>6, <1>8, <2>1, DropEdge
<1>10. TypeOK'
  <2>1. /\ DeleteFunc(edgesTo[far], e) \in Seq(EdgeSlot)
        /\ [list EXCEPT ![i] = Nil] \in Seq(EdgeSlot)
    BY <1>1, <1>2, <1>5, PurgeLists, DeleteFuncProperties DEF EdgeSlot
  <2>2. edgesById' \in [EdgeIdentity -> EdgePtr \cup {Nil}]
    BY <1>6 DEF GraphInv, TypeOK
  <2>3. edgesFrom' \in [NodePtr -> Seq(EdgeSlot)] /\ edgesTo' \in [NodePtr -> Seq(EdgeSlot)]
    BY <1>6, <2>1 DEF GraphInv, TypeOK, EdgeSlot
  <2>4. from' \in [EdgePtr -> Ptr] /\ to' \in [EdgePtr -> Ptr]
    BY <1>6 DEF GraphInv, TypeOK, Ptr
  <2> QED  BY <1>1, <1>6, <1>9, <2>2, <2>3, <2>4 DEF GraphInv, TypeOK, EdgeSlot
<1>11. AdjacencyExact'
  <2>1. ASSUME NEW n \in NodePtr
        PROVE  Lists(edgesFrom'[n], OutPurged(n)', EdgesOut(n)')
    <3>1. CASE n = cur
      <4>1. OutPurged(n)' = i
        BY <3>1, <1>1, <1>6 DEF OutPurged
      <4>2. edgesFrom'[n] = [list EXCEPT ![i] = Nil] /\ EdgesOut(n)' = EdgesOut(n) \ {e}
        BY <3>1, <1>4, <1>6, <1>9 DEF GraphInv, TypeOK
      <4> QED  BY <3>1, <4>1, <4>2, <1>3
    <3>2. CASE n # cur
      <4>1. OutPurged(n)' = 0 /\ EdgesOut(n)' = EdgesOut(n) /\ edgesFrom'[n] = edgesFrom[n]
        BY <3>2, <1>4, <1>6, <1>9 DEF GraphInv, TypeOK, OutPurged, EdgesOut
      <4> QED  BY <3>2, <4>1, <1>1, PurgeLists
    <3> QED  BY <3>1, <3>2
  <2>2. ASSUME NEW n \in NodePtr
        PROVE  Lists(edgesTo'[n], InPurged(n)', EdgesIn(n)')
    <3>1. CASE n = far
      <4>1. Lists(DeleteFunc(edgesTo[far], e), 0, EdgesIn(far) \ {e})
        BY <1>1, <1>5, PurgeLists, ListsDelete
      <4> QED  BY <3>1, <4>1, <1>5, <1>6, <1>9 DEF GraphInv, TypeOK, InPurged
    <3>2. CASE n # far
      <4>1. EdgesIn(n)' = EdgesIn(n) /\ edgesTo'[n] = edgesTo[n]
        BY <3>2, <1>6, <1>9 DEF GraphInv, TypeOK, EdgesIn, far
      <4>2. InPurged(n)' = InPurged(n)
        BY <4>1, <1>1, <1>6 DEF InPurged
      <4> QED  BY <4>1, <4>2 DEF GraphInv, AdjacencyExact
    <3> QED  BY <3>1, <3>2
  <2> QED  BY <2>1, <2>2 DEF AdjacencyExact
<1>12. IndexLive'
  <2> SUFFICES ASSUME NEW k \in EdgeIdentity, edgesById'[k] # Nil
               PROVE  LET d == edgesById'[k] IN
                      /\ edgeTyp'[d] = k[3]
                      /\ k[1] \in NodePtr /\ NodeExists(k[1])'
                      /\ k[2] \in NodePtr /\ NodeExists(k[2])'
                      /\ \/ d \in ToSet(edges') /\ from'[d] = k[1] /\ to'[d] = k[2]
                         \/ ~InGraph(k[1])' \/ ~InGraph(k[2])'
    BY DEF IndexLive
  <2>1. edgesById'[k] = edgesById[k] /\ edgesById[k] \in EdgePtr
    BY <1>6 DEF GraphInv, TypeOK
  <2>2. CASE edgesById[k] = e
    <3>1. ~InGraph(cur)
      BY <1>1, PurgeLists
    <3> QED  BY <2>1, <2>2, <3>1, <1>4, <1>6 DEF GraphInv, IndexLive, NodeExists, InGraph
  <2>3. CASE edgesById[k] # e
    BY <2>1, <2>3, <1>6, <1>9 DEF GraphInv, TypeOK, IndexLive, NodeExists, InGraph
  <2> QED  BY <2>2, <2>3
<1>13. NodesIndexed'
  BY <1>6 DEF GraphInv, NodesIndexed, InGraph, NodeExists
<1> QED  BY <1>9, <1>10, <1>11, <1>12, <1>13 DEF GraphInv


(* The edge that an iteration of the loop works on is in the graph.         *)
LEMMA PurgeToStepEdge ==
    ASSUME GraphInv, PurgeToStep
    PROVE  /\ cur \in NodePtr /\ pc = "purgeTo" /\ i \in 1..Len(edgesTo[cur])
           /\ edgesTo[cur][i] \in EdgesIn(cur)
           /\ Lists([edgesTo[cur] EXCEPT ![i] = Nil], i, EdgesIn(cur) \ {edgesTo[cur][i]})
<1>1. pc = "purgeTo" /\ i \in 1..Len(edgesTo[cur])
  <2>1. pc \in {"purgeFrom", "purgeTo"} /\ cur \in NodePtr /\ i \in Nat \ {0}
    BY DEF PurgeToStep, GraphInv, TypeOK
  <2>2. Len(edgesTo[cur]) \in Nat
    BY <2>1, PurgeLists
  <2> QED  BY <2>1, <2>2 DEF PurgeToStep
<1>2. PICK list \in Seq(EdgeSlot) : list = edgesTo[cur]
  BY <1>1, PurgeLists
<1>3. /\ edgesTo[cur][i] \in EdgesIn(cur)
      /\ Lists([list EXCEPT ![i] = Nil], i, EdgesIn(cur) \ {edgesTo[cur][i]})
  BY <1>1, <1>2, PurgeLists, ListsPurge
<1> QED  BY <1>1, <1>2, <1>3, PurgeLists

LEMMA PurgeToStepInv ==
    ASSUME GraphInv, PurgeToStep
    PROVE  GraphInv'
<1> DEFINE e == edgesTo[cur][i]
           far == from[e]
           key == <<from[e], Nil, edgeTyp[e]>>
<1>1. pc = "purgeTo" /\ i \in 1..Len(edgesTo[cur])
  BY PurgeToStepEdge
<1>2. PICK list \in Seq(EdgeSlot) : list = edgesTo[cur]
  BY <1>1, PurgeLists
<1>3. e \in EdgesIn(cur) /\ Lists([list EXCEPT ![i] = Nil], i, EdgesIn(cur) \ {e})
  BY <1>2, PurgeToStepEdge
<1>4. e \in ToSet(edges) /\ to[e] = cur /\ cur \in NodePtr
  BY <1>1, <1>3, PurgeLists DEF EdgesOut, EdgesIn
<1>5. e \in EdgePtr /\ far \in NodePtr /\ far # cur
  BY <1>4, KeysDiffer
<1>6. /\ edges' = DeleteFirst(edges, e)
      /\ edgesById' = [edgesById EXCEPT ![key] = Nil]
      /\ edgesTo' = [edgesTo EXCEPT ![cur] = [list EXCEPT ![i] = Nil]]
      /\ edgesFrom' = [edgesFrom EXCEPT ![far] = DeleteFunc(edgesFrom[far], e)]
      /\ to' = [to EXCEPT ![e] = Nil] /\ i' = i + 1
      /\ UNCHANGED <<nodes, nodesById, id, typ, from, edgeTyp, pc, cur, ret>>
  BY <1>2, <1>4 DEF PurgeToStep, deleteEdge
<1> HIDE DEF e, far, key
<1>7. \A k \in EdgeIdentity : k[1] \in NodePtr /\ k[2] \in NodePtr =>
          edgesById'[k] = edgesById[k]
  BY <1>6, NilIsNoPointer DEF GraphInv, TypeOK, key
<1>8. \A d \in ToSet(edges) : edgesById'[<<from[d], to[d], edgeTyp[d]>>] = d
  BY <1>7, KeysDiffer
<1>9. /\ edges' \in Seq(EdgePtr) /\ ToSet(edges') = ToSet(edges) \ {e}
      /\ EdgesWired'
      /\ \A n : /\ EdgesOut(n)' = EdgesOut(n) \ {e}
               /\ EdgesIn(n)' = EdgesIn(n) \ {e}
  <2>1. \A d \in EdgePtr : d # e => from'[d] = from[d] /\ to'[d] = to[d]
    BY <1>6 DEF GraphInv, TypeOK
  <2> QED  BY <1>4, <1>6, <1>8, <2>1, DropEdge
<1>10. TypeOK'
  <2>1. /\ DeleteFunc(edgesFrom[far], e) \in Seq(EdgeSlot)
        /\ [list EXCEPT ![i] = Nil] \in Seq(EdgeSlot)
    BY <1>1, <1>2, <1>5, PurgeLists, DeleteFuncProperties DEF EdgeSlot
  <2>2. edgesById' \in [EdgeIdentity -> EdgePtr \cup {Nil}]
    BY <1>6 DEF GraphInv, TypeOK
  <2>3. edgesFrom' \in [NodePtr -> Seq(EdgeSlot)] /\ edgesTo' \in [NodePtr -> Seq(EdgeSlot)]
    BY <1>6, <2>1 DEF GraphInv, TypeOK, EdgeSlot
  <2>4. from' \in [EdgePtr -> Ptr] /\ to' \in [EdgePtr -> Ptr]
    BY <1>6 DEF GraphInv, TypeOK, Ptr
  <2> QED  BY <1>1, <1>6, <1>9, <2>2, <2>3, <2>4 DEF GraphInv, TypeOK, EdgeSlot
<1>11. AdjacencyExact'
  <2>1. ASSUME NEW n \in NodePtr
        PROVE  Lists(edgesTo'[n], InPurged(n)', EdgesIn(n)')
    <3>1. CASE n = cur
      <4>1. InPurged(n)' = i
        BY <3>1, <1>1, <1>6 DEF InPurged
      <4>2. edgesTo'[n] = [list EXCEPT ![i] = Nil] /\ EdgesIn(n)' = EdgesIn(n) \ {e}
        BY <3>1, <1>4, <1>6, <1>9 DEF GraphInv, TypeOK
      <4> QED  BY <3>1, <4>1, <4>2, <1>3
    <3>2. CASE n # cur
      <4>1. InPurged(n)' = 0 /\ EdgesIn(n)' = EdgesIn(n) /\ edgesTo'[n] = edgesTo[n]
        BY <3>2, <1>4, <1>6, <1>9 DEF GraphInv, TypeOK, InPurged, EdgesIn
      <4> QED  BY <3>2, <4>1, <1>1, PurgeLists
    <3> QED  BY <3>1, <3>2
  <2>2. ASSUME NEW n \in NodePtr
        PROVE  Lists(edgesFrom'[n], OutPurged(n)', EdgesOut(n)')
    <3>1. CASE n = far
      <4>1. Lists(DeleteFunc(edgesFrom[far], e), 0, EdgesOut(far) \ {e})
        BY <1>1, <1>5, PurgeLists, ListsDelete
      <4> QED  BY <3>1, <4>1, <1>5, <1>6, <1>9 DEF GraphInv, TypeOK, OutPurged
    <3>2. CASE n # far
      <4>1. EdgesOut(n)' = EdgesOut(n) /\ edgesFrom'[n] = edgesFrom[n]
        BY <3>2, <1>6, <1>9 DEF GraphInv, TypeOK, EdgesOut, far
      <4>2. OutPurged(n)' = OutPurged(n)
        BY <4>1, <1>1, <1>6 DEF OutPurged
      <4> QED  BY <4>1, <4>2 DEF GraphInv, AdjacencyExact
    <3> QED  BY <3>1, <3>2
  <2> QED  BY <2>1, <2>2 DEF AdjacencyExact
<1>12. IndexLive'
  <2> SUFFICES ASSUME NEW k \in EdgeIdentity, edgesById'[k] # Nil
               PROVE  LET d == edgesById'[k] IN
                      /\ edgeTyp'[d] = k[3]
                      /\ k[1] \in NodePtr /\ NodeExists(k[1])'
                      /\ k[2] \in NodePtr /\ NodeExists(k[2])'
                      /\ \/ d \in ToSet(edges') /\ from'[d] = k[1] /\ to'[d] = k[2]
                         \/ ~InGraph(k[1])' \/ ~InGraph(k[2])'
    BY DEF IndexLive
  <2>1. edgesById'[k] = edgesById[k] /\ edgesById[k] \in EdgePtr
    BY <1>6 DEF GraphInv, TypeOK
  <2>2. CASE edgesById[k] = e
    <3>1. ~InGraph(cur)
      BY <1>1, PurgeLists
    <3> QED  BY <2>1, <2>2, <3>1, <1>4, <1>6 DEF GraphInv, IndexLive, NodeExists, InGraph
  <2>3. CASE edgesById[k] # e
    BY <2>1, <2>3, <1>6, <1>9 DEF GraphInv, TypeOK, IndexLive, NodeExists, InGraph
  <2> QED  BY <2>2, <2>3
<1>13. NodesIndexed'
  BY <1>6 DEF GraphInv, NodesIndexed, InGraph, NodeExists
<1> QED  BY <1>9, <1>10, <1>11, <1>12, <1>13 DEF GraphInv

LEMMA PurgeFromDoneInv ==
    ASSUME GraphInv, PurgeFromDone
    PROVE  GraphInv'
<1>1. /\ pc = "purgeFrom" /\ i > Len(edgesFrom[cur]) /\ pc' = "purgeTo" /\ i' = 1
      /\ UNCHANGED <<nodes, edges, nodesById, edgesById, id, typ, edgesFrom,
                    edgesTo, from, to, edgeTyp, cur, ret>>
  BY DEF PurgeFromDone, graphVars, nodeVars, edgeVars
<1>2. TypeOK'
  <2>1. 1 \in Nat \ {0}
    OBVIOUS
  <2> QED  BY <1>1, <2>1 DEF GraphInv, TypeOK
<1>3. NodesIndexed' /\ EdgesWired' /\ IndexLive'
  BY <1>1 DEF GraphInv, NodesIndexed, EdgesWired, IndexLive, InGraph, NodeExists, EdgeExists
<1>4. AdjacencyExact'
  <2>1. PICK list \in Seq(EdgeSlot) : list = edgesFrom[cur]
    BY <1>1, PurgeLists
  <2>2. \A j \in 1..Len(list) : j <= i - 1
    BY <1>1, <2>1 DEF GraphInv, TypeOK
  <2>3. Lists(list, Len(list), EdgesOut(cur))
    BY <1>1, <2>1, <2>2, PurgeLists, ListsPurged
  <2>4. \A n \in NodePtr : EdgesOut(n)' = EdgesOut(n) /\ EdgesIn(n)' = EdgesIn(n)
    BY <1>1 DEF EdgesOut, EdgesIn
  <2>5. ASSUME NEW n \in NodePtr
        PROVE  Lists(edgesFrom[n], OutPurged(n)', EdgesOut(n))
    BY <1>1, <2>1, <2>3, PurgeLists DEF OutPurged
  <2>6. ASSUME NEW n \in NodePtr
        PROVE  Lists(edgesTo[n], InPurged(n)', EdgesIn(n))
    BY <1>1, PurgeLists DEF InPurged
  <2> QED  BY <1>1, <2>4, <2>5, <2>6 DEF AdjacencyExact
<1> QED  BY <1>2, <1>3, <1>4 DEF GraphInv

(* When the loops of DeleteNode are done, the graph has no edge at cur.      *)
LEMMA NothingLeft ==
    ASSUME GraphInv, DeleteNodeEnd
    PROVE  EdgesOut(cur) = {} /\ EdgesIn(cur) = {}
<1>1. pc = "purgeTo" /\ i > Len(edgesTo[cur])
  BY DEF DeleteNodeEnd
<1>2. PICK out \in Seq(EdgeSlot), in \in Seq(EdgeSlot) :
          out = edgesFrom[cur] /\ in = edgesTo[cur]
  BY <1>1, PurgeLists
<1>3. EdgesOut(cur) = {}
  <2>1. \A j \in 1..Len(out) : j <= Len(out)
    OBVIOUS
  <2> QED  BY <1>1, <1>2, <2>1, PurgeLists, ListsPurged
<1>4. EdgesIn(cur) = {}
  <2>1. \A j \in 1..Len(in) : j <= i - 1
    BY <1>1, <1>2 DEF GraphInv, TypeOK
  <2> QED  BY <1>1, <1>2, <2>1, PurgeLists, ListsPurged
<1> QED  BY <1>3, <1>4

LEMMA DeleteNodeEndInv ==
    ASSUME GraphInv, DeleteNodeEnd
    PROVE  GraphInv'
<1>1. /\ pc = "purgeTo" /\ i > Len(edgesTo[cur]) /\ pc' = "idle" /\ i' = 1
      /\ cur' = Nil /\ ret' = "node_deleted"
      /\ edgesFrom' = [edgesFrom EXCEPT ![cur] = << >>]
      /\ edgesTo' = [edgesTo EXCEPT ![cur] = << >>]
      /\ UNCHANGED <<nodes, edges, nodesById, edgesById, id, typ, from, to, edgeTyp>>
  BY DEF DeleteNodeEnd, graphVars, edgeVars
<1>2. TypeOK'
  <2>1. 1 \in Nat \ {0} /\ << >> \in Seq(EdgeSlot)
    OBVIOUS
  <2> QED  BY <1>1, <2>1 DEF GraphInv, TypeOK, EdgeSlot
<1>3. NodesIndexed' /\ EdgesWired' /\ IndexLive'
  BY <1>1 DEF GraphInv, NodesIndexed, EdgesWired, IndexLive, InGraph, NodeExists, EdgeExists
<1>4. AdjacencyExact'
  <2>2. EdgesOut(cur) = {} /\ EdgesIn(cur) = {}
    BY NothingLeft
  <2>4. \A n \in NodePtr : EdgesOut(n)' = EdgesOut(n) /\ EdgesIn(n)' = EdgesIn(n)
    BY <1>1 DEF EdgesOut, EdgesIn
  <2>5. \A n \in NodePtr : OutPurged(n)' = 0 /\ InPurged(n)' = 0
    BY <1>1, NilIsNoPointer DEF OutPurged, InPurged
  <2>6. Lists(<< >>, 0, {})
    BY DEF Lists
  <2>7. ASSUME NEW n \in NodePtr
        PROVE  Lists(edgesFrom'[n], 0, EdgesOut(n)) /\ Lists(edgesTo'[n], 0, EdgesIn(n))
    <3>1. CASE n = cur
      BY <3>1, <1>1, <2>2, <2>6 DEF GraphInv, TypeOK
    <3>2. CASE n # cur
      BY <3>2, <1>1, PurgeLists DEF GraphInv, TypeOK
    <3> QED  BY <3>1, <3>2
  <2> QED  BY <2>4, <2>5, <2>7 DEF AdjacencyExact
<1> QED  BY <1>2, <1>3, <1>4 DEF GraphInv

-----------------------------------------------------------------------------
(* SortTopo.                                                                 *)
LEMMA RankType == Rank(NodePtr, Apexes, succ) \in [NodePtr -> Int]
<1> DEFINE K == 1..Cardinality(NodePtr)
           lengths(n) == {k \in K : \E m \in K : m >= k /\ n \in Level(Apexes, succ, m)}
<1>1. IsFiniteSet(K)
  <2>1. Cardinality(NodePtr) \in Nat
    BY PointerAssumption, FS_CardinalityType
  <2> QED  BY <2>1, FS_Interval
<1>2. \A n : Cardinality(lengths(n)) \in Int
  <2> TAKE n
  <2>1. lengths(n) \in SUBSET K
    OBVIOUS
  <2> HIDE DEF lengths, K
  <2>2. IsFiniteSet(lengths(n))
    BY <1>1, <2>1, FS_Subset
  <2> QED  BY <2>2, FS_CardinalityType
<1>3. Rank(NodePtr, Apexes, succ) = [n \in NodePtr |-> Cardinality(lengths(n))]
  BY DEF Rank
<1> HIDE DEF lengths
<1> QED  BY <1>2, <1>3

LEMMA SortTopoNodes ==
    ASSUME GraphInv, SortTopo
    PROVE  nodes' \in Seq(NodePtr) /\ ToSet(nodes') = ToSet(nodes) /\ IsInjective(nodes')
<1> DEFINE sorted == StableSort(nodes, Rank(NodePtr, Apexes, succ))
<1>1. nodes' = nodes \/ nodes' = sorted
  BY DEF SortTopo
<1>2. sorted \in Seq(NodePtr) /\ ToSet(sorted) = ToSet(nodes) /\ IsInjective(sorted)
  BY RankType, StableSortProperties DEF GraphInv, TypeOK, NodesIndexed
<1> HIDE DEF sorted
<1> QED  BY <1>1, <1>2 DEF GraphInv, TypeOK, NodesIndexed

LEMMA SortTopoStep ==
    ASSUME GraphInv, SortTopo
    PROVE  GraphInv'
<1>1. /\ ret' = "ErrCyclic" \/ ret' = "sorted"
      /\ UNCHANGED <<edges, nodesById, edgesById, nodeVars, edgeVars, loopVars>>
  BY DEF SortTopo
<1>2. nodes' \in Seq(NodePtr) /\ ToSet(nodes') = ToSet(nodes) /\ IsInjective(nodes')
  BY SortTopoNodes
<1> USE DEF nodeVars, edgeVars, loopVars
<1>4. TypeOK'
  BY <1>1, <1>2 DEF GraphInv, TypeOK
<1>5. NodesIndexed'
  BY <1>1, <1>2 DEF GraphInv, NodesIndexed, InGraph, NodeExists
<1>6. EdgesWired' /\ IndexLive'
  BY <1>1, <1>2 DEF GraphInv, EdgesWired, IndexLive, InGraph, NodeExists, EdgeExists
<1>7. AdjacencyExact'
  BY <1>1, SameAdjacency DEF GraphInv
<1> QED  BY <1>4, <1>5, <1>6, <1>7 DEF GraphInv

-----------------------------------------------------------------------------
(* Each action preserves GraphInv, and so does a step that changes nothing.  *)
LEMMA NextGraphInv == GraphInv /\ [Next]_vars => GraphInv'
<1> SUFFICES ASSUME GraphInv, [Next]_vars PROVE GraphInv'
  OBVIOUS
<1>1. CASE \E x \in Id, t \in Type : AddNode(x, t)
  BY <1>1, AddNodeStep
<1>2. CASE \E f, t \in Handle, ty \in Type : AddEdge(f, t, ty)
  BY <1>2, AddEdgeStep
<1>3. CASE \E e \in EdgePtr : EdgeExists(e) /\ DeleteEdge(e)
  BY <1>3, DeleteEdgeStep
<1>4. CASE \E n \in Handle : DeleteNodeAbsent(n) \/ DeleteNodeStart(n)
  BY <1>4, DeleteNodeStartStep
<1>5. CASE PurgeFromStep
  BY <1>5, PurgeFromStepInv
<1>6. CASE PurgeFromDone
  BY <1>6, PurgeFromDoneInv
<1>7. CASE PurgeToStep
  BY <1>7, PurgeToStepInv
<1>8. CASE DeleteNodeEnd
  BY <1>8, DeleteNodeEndInv
<1>9. CASE SortTopo
  BY <1>9, SortTopoStep
<1>10. CASE UNCHANGED vars
  <2>1. ret' = ret /\ ret \in Answer
    BY <1>10 DEF vars, GraphInv, TypeOK, Answer
  <2> QED  BY <1>10, <2>1, QuietStep DEF vars
<1> QED
  BY <1>1, <1>2, <1>3, <1>4, <1>5, <1>6, <1>7, <1>8, <1>9, <1>10 DEF Next

-----------------------------------------------------------------------------
(* What FindEdge returns for two nodes of the graph follows from GraphInv.   *)
LEMMA LiveIndexFromInv == GraphInv => LiveIndexExact
<1> SUFFICES ASSUME GraphInv, NEW n \in ToSet(nodes), NEW m \in ToSet(nodes),
                    NEW t \in Type, NEW e \in EdgePtr
             PROVE  edgesById[<<n, m, t>>] = e <=>
                        e \in ToSet(edges) /\ from[e] = n /\ to[e] = m /\ edgeTyp[e] = t
  BY DEF LiveIndexExact
<1>1. n \in NodePtr /\ m \in NodePtr /\ e # Nil
  BY ToSetOfSeq, NilIsNoPointer DEF GraphInv, TypeOK
<1>2. <<n, m, t>> \in EdgeIdentity
  BY <1>1 DEF EdgeIdentity, Ptr
<1>3. ASSUME edgesById[<<n, m, t>>] = e
      PROVE  e \in ToSet(edges) /\ from[e] = n /\ to[e] = m /\ edgeTyp[e] = t
  BY <1>1, <1>2, <1>3 DEF GraphInv, IndexLive, InGraph
<1>4. ASSUME e \in ToSet(edges), from[e] = n, to[e] = m, edgeTyp[e] = t
      PROVE  edgesById[<<n, m, t>>] = e
  BY <1>4 DEF GraphInv, EdgesWired
<1> QED  BY <1>3, <1>4

(* The endpoints of the graph's edges, for callers that drop their pointers  *)
(* to deleted nodes: DeleteNode takes a node out of g.nodes before it takes  *)
(* its edges out of g.edges, and has to find all of them.                    *)
LEMMA EndpointsStep ==
    ASSUME GraphInv, GraphInv', EndpointsLive, Next
    PROVE  EndpointsLive'
<1> SUFFICES ASSUME ~StaleHandles, NEW e \in ToSet(edges')
             PROVE  {from'[e], to'[e]} \subseteq ToSet(nodes') \cup {cur'}
  BY DEF EndpointsLive
<1>1. \A d \in ToSet(edges) : {from[d], to[d]} \subseteq ToSet(nodes) \cup {cur}
  BY DEF EndpointsLive
<1>2. ASSUME UNCHANGED <<edges, from, to, cur>>, ToSet(nodes) \subseteq ToSet(nodes')
      PROVE  {from'[e], to'[e]} \subseteq ToSet(nodes') \cup {cur'}
  BY <1>1, <1>2
<1>3. CASE \E x \in Id, t \in Type : AddNode(x, t)
  <2>1. PICK x \in Id, t \in Type : AddNode(x, t)
    BY <1>3
  <2>2. UNCHANGED <<edges, from, to, cur>>
    BY <2>1 DEF AddNode, AddNodeInvalid, AddNodeTypeChange, AddNodeExisting,
                AddNodeNew, graphVars, edgeVars, loopVars
  <2>3. nodes' = nodes \/ \E n \in NodePtr : nodes' = Append(nodes, n)
    BY <2>1 DEF AddNode, AddNodeInvalid, AddNodeTypeChange, AddNodeExisting,
                AddNodeNew, graphVars
  <2>4. ASSUME NEW n \in NodePtr, nodes' = Append(nodes, n)
        PROVE  ToSet(nodes) \subseteq ToSet(nodes')
    <3>1. ToSet(Append(nodes, n)) = ToSet(nodes) \cup {n}
      BY AppendFacts DEF GraphInv, TypeOK
    <3> QED  BY <2>4, <3>1
  <2>5. ToSet(nodes) \subseteq ToSet(nodes')
    BY <2>3, <2>4
  <2> QED  BY <1>2, <2>2, <2>5
<1>4. CASE \E f, t \in Handle, ty \in Type : AddEdge(f, t, ty)
  <2>1. PICK f \in Handle, t \in Handle, ty \in Type : AddEdge(f, t, ty)
    BY <1>4
  <2>2. CASE AddEdgeLoop(f, t, ty) \/ AddEdgeExisting(f, t, ty)
    BY <1>2, <2>2 DEF AddEdgeLoop, AddEdgeExisting, graphVars, edgeVars, loopVars
  <2>3. CASE AddEdgeNew(f, t, ty)
    <3>1. PICK d \in EdgePtr : /\ from' = [from EXCEPT ![d] = f]
                              /\ to' = [to EXCEPT ![d] = t]
                              /\ edges' = Append(edges, d)
      BY <2>3 DEF AddEdgeNew
    <3>2. nodes' = nodes /\ cur' = cur
      BY <2>3 DEF AddEdgeNew, loopVars
    <3>3. f \in ToSet(nodes) /\ t \in ToSet(nodes)
      BY DEF Handle, InGraph
    <3>4. e \in ToSet(edges) \/ e = d
      BY <3>1, AppendFacts DEF GraphInv, TypeOK
    <3>5. ToSet(edges) \subseteq EdgePtr
      BY ToSetOfSeq DEF GraphInv, TypeOK
    <3> QED  BY <1>1, <3>1, <3>2, <3>3, <3>4, <3>5 DEF GraphInv, TypeOK
  <2> QED  BY <2>1, <2>2, <2>3 DEF AddEdge
<1>5. ASSUME NEW d, edges' = edges \/ (d \in ToSet(edges) /\ edges' = DeleteFirst(edges, d)),
             \A c \in EdgePtr : c # d => from'[c] = from[c] /\ to'[c] = to[c],
             edges' = edges => UNCHANGED <<from, to>>, UNCHANGED <<nodes, cur>>
      PROVE  {from'[e], to'[e]} \subseteq ToSet(nodes') \cup {cur'}
  <2>1. CASE edges' = edges
    BY <1>1, <1>5, <2>1
  <2>2. CASE d \in ToSet(edges) /\ edges' = DeleteFirst(edges, d)
    <3>1. e \in ToSet(edges) /\ e # d /\ e \in EdgePtr
      BY <2>2, DeleteFirstProperties, ToSetOfSeq DEF GraphInv, TypeOK, EdgesWired
    <3> QED  BY <1>1, <1>5, <3>1
  <2> QED  BY <1>5, <2>1, <2>2
<1>6. CASE \E d \in EdgePtr : EdgeExists(d) /\ DeleteEdge(d)
  <2>1. PICK d \in EdgePtr : DeleteEdge(d)
    BY <1>6
  <2> QED  BY <1>5, <2>1 DEF DeleteEdge, deleteEdge, edgeVars, loopVars
<1>7. CASE \E n \in Handle : DeleteNodeAbsent(n) \/ DeleteNodeStart(n)
  <2>1. PICK n \in Handle : DeleteNodeAbsent(n) \/ DeleteNodeStart(n)
    BY <1>7
  <2>2. CASE DeleteNodeAbsent(n)
    BY <1>2, <2>2 DEF DeleteNodeAbsent, graphVars, edgeVars, loopVars
  <2>3. CASE DeleteNodeStart(n)
    <3>1. /\ pc = "idle" /\ n \in ToSet(nodes) /\ nodes' = DeleteFirst(nodes, n)
          /\ cur' = n /\ UNCHANGED <<edges, from, to>>
      BY <2>3 DEF DeleteNodeStart, InGraph, edgeVars
    <3>2. ToSet(nodes') = ToSet(nodes) \ {n}
      BY <3>1, DeleteFirstProperties DEF GraphInv, TypeOK, NodesIndexed
    <3>3. cur = Nil /\ e \in ToSet(edges)
      BY <3>1 DEF GraphInv, TypeOK
    <3>4. from[e] # Nil /\ to[e] # Nil
      BY <3>3, KeysDiffer, NilIsNoPointer
    <3> QED  BY <1>1, <3>1, <3>2, <3>3, <3>4
  <2> QED  BY <2>1, <2>2, <2>3
<1>8. CASE PurgeFromStep
  <2> DEFINE d == edgesFrom[cur][i]
  <2>1. d \in ToSet(edges)
    BY <1>8, PurgeFromStepEdge DEF EdgesOut
  <2>2. /\ edges' = DeleteFirst(edges, d)
        /\ \A c \in EdgePtr : c # d => from'[c] = from[c] /\ to'[c] = to[c]
        /\ UNCHANGED <<nodes, cur>>
    BY <1>8, <2>1 DEF PurgeFromStep, deleteEdge, GraphInv, TypeOK
  <2>3. edges' # edges
    BY <2>1, <2>2, DeleteFirstProperties DEF GraphInv, TypeOK, EdgesWired
  <2> HIDE DEF d
  <2> QED  BY <1>5, <2>1, <2>2, <2>3
<1>9. CASE PurgeToStep
  <2> DEFINE d == edgesTo[cur][i]
  <2>1. d \in ToSet(edges)
    BY <1>9, PurgeToStepEdge DEF EdgesIn
  <2>2. /\ edges' = DeleteFirst(edges, d)
        /\ \A c \in EdgePtr : c # d => from'[c] = from[c] /\ to'[c] = to[c]
        /\ UNCHANGED <<nodes, cur>>
    BY <1>9, <2>1 DEF PurgeToStep, deleteEdge, GraphInv, TypeOK
  <2>3. edges' # edges
    BY <2>1, <2>2, DeleteFirstProperties DEF GraphInv, TypeOK, EdgesWired
  <2> HIDE DEF d
  <2> QED  BY <1>5, <2>1, <2>2, <2>3
<1>10. CASE PurgeFromDone
  BY <1>2, <1>10 DEF PurgeFromDone, graphVars, edgeVars
<1>11. CASE DeleteNodeEnd
  <2>1. UNCHANGED <<nodes, edges, from, to>>
    BY <1>11 DEF DeleteNodeEnd, graphVars, edgeVars
  <2>2. from[e] # cur /\ to[e] # cur
    <3>1. EdgesOut(cur) = {} /\ EdgesIn(cur) = {}
      BY <1>11, NothingLeft
    <3> QED  BY <2>1, <3>1 DEF EdgesOut, EdgesIn
  <2> QED  BY <1>1, <2>1, <2>2
<1>12. CASE SortTopo
  <2>1. ToSet(nodes') = ToSet(nodes) /\ UNCHANGED <<edges, from, to, cur>>
    BY <1>12, SortTopoNodes DEF SortTopo, edgeVars, loopVars
  <2> QED  BY <1>2, <2>1
<1> QED
  BY <1>3, <1>4, <1>6, <1>7, <1>8, <1>9, <1>10, <1>11, <1>12 DEF Next

-----------------------------------------------------------------------------
(* The order of the adjacency lists.                                         *)

(* The elements of out are elements of s, at ever larger indices.            *)
Thins(out, s) ==
    \E h \in [1..Len(out) -> 1..Len(s)] :
        /\ \A k \in 1..Len(out) : out[k] = s[h[k]]
        /\ \A j, k \in 1..Len(out) : h[j] < h[k] <=> j < k

LEMMA DeleteFuncThins ==
    ASSUME NEW S, NEW s \in Seq(S), NEW e
    PROVE  Thins(DeleteFunc(s, e), s)
<1> DEFINE I == {j \in 1..Len(s) : s[j] # e}
<1>1. DeleteFunc(s, e) = KeepAt(s, I) /\ I \in SUBSET (1..Len(s))
  <2>1. DOMAIN s = 1..Len(s)
    OBVIOUS
  <2> QED  BY <2>1 DEF DeleteFunc
<1> HIDE DEF I
<1>2. PICK h \in [1..Len(KeepAt(s, I)) -> 1..Len(s)] :
          /\ \A k \in 1..Len(KeepAt(s, I)) : h[k] \in I /\ KeepAt(s, I)[k] = s[h[k]]
          /\ \A j \in I : \E k \in 1..Len(KeepAt(s, I)) : h[k] = j
          /\ \A j, k \in 1..Len(KeepAt(s, I)) : h[j] < h[k] <=> j < k
  BY <1>1, KeepAtFacts
<1> QED  BY <1>1, <1>2 DEF Thins

LEMMA DeleteFirstThins ==
    ASSUME NEW S, NEW s \in Seq(S), IsInjective(s), NEW e \in ToSet(s)
    PROVE  Thins(DeleteFirst(s, e), s)
<1> DEFINE gap == CHOOSE g \in DOMAIN s : s[g] = e /\ \A j \in 1..g - 1 : s[j] # e
           out == [j \in 1..Len(s) - 1 |-> IF j < gap THEN s[j] ELSE s[j + 1]]
           h == [j \in 1..Len(s) - 1 |-> IF j < gap THEN j ELSE j + 1]
<1>1. DeleteFirst(s, e) = out
  BY DEF DeleteFirst
<1>2. gap \in 1..Len(s)
  <2>1. PICK k \in 1..Len(s) : s[k] = e
    BY ToSetOfSeq
  <2>2. \A j \in 1..k - 1 : s[j] # e
    BY <2>1 DEF IsInjective
  <2> QED  BY <2>1, <2>2
<1> HIDE DEF gap
<1>3. Len(s) - 1 \in Nat
  BY <1>2
<1>4. Len(out) = Len(s) - 1
  BY <1>3
<1>5. h \in [1..Len(s) - 1 -> 1..Len(s)]
  BY <1>2, <1>3
<1>6. \A k \in 1..Len(s) - 1 : out[k] = s[h[k]]
  BY <1>2
<1>7. \A j, k \in 1..Len(s) - 1 : h[j] < h[k] <=> j < k
  BY <1>2, <1>3
<1> HIDE DEF out, h
<1> QED  BY <1>1, <1>4, <1>5, <1>6, <1>7 DEF Thins

LEMMA OrderByIndex ==
    ASSUME NEW S, NEW T, NEW list \in Seq(S), NEW s \in Seq(T)
    PROVE  InOrder(list, s) <=>
              \A j, k \in 1..Len(list), p, q \in 1..Len(s) :
                  j < k /\ list[j] = s[p] /\ list[k] = s[q] => p < q
<1>1. DOMAIN list = 1..Len(list) /\ DOMAIN s = 1..Len(s)
  OBVIOUS
<1> QED  BY <1>1, Zenon DEF InOrder

(* The order survives a deletion from either sequence.                       *)
LEMMA OrderThins ==
    ASSUME NEW S, NEW T, NEW list \in Seq(S), NEW s \in Seq(T), InOrder(list, s)
    PROVE  /\ \A out \in Seq(S) : Thins(out, list) => InOrder(out, s)
           /\ \A out \in Seq(T) : Thins(out, s) => InOrder(list, out)
<1>1. \A j, k \in 1..Len(list), p, q \in 1..Len(s) :
         j < k /\ list[j] = s[p] /\ list[k] = s[q] => p < q
  BY DEF InOrder
<1>2. ASSUME NEW out \in Seq(S), Thins(out, list)
      PROVE  InOrder(out, s)
  <2>1. PICK h \in [1..Len(out) -> 1..Len(list)] :
            /\ \A k \in 1..Len(out) : out[k] = list[h[k]]
            /\ \A j, k \in 1..Len(out) : h[j] < h[k] <=> j < k
    BY <1>2 DEF Thins
  <2>2. ASSUME NEW j \in 1..Len(out), NEW k \in 1..Len(out), j < k,
               NEW p \in 1..Len(s), NEW q \in 1..Len(s), out[j] = s[p], out[k] = s[q]
        PROVE  p < q
    <3>1. h[j] \in 1..Len(list) /\ h[k] \in 1..Len(list) /\ h[j] < h[k]
      BY <2>1, <2>2
    <3>2. list[h[j]] = s[p] /\ list[h[k]] = s[q]
      BY <2>1, <2>2
    <3> QED  BY <1>1, <3>1, <3>2
  <2> QED  BY <2>2, OrderByIndex
<1>3. ASSUME NEW out \in Seq(T), Thins(out, s)
      PROVE  InOrder(list, out)
  <2>1. PICK h \in [1..Len(out) -> 1..Len(s)] :
            /\ \A k \in 1..Len(out) : out[k] = s[h[k]]
            /\ \A j, k \in 1..Len(out) : h[j] < h[k] <=> j < k
    BY <1>3 DEF Thins
  <2>2. ASSUME NEW j \in 1..Len(list), NEW k \in 1..Len(list), j < k,
               NEW p \in 1..Len(out), NEW q \in 1..Len(out), list[j] = out[p], list[k] = out[q]
        PROVE  p < q
    <3>1. h[p] \in 1..Len(s) /\ h[q] \in 1..Len(s)
      BY <2>1
    <3>2. list[j] = s[h[p]] /\ list[k] = s[h[q]]
      BY <2>1, <2>2
    <3>3. h[p] < h[q]
      BY <1>1, <2>2, <3>1, <3>2
    <3> QED  BY <2>1, <3>3
  <2> QED  BY <2>2, OrderByIndex
<1> QED  BY <1>2, <1>3

(* An element that neither has goes to the end of both, or of s.             *)
LEMMA OrderAppend ==
    ASSUME NEW S, NEW T, NEW list \in Seq(S), NEW s \in Seq(T), InOrder(list, s),
           NEW e \in S \cap T, e \notin ToSet(s), e \notin ToSet(list)
    PROVE  /\ InOrder(list, Append(s, e))
           /\ InOrder(Append(list, e), Append(s, e))
<1> DEFINE ls == Append(list, e)
           ss == Append(s, e)
<1>1. /\ ls \in Seq(S) /\ Len(ls) = Len(list) + 1 /\ ls[Len(list) + 1] = e
      /\ \A j \in 1..Len(list) : ls[j] = list[j]
  BY AppendFacts
<1>2. /\ ss \in Seq(T) /\ Len(ss) = Len(s) + 1 /\ ss[Len(s) + 1] = e
      /\ \A j \in 1..Len(s) : ss[j] = s[j]
  BY AppendFacts
<1>3. \A j, k \in 1..Len(list), p, q \in 1..Len(s) :
         j < k /\ list[j] = s[p] /\ list[k] = s[q] => p < q
  BY DEF InOrder
<1>4. /\ \A j \in 1..Len(list) : list[j] # e
      /\ \A p \in 1..Len(s) : s[p] # e
  BY ToSetOfSeq
<1>5. Len(list) \in Nat /\ Len(s) \in Nat
  OBVIOUS
<1> HIDE DEF ls, ss
<1>6. ASSUME NEW j \in 1..Len(ls), NEW k \in 1..Len(ls), j < k,
             NEW p \in 1..Len(ss), NEW q \in 1..Len(ss), ls[j] = ss[p], ls[k] = ss[q]
      PROVE  p < q
  <2>1. j \in 1..Len(list) /\ ls[j] = list[j] /\ list[j] # e
    BY <1>1, <1>4, <1>5, <1>6
  <2>2. p \in 1..Len(s) /\ ss[p] = s[p]
    <3>1. ss[p] # e /\ p # Len(s) + 1
      BY <1>2, <1>6, <2>1
    <3> QED  BY <1>2, <1>5, <3>1
  <2>3. CASE q = Len(s) + 1
    BY <1>5, <2>2, <2>3
  <2>4. CASE q # Len(s) + 1
    <3>1. q \in 1..Len(s) /\ ss[q] = s[q] /\ s[q] # e
      BY <1>2, <1>4, <1>5, <2>4
    <3>2. k \in 1..Len(list) /\ ls[k] = list[k]
      BY <1>1, <1>5, <1>6, <3>1
    <3> QED  BY <1>3, <1>6, <2>1, <2>2, <3>1, <3>2
  <2> QED  BY <2>3, <2>4
<1>7. InOrder(ls, ss)
  <2>1. \A j, k \in 1..Len(ls), p, q \in 1..Len(ss) :
           j < k /\ ls[j] = ss[p] /\ ls[k] = ss[q] => p < q
    BY <1>6
  <2>2. ls \in Seq(S) /\ ss \in Seq(T)
    BY <1>1, <1>2
  <2> QED  BY <2>1, <2>2, OrderByIndex, Zenon
<1>8. InOrder(list, ss)
  <2>1. \A j \in 1..Len(list) : j \in 1..Len(ls) /\ ls[j] = list[j]
    BY <1>1, <1>5
  <2>2. \A j, k \in 1..Len(list), p, q \in 1..Len(ss) :
           j < k /\ list[j] = ss[p] /\ list[k] = ss[q] => p < q
    BY <1>6, <2>1
  <2> QED  BY <1>2, <2>2, OrderByIndex
<1> QED  BY <1>7, <1>8 DEF ls, ss

(* A nil in the place of an edge is not in s.                                *)
LEMMA OrderPurge ==
    ASSUME NEW S, NEW T, NEW list \in Seq(S), NEW s \in Seq(T), InOrder(list, s),
           NEW x, x \notin T, NEW k \in 1..Len(list)
    PROVE  InOrder([list EXCEPT ![k] = x], s)
<1> DEFINE out == [list EXCEPT ![k] = x]
<1>1. /\ DOMAIN out = 1..Len(list) /\ out[k] = x
      /\ \A j \in 1..Len(list) : j # k => out[j] = list[j]
  OBVIOUS
<1>2. \A p \in 1..Len(s) : s[p] # x
  OBVIOUS
<1>3. \A a, b \in 1..Len(list), p, q \in 1..Len(s) :
         a < b /\ list[a] = s[p] /\ list[b] = s[q] => p < q
  BY DEF InOrder
<1> HIDE DEF out
<1>4. \A a, b \in 1..Len(list), p, q \in 1..Len(s) :
         a < b /\ out[a] = s[p] /\ out[b] = s[q] => p < q
  BY <1>1, <1>2, <1>3
<1>5. DOMAIN s = 1..Len(s)
  OBVIOUS
<1>6. InOrder(out, s)
  BY <1>1, <1>4, <1>5, Zenon DEF InOrder
<1> QED  BY <1>6 DEF out

(* What a step that takes e out of g.edges may make of a list.               *)
LEMMA OrderDrop ==
    ASSUME GraphInv, NEW e \in ToSet(edges), edges' = DeleteFirst(edges, e),
           NEW list \in Seq(EdgeSlot), InOrder(list, edges)
    PROVE  /\ InOrder(list, edges') /\ InOrder(DeleteFunc(list, e), edges')
           /\ \A k \in 1..Len(list) : InOrder([list EXCEPT ![k] = Nil], edges')
<1>1. edges \in Seq(EdgePtr) /\ IsInjective(edges)
  BY DEF GraphInv, TypeOK, EdgesWired
<1>2. edges' \in Seq(EdgePtr) /\ Thins(edges', edges)
  BY <1>1, DeleteFirstProperties, DeleteFirstThins
<1>3. InOrder(list, edges')
  BY <1>1, <1>2, OrderThins
<1>4. InOrder(DeleteFunc(list, e), edges')
  <2>1. DeleteFunc(list, e) \in Seq(EdgeSlot) /\ Thins(DeleteFunc(list, e), list)
    BY DeleteFuncProperties, DeleteFuncThins
  <2> QED  BY <1>2, <1>3, <2>1, OrderThins
<1>5. ASSUME NEW k \in 1..Len(list)
      PROVE  InOrder([list EXCEPT ![k] = Nil], edges')
  BY <1>2, <1>3, NilIsNoPointer, OrderPurge
<1> QED  BY <1>3, <1>4, <1>5

LEMMA OrderStep ==
    ASSUME GraphInv, AdjacencyOrder, [Next]_vars
    PROVE  AdjacencyOrder'
<1>1. /\ edges \in Seq(EdgePtr) /\ edgesFrom \in [NodePtr -> Seq(EdgeSlot)]
      /\ edgesTo \in [NodePtr -> Seq(EdgeSlot)]
      /\ \A n \in NodePtr : edgesFrom[n] \in Seq(EdgeSlot) /\ edgesTo[n] \in Seq(EdgeSlot)
  BY DEF GraphInv, TypeOK, EdgeSlot
<1>2. \A n \in NodePtr : InOrder(edgesFrom[n], edges) /\ InOrder(edgesTo[n], edges)
  BY DEF AdjacencyOrder
<1>3. CASE UNCHANGED <<edges, edgesFrom, edgesTo>>
  BY <1>3, <1>2 DEF AdjacencyOrder
<1>4. CASE \E x \in Id, t \in Type : AddNode(x, t)
  BY <1>3, <1>4 DEF AddNode, AddNodeInvalid, AddNodeTypeChange, AddNodeExisting,
                    AddNodeNew, graphVars, nodeVars
<1>5. CASE \E f, t \in Handle, ty \in Type : AddEdge(f, t, ty)
  <2>1. PICK f \in Handle, t \in Handle, ty \in Type : AddEdge(f, t, ty)
    BY <1>5
  <2>2. CASE AddEdgeLoop(f, t, ty) \/ AddEdgeExisting(f, t, ty)
    BY <1>3, <2>2 DEF AddEdgeLoop, AddEdgeExisting, graphVars, nodeVars
  <2>3. CASE AddEdgeNew(f, t, ty)
    <3>1. PICK e \in EdgePtr :
              /\ ~EdgeExists(e) /\ edges' = Append(edges, e)
              /\ edgesFrom' = [edgesFrom EXCEPT ![f] = Append(edgesFrom[f], e)]
              /\ edgesTo' = [edgesTo EXCEPT ![t] = Append(edgesTo[t], e)]
      BY <2>3 DEF AddEdgeNew
    <3>2. e \notin ToSet(edges) /\ e \in EdgeSlot /\ pc = "idle"
      BY <2>1, <3>1 DEF GraphInv, EdgesWired, EdgeSlot, AddEdge
    <3>3. ASSUME NEW list \in Seq(EdgeSlot), NEW S, Lists(list, 0, S), S \subseteq ToSet(edges),
                 InOrder(list, edges)
          PROVE  InOrder(list, edges') /\ InOrder(Append(list, e), edges')
      <4>1. e \notin ToSet(list)
        <5>1. \A j \in 1..Len(list) : list[j] \in S
          BY <3>3 DEF Lists
        <5> QED  BY <3>2, <3>3, <5>1, ToSetOfSeq
      <4> QED  BY <1>1, <3>1, <3>2, <3>3, <4>1, OrderAppend
    <3>4. \A n \in NodePtr : EdgesOut(n) \subseteq ToSet(edges) /\ EdgesIn(n) \subseteq ToSet(edges)
      BY DEF EdgesOut, EdgesIn
    <3>5. ASSUME NEW n \in NodePtr
          PROVE  /\ InOrder(edgesFrom[n], edges') /\ InOrder(Append(edgesFrom[n], e), edges')
                 /\ InOrder(edgesTo[n], edges') /\ InOrder(Append(edgesTo[n], e), edges')
      BY <1>1, <1>2, <3>2, <3>3, <3>4, IdleLists
    <3>6. \A n \in NodePtr : /\ edgesFrom'[n] \in {edgesFrom[n], Append(edgesFrom[n], e)}
                             /\ edgesTo'[n] \in {edgesTo[n], Append(edgesTo[n], e)}
      BY <1>1, <3>1
    <3> QED  BY <3>5, <3>6 DEF AdjacencyOrder
  <2> QED  BY <2>1, <2>2, <2>3 DEF AddEdge
<1>6. ASSUME NEW e \in ToSet(edges), edges' = DeleteFirst(edges, e),
             \A n \in NodePtr :
                /\ \/ edgesFrom'[n] \in {edgesFrom[n], DeleteFunc(edgesFrom[n], e)}
                   \/ \E k \in 1..Len(edgesFrom[n]) : edgesFrom'[n] = [edgesFrom[n] EXCEPT ![k] = Nil]
                /\ \/ edgesTo'[n] \in {edgesTo[n], DeleteFunc(edgesTo[n], e)}
                   \/ \E k \in 1..Len(edgesTo[n]) : edgesTo'[n] = [edgesTo[n] EXCEPT ![k] = Nil]
      PROVE  AdjacencyOrder'
  <2>1. ASSUME NEW n \in NodePtr
        PROVE  InOrder(edgesFrom'[n], edges') /\ InOrder(edgesTo'[n], edges')
    <3>1. ASSUME NEW list \in Seq(EdgeSlot), InOrder(list, edges)
          PROVE  /\ InOrder(list, edges') /\ InOrder(DeleteFunc(list, e), edges')
                 /\ \A k \in 1..Len(list) : InOrder([list EXCEPT ![k] = Nil], edges')
      BY <1>6, <3>1, OrderDrop
    <3>2. InOrder(edgesFrom'[n], edges')
      <4>1. edgesFrom[n] \in Seq(EdgeSlot) /\ InOrder(edgesFrom[n], edges)
        BY <1>1, <1>2
      <4> QED  BY <1>6, <3>1, <4>1
    <3>3. InOrder(edgesTo'[n], edges')
      <4>1. edgesTo[n] \in Seq(EdgeSlot) /\ InOrder(edgesTo[n], edges)
        BY <1>1, <1>2
      <4> QED  BY <1>6, <3>1, <4>1
    <3> QED  BY <3>2, <3>3
  <2> QED  BY <2>1 DEF AdjacencyOrder
<1>7. CASE \E e \in EdgePtr : EdgeExists(e) /\ DeleteEdge(e)
  <2>1. PICK e \in EdgePtr : DeleteEdge(e)
    BY <1>7
  <2>2. CASE e \notin ToSet(edges)
    BY <1>3, <2>1, <2>2 DEF DeleteEdge, deleteEdge
  <2>3. CASE e \in ToSet(edges)
    <3>1. /\ edges' = DeleteFirst(edges, e)
          /\ edgesFrom' = [edgesFrom EXCEPT ![from[e]] = DeleteFunc(edgesFrom[from[e]], e)]
          /\ edgesTo' = [edgesTo EXCEPT ![to[e]] = DeleteFunc(edgesTo[to[e]], e)]
      BY <2>1, <2>3 DEF DeleteEdge, deleteEdge
    <3>2. \A n \in NodePtr : /\ edgesFrom'[n] \in {edgesFrom[n], DeleteFunc(edgesFrom[n], e)}
                             /\ edgesTo'[n] \in {edgesTo[n], DeleteFunc(edgesTo[n], e)}
      BY <1>1, <3>1
    <3> QED  BY <1>6, <2>3, <3>1, <3>2
  <2> QED  BY <2>2, <2>3
<1>8. CASE PurgeFromStep
  <2> DEFINE e == edgesFrom[cur][i]
  <2>1. e \in ToSet(edges) /\ cur \in NodePtr /\ i \in 1..Len(edgesFrom[cur])
    BY <1>8, PurgeFromStepEdge DEF EdgesOut
  <2>2. /\ edges' = DeleteFirst(edges, e)
        /\ edgesFrom' = [edgesFrom EXCEPT ![cur] = [edgesFrom[cur] EXCEPT ![i] = Nil]]
        /\ edgesTo' = [edgesTo EXCEPT ![to[e]] = DeleteFunc(edgesTo[to[e]], e)]
    BY <1>8, <2>1 DEF PurgeFromStep, deleteEdge
  <2> HIDE DEF e
  <2>3. \A n \in NodePtr :
            /\ \/ edgesFrom'[n] = edgesFrom[n]
               \/ n = cur /\ edgesFrom'[n] = [edgesFrom[n] EXCEPT ![i] = Nil]
            /\ edgesTo'[n] \in {edgesTo[n], DeleteFunc(edgesTo[n], e)}
    BY <1>1, <2>1, <2>2
  <2> QED  BY <1>6, <2>1, <2>2, <2>3
<1>9. CASE PurgeToStep
  <2> DEFINE e == edgesTo[cur][i]
  <2>1. e \in ToSet(edges) /\ cur \in NodePtr /\ i \in 1..Len(edgesTo[cur])
    BY <1>9, PurgeToStepEdge DEF EdgesIn
  <2>2. /\ edges' = DeleteFirst(edges, e)
        /\ edgesTo' = [edgesTo EXCEPT ![cur] = [edgesTo[cur] EXCEPT ![i] = Nil]]
        /\ edgesFrom' = [edgesFrom EXCEPT ![from[e]] = DeleteFunc(edgesFrom[from[e]], e)]
    BY <1>9, <2>1 DEF PurgeToStep, deleteEdge
  <2> HIDE DEF e
  <2>3. \A n \in NodePtr :
            /\ \/ edgesTo'[n] = edgesTo[n]
               \/ n = cur /\ edgesTo'[n] = [edgesTo[n] EXCEPT ![i] = Nil]
            /\ edgesFrom'[n] \in {edgesFrom[n], DeleteFunc(edgesFrom[n], e)}
    BY <1>1, <2>1, <2>2
  <2> QED  BY <1>6, <2>1, <2>2, <2>3
<1>10. CASE DeleteNodeEnd
  <2>1. /\ edges' = edges /\ edgesFrom' = [edgesFrom EXCEPT ![cur] = << >>]
        /\ edgesTo' = [edgesTo EXCEPT ![cur] = << >>]
    BY <1>10 DEF DeleteNodeEnd, graphVars
  <2>2. InOrder(<< >>, edges)
    BY DEF InOrder
  <2>3. \A n \in NodePtr : /\ edgesFrom'[n] \in {edgesFrom[n], << >>}
                           /\ edgesTo'[n] \in {edgesTo[n], << >>}
    BY <1>1, <2>1
  <2> QED  BY <1>2, <2>1, <2>2, <2>3 DEF AdjacencyOrder
<1>11. CASE \/ \E n \in Handle : DeleteNodeAbsent(n) \/ DeleteNodeStart(n)
            \/ PurgeFromDone \/ SortTopo \/ UNCHANGED vars
  <2>1. UNCHANGED <<edges, edgesFrom, edgesTo>>
    BY <1>11 DEF DeleteNodeAbsent, DeleteNodeStart, PurgeFromDone, SortTopo, vars,
                 graphVars, nodeVars
  <2> QED  BY <1>3, <2>1
<1> QED
  BY <1>4, <1>5, <1>7, <1>8, <1>9, <1>10, <1>11 DEF Next

-----------------------------------------------------------------------------
(* The theorems.                                                             *)

THEOREM GraphInvariant == Spec => []GraphInv
BY InitGraphInv, NextGraphInv, PTL DEF Spec

(* Every variable keeps to the Go type it stands for.                        *)
THEOREM TypeCorrect == Spec => []TypeOK
<1>1. GraphInv => TypeOK
  BY DEF GraphInv
<1> QED  BY <1>1, GraphInvariant, PTL

(* g.nodes and g.nodesById stay two views of one set (Nodes, Find).          *)
THEOREM NodesAreIndexed == Spec => []NodesIndexed
<1>1. GraphInv => NodesIndexed
  BY DEF GraphInv
<1> QED  BY <1>1, GraphInvariant, PTL

(* Every listed edge joins two distinct nodes and has its identity to itself. *)
THEOREM EdgesAreWired == Spec => []EdgesWired
<1>1. GraphInv => EdgesWired
  BY DEF GraphInv
<1> QED  BY <1>1, GraphInvariant, PTL

(* The adjacency lists hold exactly the edges of the graph (EdgesFrom,       *)
(* EdgesTo), also between two iterations of the loops of DeleteNode.         *)
THEOREM AdjacencyIsExact == Spec => []AdjacencyExact
<1>1. GraphInv => AdjacencyExact
  BY DEF GraphInv
<1> QED  BY <1>1, GraphInvariant, PTL

(* A key of edgesById leads to the edge it names, unless one of its nodes    *)
(* has been deleted.                                                         *)
THEOREM IndexIsLive == Spec => []IndexLive
<1>1. GraphInv => IndexLive
  BY DEF GraphInv
<1> QED  BY <1>1, GraphInvariant, PTL

(* FindEdge and AddEdge, asked about two nodes of the graph, see exactly the *)
(* edges of the graph.                                                       *)
THEOREM LiveIndexIsExact == Spec => []LiveIndexExact
BY LiveIndexFromInv, GraphInvariant, PTL

(* No edge of the graph leads out of it, if callers drop their pointers to   *)
(* the nodes they delete.                                                    *)
THEOREM EndpointsAreLive == Spec => []EndpointsLive
<1>1. Init => EndpointsLive
  <2>1. Init => ToSet(edges) = {}
    BY DEF Init, ToSet
  <2> QED  BY <2>1 DEF EndpointsLive
<1>2. GraphInv /\ GraphInv' /\ EndpointsLive /\ [Next]_vars => EndpointsLive'
  <2>1. ASSUME UNCHANGED vars, EndpointsLive PROVE EndpointsLive'
    BY <2>1 DEF vars, graphVars, edgeVars, loopVars, EndpointsLive
  <2> QED  BY <2>1, EndpointsStep
<1> QED  BY <1>1, <1>2, GraphInvariant, PTL DEF Spec

(* Each adjacency list has its edges in the order of g.edges, also between   *)
(* two iterations of the loops of DeleteNode.                                *)
THEOREM AdjacencyIsInOrder == Spec => []AdjacencyOrder
<1>1. Init => AdjacencyOrder
  <2> SUFFICES ASSUME Init PROVE AdjacencyOrder
    OBVIOUS
  <2>1. \A n \in NodePtr : edgesFrom[n] = << >> /\ edgesTo[n] = << >>
    BY DEF Init
  <2>2. InOrder(<< >>, edges)
    BY DEF InOrder
  <2> QED  BY <2>1, <2>2 DEF AdjacencyOrder
<1>2. GraphInv /\ AdjacencyOrder /\ [Next]_vars => AdjacencyOrder'
  BY OrderStep
<1> QED  BY <1>1, <1>2, GraphInvariant, PTL DEF Spec

-----------------------------------------------------------------------------
(* LilGraph implements PropertyGraph: each operation on the pointers, the     *)
(* collections and the adjacency lists is the one that the map in LilGraph    *)
(* says on the typed nodes and arcs.                                         *)

(* The edges that the abstract graph has an arc for.                         *)
Visible  == {e \in ToSet(edges) : InGraph(from[e]) /\ InGraph(to[e])}
ArcOf(e) == <<id[from[e]], id[to[e]], edgeTyp[e]>>

LEMMA ArcsAre == arcs = {ArcOf(e) : e \in Visible}
BY DEF arcs, ArcOf, Visible

-----------------------------------------------------------------------------
(* Nodes and their ids.                                                      *)

(* The map from ids to nodes of the graph is one to one.                     *)
LEMMA IdFacts ==
    ASSUME GraphInv
    PROVE  /\ \A n \in ToSet(nodes) : /\ n \in NodePtr /\ n # Nil
                                      /\ id[n] \in Id /\ id[n] \in ValidId
                                      /\ nodesById[id[n]] = n
                                      /\ typ[n] \in Type /\ typ[n] # Nil
           /\ \A x \in Id : nodesById[x] # Nil =>
                 nodesById[x] \in ToSet(nodes) /\ id[nodesById[x]] = x
<1>1. ToSet(nodes) \subseteq NodePtr
  BY ToSetOfSeq DEF GraphInv, TypeOK
<1>2. \A n \in ToSet(nodes) : id[n] \in ValidId /\ nodesById[id[n]] = n
  BY DEF GraphInv, NodesIndexed
<1>3. \A n \in NodePtr : typ[n] \in Type /\ typ[n] # Nil /\ n # Nil
  BY DataAssumption, NilIsNoPointer DEF GraphInv, TypeOK
<1>4. \A x \in Id : nodesById[x] # Nil =>
         nodesById[x] \in ToSet(nodes) /\ id[nodesById[x]] = x
  BY DEF GraphInv, NodesIndexed, InGraph
<1> QED  BY <1>1, <1>2, <1>3, <1>4, DataAssumption

LEMMA TypeOfFacts ==
    ASSUME GraphInv
    PROVE  /\ \A x \in Id : typeOf[x] = IF nodesById[x] = Nil THEN Nil
                                        ELSE typ[nodesById[x]]
           /\ \A x \in Id : x \in Abstract!Present <=> nodesById[x] # Nil
           /\ \A n \in ToSet(nodes) : id[n] \in Abstract!Present /\ typeOf[id[n]] = typ[n]
<1>1. \A x \in Id : typeOf[x] = IF nodesById[x] = Nil THEN Nil ELSE typ[nodesById[x]]
  BY DEF typeOf
<1>2. \A x \in Id : x \in Abstract!Present <=> nodesById[x] # Nil
  BY <1>1, IdFacts DEF Abstract!Present
<1> QED  BY <1>1, <1>2, IdFacts

(* What the abstract graph is unchanged by.                                  *)
LEMMA SameTypes ==
    ASSUME UNCHANGED <<nodesById, typ>>
    PROVE  typeOf' = typeOf
BY DEF typeOf

LEMMA SameArcs ==
    ASSUME Visible' = Visible, \A e \in Visible : ArcOf(e)' = ArcOf(e)
    PROVE  arcs' = arcs
<1>1. arcs' = {ArcOf(e)' : e \in Visible'}
  BY DEF arcs, ArcOf, Visible
<1>2. arcs = {ArcOf(e) : e \in Visible}
  BY ArcsAre
<1> QED  BY <1>1, <1>2

LEMMA SameGraph ==
    ASSUME ToSet(nodes)' = ToSet(nodes), ToSet(edges)' = ToSet(edges),
           UNCHANGED <<nodesById, id, typ, from, to, edgeTyp>>
    PROVE  UNCHANGED <<typeOf, arcs>>
BY DEF typeOf, arcs, InGraph

-----------------------------------------------------------------------------
LEMMA InitMaps == Init => Abstract!Init
<1> SUFFICES ASSUME Init PROVE Abstract!Init
  OBVIOUS
<1>1. typeOf = [x \in Id |-> Nil]
  BY DEF Init, typeOf
<1>2. arcs = {}
  <2>1. ToSet(edges) = {}
    BY DEF Init, ToSet
  <2> QED  BY <2>1 DEF arcs
<1>3. result = "none"
  BY DEF Init, result
<1> QED  BY <1>1, <1>2, <1>3 DEF Abstract!Init

(* AddNode is Upsert.                                                        *)
LEMMA AddNodeMaps ==
    ASSUME GraphInv, NEW x \in Id, NEW t \in Type, AddNode(x, t)
    PROVE  Abstract!Upsert(x, t)
<1>1. pc = "idle" /\ pc' = "idle" /\ result' = ret'
  BY DEF AddNode, AddNodeInvalid, AddNodeTypeChange, AddNodeExisting, AddNodeNew,
         loopVars, result
<1>2. CASE AddNodeInvalid(x, t)
  <2>1. UNCHANGED <<typeOf, arcs>> /\ result' = "ErrInvalidId" /\ x \notin ValidId
    BY <1>1, <1>2, SameGraph DEF AddNodeInvalid, graphVars, nodeVars, edgeVars
  <2> QED  BY <2>1 DEF Abstract!Upsert
<1>3. CASE AddNodeTypeChange(x, t)
  <2>1. UNCHANGED <<typeOf, arcs>> /\ result' = "ErrTypeChange"
    BY <1>1, <1>3, SameGraph DEF AddNodeTypeChange, graphVars, nodeVars, edgeVars
  <2>2. x \in ValidId /\ x \in Abstract!Present
    BY <1>3, TypeOfFacts DEF AddNodeTypeChange
  <2>3. ~(typeOf[x] \in {t, Untyped} \/ t = Untyped)
    BY <1>3, TypeOfFacts DEF AddNodeTypeChange, TypeConflict
  <2> QED  BY <2>1, <2>2, <2>3 DEF Abstract!Upsert
<1>4. CASE AddNodeExisting(x, t)
  <2>1. /\ x \in ValidId /\ nodesById[x] # Nil /\ ~TypeConflict(nodesById[x], t)
        /\ typ' = IF t = Untyped THEN typ ELSE [typ EXCEPT ![nodesById[x]] = t]
        /\ ret' = "node_existed"
        /\ UNCHANGED <<nodes, edges, nodesById, id, from, to, edgeTyp>>
    BY <1>4 DEF AddNodeExisting, graphVars, edgeVars
  <2>2. arcs' = arcs
    BY <2>1 DEF arcs, InGraph
  <2>3. x \in Abstract!Present /\ (typeOf[x] \in {t, Untyped} \/ t = Untyped)
    BY <2>1, TypeOfFacts DEF TypeConflict
  <2>4. typeOf' = IF t # Untyped THEN [typeOf EXCEPT ![x] = t] ELSE typeOf
    <3>1. CASE t = Untyped
      BY <2>1, <3>1, SameTypes
    <3>2. CASE t # Untyped
      <4>1. typ' = [typ EXCEPT ![nodesById[x]] = t] /\ nodesById' = nodesById
        BY <2>1, <3>2
      <4>2. nodesById[x] \in NodePtr /\ DOMAIN typ = NodePtr
        BY <2>1, IdFacts DEF GraphInv, TypeOK
      <4>3. typeOf' = [y \in Id |-> IF nodesById[y] = Nil THEN Nil ELSE typ'[nodesById[y]]]
        BY <4>1 DEF typeOf
      <4>4. \A y \in Id : nodesById[y] # Nil => nodesById[y] \in NodePtr
        BY IdFacts
      <4>5. \A y \in Id : nodesById[y] = nodesById[x] => y = x
        BY <2>1, IdFacts
      <4>6. typeOf = [y \in Id |-> typeOf[y]]
        BY DEF typeOf
      <4>7. \A y \in Id : typeOf'[y] = IF y = x THEN t ELSE typeOf[y]
        BY <2>1, <4>1, <4>2, <4>3, <4>4, <4>5, TypeOfFacts
      <4> QED  BY <3>2, <4>3, <4>6, <4>7
    <3> QED  BY <3>1, <3>2
  <2> QED  BY <1>1, <2>1, <2>2, <2>3, <2>4 DEF Abstract!Upsert
<1>5. CASE AddNodeNew(x, t)
  <2>1. PICK n \in NodePtr : /\ ~NodeExists(n)
                             /\ id' = [id EXCEPT ![n] = x]
                             /\ typ' = [typ EXCEPT ![n] = t]
                             /\ nodes' = Append(nodes, n)
                             /\ nodesById' = [nodesById EXCEPT ![x] = n]
    BY <1>5 DEF AddNodeNew
  <2>2. /\ x \in ValidId /\ nodesById[x] = Nil /\ ret' = "node_new"
        /\ UNCHANGED <<edges, from, to, edgeTyp>>
    BY <1>5 DEF AddNodeNew, edgeVars
  <2>3. ToSet(nodes') = ToSet(nodes) \cup {n} /\ n \notin ToSet(nodes) /\ n # Nil
    <3>1. ToSet(Append(nodes, n)) = ToSet(nodes) \cup {n}
      BY AppendFacts DEF GraphInv, TypeOK
    <3>2. n \notin ToSet(nodes)
      BY <2>1, IdFacts, DataAssumption DEF NodeExists
    <3> QED  BY <2>1, <3>1, <3>2, NilIsNoPointer
  <2>4. arcs' = arcs
    <3>1. \A e \in ToSet(edges) : /\ from[e] \in NodePtr /\ from[e] # n
                                  /\ to[e] \in NodePtr /\ to[e] # n
      BY <2>1 DEF GraphInv, EdgesWired
    <3>2. Visible' = Visible
      BY <2>2, <2>3, <3>1 DEF Visible, InGraph
    <3>3. DOMAIN id = NodePtr
      BY DEF GraphInv, TypeOK
    <3>4. \A e \in Visible : ArcOf(e)' = ArcOf(e)
      BY <2>1, <2>2, <3>1, <3>3 DEF Visible, ArcOf
    <3> QED  BY <3>2, <3>4, SameArcs
  <2>5. x \notin Abstract!Present
    BY <2>2, TypeOfFacts
  <2>6. typeOf' = [typeOf EXCEPT ![x] = t]
    <3>1. typeOf' = [y \in Id |-> IF nodesById'[y] = Nil THEN Nil ELSE typ'[nodesById'[y]]]
      BY DEF typeOf
    <3>2. DOMAIN nodesById = Id /\ DOMAIN typ = NodePtr
      BY DEF GraphInv, TypeOK
    <3>3. \A y \in Id : nodesById[y] # Nil => nodesById[y] \in NodePtr /\ nodesById[y] # n
      BY <2>3, IdFacts
    <3>4. \A y \in Id : typeOf'[y] = IF y = x THEN t ELSE typeOf[y]
      BY <2>1, <2>3, <3>1, <3>2, <3>3, TypeOfFacts
    <3>5. typeOf = [y \in Id |-> typeOf[y]]
      BY DEF typeOf
    <3> QED  BY <3>1, <3>4, <3>5
  <2> QED  BY <1>1, <2>2, <2>4, <2>5, <2>6 DEF Abstract!Upsert
<1> QED  BY <1>2, <1>3, <1>4, <1>5 DEF AddNode

-----------------------------------------------------------------------------
(* Edges and their arcs.                                                     *)

(* Two visible edges with the same arc are one edge.                         *)
LEMMA ArcFacts ==
    ASSUME GraphInv
    PROVE  /\ \A e \in Visible : /\ e \in EdgePtr /\ e \in ToSet(edges)
                                 /\ from[e] \in ToSet(nodes) /\ to[e] \in ToSet(nodes)
                                 /\ edgeTyp[e] \in Type
           /\ \A d, e \in Visible : ArcOf(d) = ArcOf(e) => d = e
           /\ \A f, t \in ToSet(nodes), ty \in Type :
                 <<id[f], id[t], ty>> \in arcs <=> edgesById[<<f, t, ty>>] # Nil
<1>1. ASSUME NEW e \in Visible
      PROVE  /\ e \in EdgePtr /\ e \in ToSet(edges)
             /\ from[e] \in ToSet(nodes) /\ to[e] \in ToSet(nodes)
             /\ edgeTyp[e] \in Type
             /\ edgesById[<<from[e], to[e], edgeTyp[e]>>] = e /\ e # Nil
  BY KeysDiffer DEF Visible, InGraph
<1>2. \A m, n \in ToSet(nodes) : id[m] = id[n] => m = n
  BY IdFacts
<1>3. ASSUME NEW d \in Visible, NEW e \in Visible, ArcOf(d) = ArcOf(e)
      PROVE  d = e
  <2>1. id[from[d]] = id[from[e]] /\ id[to[d]] = id[to[e]] /\ edgeTyp[d] = edgeTyp[e]
    BY <1>3 DEF ArcOf
  <2>2. from[d] = from[e] /\ to[d] = to[e]
    BY <1>1, <1>2, <2>1
  <2> QED  BY <1>1, <2>1, <2>2
<1>4. ASSUME NEW f \in ToSet(nodes), NEW t \in ToSet(nodes), NEW ty \in Type
      PROVE  <<id[f], id[t], ty>> \in arcs <=> edgesById[<<f, t, ty>>] # Nil
  <2>1. ASSUME <<id[f], id[t], ty>> \in arcs
        PROVE  edgesById[<<f, t, ty>>] # Nil
    <3>1. PICK e \in Visible : ArcOf(e) = <<id[f], id[t], ty>>
      BY <2>1, ArcsAre
    <3>2. id[from[e]] = id[f] /\ id[to[e]] = id[t] /\ edgeTyp[e] = ty
      BY <3>1 DEF ArcOf
    <3>3. from[e] = f /\ to[e] = t
      BY <1>1, <1>2, <3>2
    <3> QED  BY <1>1, <3>2, <3>3
  <2>2. ASSUME edgesById[<<f, t, ty>>] # Nil
        PROVE  <<id[f], id[t], ty>> \in arcs
    <3>1. <<f, t, ty>> \in EdgeIdentity
      BY IdFacts DEF EdgeIdentity, Ptr
    <3>2. PICK e \in EdgePtr : edgesById[<<f, t, ty>>] = e
      BY <2>2, <3>1 DEF GraphInv, TypeOK
    <3>3. e \in ToSet(edges) /\ from[e] = f /\ to[e] = t /\ edgeTyp[e] = ty
      BY <3>2, LiveIndexFromInv DEF LiveIndexExact
    <3>4. e \in Visible /\ ArcOf(e) = <<id[f], id[t], ty>>
      BY <3>3 DEF Visible, InGraph, ArcOf
    <3> QED  BY <3>4, ArcsAre
  <2> QED  BY <2>1, <2>2
<1> QED  BY <1>1, <1>3, <1>4

(* AddEdge between two nodes of the graph is Connect.  With a deleted node   *)
(* at one end it changes nothing that the abstract graph has.                *)
LEMMA AddEdgeMaps ==
    ASSUME GraphInv, NEW f \in Handle, NEW t \in Handle, NEW ty \in Type,
           AddEdge(f, t, ty)
    PROVE  \/ \E x, y \in Abstract!Present : Abstract!Connect(x, y, ty)
           \/ Abstract!Detached
<1>1. /\ pc = "idle" /\ result' = ret'
      /\ typeOf' = typeOf
      /\ UNCHANGED <<nodes, id>>
  <2>1. pc = "idle" /\ pc' = "idle" /\ UNCHANGED <<nodesById, typ, nodes, id>>
    BY DEF AddEdge, AddEdgeLoop, AddEdgeExisting, AddEdgeNew, loopVars, graphVars, nodeVars
  <2> QED  BY <2>1, SameTypes DEF result
<1>2. /\ AddEdgeLoop(f, t, ty) \/ AddEdgeExisting(f, t, ty) => arcs' = arcs
      /\ ret' \in {"edge_new", "edge_existed", "ErrLoop"}
  BY SameGraph DEF AddEdge, AddEdgeLoop, AddEdgeExisting, AddEdgeNew,
                   graphVars, nodeVars, edgeVars
<1>3. ASSUME AddEdgeNew(f, t, ty)
      PROVE  arcs' = IF InGraph(f) /\ InGraph(t)
                     THEN arcs \cup {<<id[f], id[t], ty>>} ELSE arcs
  <2>1. PICK e \in EdgePtr : /\ ~EdgeExists(e)
                             /\ from' = [from EXCEPT ![e] = f]
                             /\ to' = [to EXCEPT ![e] = t]
                             /\ edgeTyp' = [edgeTyp EXCEPT ![e] = ty]
                             /\ edges' = Append(edges, e)
    BY <1>3 DEF AddEdgeNew
  <2>2. ToSet(edges') = ToSet(edges) \cup {e} /\ e \notin ToSet(edges)
    <3>1. ToSet(Append(edges, e)) = ToSet(edges) \cup {e}
      BY AppendFacts DEF GraphInv, TypeOK
    <3>2. e \notin ToSet(edges)
      BY <2>1 DEF GraphInv, EdgesWired
    <3> QED  BY <2>1, <3>1, <3>2
  <2>3. DOMAIN from = EdgePtr /\ DOMAIN to = EdgePtr /\ DOMAIN edgeTyp = EdgePtr
    BY DEF GraphInv, TypeOK
  <2>4. Visible' = IF InGraph(f) /\ InGraph(t) THEN Visible \cup {e} ELSE Visible
    BY <1>1, <2>1, <2>2, <2>3 DEF Visible, InGraph
  <2>5. \A d \in Visible : ArcOf(d)' = ArcOf(d)
    BY <1>1, <2>1, <2>2, <2>3 DEF Visible, ArcOf
  <2>6. ArcOf(e)' = <<id[f], id[t], ty>>
    BY <1>1, <2>1, <2>3 DEF ArcOf
  <2>7. arcs' = {ArcOf(d)' : d \in Visible'}
    BY DEF arcs, ArcOf, Visible
  <2> QED  BY <2>4, <2>5, <2>6, <2>7, ArcsAre
<1>4. CASE InGraph(f) /\ InGraph(t)
  <2>1. /\ f \in ToSet(nodes) /\ t \in ToSet(nodes)
        /\ id[f] \in Abstract!Present /\ id[t] \in Abstract!Present
        /\ id[f] = id[t] <=> f = t
        /\ <<id[f], id[t], ty>> \in arcs <=> edgesById[<<f, t, ty>>] # Nil
    <3>1. f \in ToSet(nodes) /\ t \in ToSet(nodes)
      BY <1>4 DEF InGraph
    <3> QED  BY <3>1, TypeOfFacts, IdFacts, ArcFacts
  <2>2. CASE AddEdgeLoop(f, t, ty)
    BY <1>1, <1>2, <2>1, <2>2 DEF AddEdgeLoop, Abstract!Connect
  <2>3. CASE AddEdgeExisting(f, t, ty)
    <3>1. f # t /\ ret' = "edge_existed" /\ <<id[f], id[t], ty>> \in arcs /\ arcs' = arcs
      BY <1>2, <2>1, <2>3 DEF AddEdgeExisting
    <3> QED  BY <1>1, <2>1, <3>1 DEF Abstract!Connect
  <2>4. CASE AddEdgeNew(f, t, ty)
    <3>1. /\ f # t /\ ret' = "edge_new" /\ <<id[f], id[t], ty>> \notin arcs
          /\ arcs' = arcs \cup {<<id[f], id[t], ty>>}
      BY <1>3, <1>4, <2>1, <2>4 DEF AddEdgeNew
    <3> QED  BY <1>1, <2>1, <3>1 DEF Abstract!Connect
  <2> QED  BY <2>2, <2>3, <2>4 DEF AddEdge
<1>5. CASE ~(InGraph(f) /\ InGraph(t))
  <2>1. StaleHandles
    BY <1>5 DEF Handle
  <2>2. arcs' = arcs
    BY <1>2, <1>3, <1>5 DEF AddEdge
  <2> QED  BY <1>1, <1>2, <2>1, <2>2 DEF Abstract!Detached
<1> QED  BY <1>4, <1>5

(* The arcs of a step that takes an edge out of g.edges and leaves the ends  *)
(* of the others.                                                            *)
LEMMA DropArc ==
    ASSUME GraphInv, NEW e \in ToSet(edges), edges' = DeleteFirst(edges, e),
           UNCHANGED <<nodes, id, edgeTyp>>,
           \A d \in EdgePtr : d # e => from'[d] = from[d] /\ to'[d] = to[d]
    PROVE  /\ Visible' = Visible \ {e}
           /\ arcs' = {ArcOf(d) : d \in Visible \ {e}}
<1>1. ToSet(edges') = ToSet(edges) \ {e} /\ ToSet(edges) \subseteq EdgePtr
  BY DeleteFirstProperties, ToSetOfSeq DEF GraphInv, TypeOK, EdgesWired
<1>2. Visible' = Visible \ {e}
  BY <1>1 DEF Visible, InGraph
<1>3. \A d \in Visible \ {e} : ArcOf(d)' = ArcOf(d)
  BY <1>1 DEF Visible, ArcOf
<1>4. arcs' = {ArcOf(d)' : d \in Visible'}
  BY DEF arcs, ArcOf, Visible
<1> QED  BY <1>2, <1>3, <1>4

(* DeleteEdge is Disconnect, if the edge is still there and the graph has    *)
(* both its ends.                                                            *)
LEMMA DeleteEdgeMaps ==
    ASSUME GraphInv, EndpointsLive, NEW e \in EdgePtr, DeleteEdge(e)
    PROVE  \/ \E a \in arcs : Abstract!Disconnect(a)
           \/ Abstract!Absent \/ Abstract!Detached
<1>1. /\ pc = "idle" /\ result' = ret' /\ typeOf' = typeOf
      /\ UNCHANGED <<nodes, nodesById, id, typ, from, to, edgeTyp>>
  <2>1. pc = "idle" /\ pc' = "idle"
        /\ UNCHANGED <<nodes, nodesById, id, typ, from, to, edgeTyp>>
    BY DEF DeleteEdge, loopVars, edgeVars
  <2> QED  BY <2>1, SameTypes DEF result
<1>2. CASE e \notin ToSet(edges)
  <2>1. ret' = "absent" /\ edges' = edges
    BY <1>2 DEF DeleteEdge, deleteEdge
  <2> QED  BY <1>1, <2>1, SameGraph DEF Abstract!Absent
<1>3. CASE e \in ToSet(edges)
  <2>1. ret' = "edge_deleted" /\ edges' = DeleteFirst(edges, e)
    BY <1>3 DEF DeleteEdge, deleteEdge
  <2>2. arcs' = {ArcOf(d) : d \in Visible \ {e}}
    BY <1>1, <1>3, <2>1, DropArc
  <2>3. CASE e \in Visible
    <3>1. ArcOf(e) \in arcs /\ arcs' = arcs \ {ArcOf(e)}
      BY <2>2, <2>3, ArcsAre, ArcFacts
    <3> QED  BY <1>1, <2>1, <3>1 DEF Abstract!Disconnect
  <2>4. CASE e \notin Visible
    <3>1. StaleHandles
      <4>1. cur = Nil /\ from[e] # Nil /\ to[e] # Nil
        BY <1>1, <1>3, KeysDiffer, NilIsNoPointer DEF GraphInv, TypeOK
      <4> QED  BY <1>3, <2>4, <4>1 DEF EndpointsLive, Visible, InGraph
    <3>2. arcs' = arcs
      BY <2>2, <2>4, ArcsAre
    <3> QED  BY <1>1, <2>1, <3>1, <3>2 DEF Abstract!Detached
  <2> QED  BY <2>3, <2>4
<1> QED  BY <1>2, <1>3

-----------------------------------------------------------------------------
(* DeleteNode.                                                               *)

(* Its first step is Remove: from then on the node's edges have no arc.      *)
LEMMA DeleteNodeMaps ==
    ASSUME GraphInv, NEW n \in Handle, DeleteNodeAbsent(n) \/ DeleteNodeStart(n)
    PROVE  (\E x \in Abstract!Present : Abstract!Remove(x)) \/ Abstract!Absent
<1>1. CASE DeleteNodeAbsent(n)
  <2>1. UNCHANGED <<typeOf, arcs>>
    BY <1>1, SameGraph DEF DeleteNodeAbsent, graphVars, nodeVars, edgeVars
  <2>2. result' = "absent"
    BY <1>1 DEF DeleteNodeAbsent, loopVars, result
  <2> QED  BY <2>1, <2>2 DEF Abstract!Absent
<1>2. CASE DeleteNodeStart(n)
  <2>1. /\ n \in ToSet(nodes) /\ nodes' = DeleteFirst(nodes, n)
        /\ nodesById' = [nodesById EXCEPT ![id[n]] = Nil]
        /\ pc' = "purgeFrom"
        /\ UNCHANGED <<edges, id, typ, from, to, edgeTyp>>
    BY <1>2 DEF DeleteNodeStart, InGraph, nodeVars, edgeVars
  <2>2. ToSet(nodes') = ToSet(nodes) \ {n}
    BY <2>1, DeleteFirstProperties DEF GraphInv, TypeOK, NodesIndexed
  <2>3. result' = "node_deleted"
    BY <2>1 DEF result
  <2>4. typeOf' = [typeOf EXCEPT ![id[n]] = Nil]
    <3>1. typeOf' = [y \in Id |-> IF nodesById'[y] = Nil THEN Nil ELSE typ[nodesById'[y]]]
      BY <2>1 DEF typeOf
    <3>2. DOMAIN nodesById = Id /\ id[n] \in Id
      BY <2>1, IdFacts DEF GraphInv, TypeOK
    <3>3. \A y \in Id : typeOf'[y] = IF y = id[n] THEN Nil ELSE typeOf[y]
      BY <2>1, <3>1, <3>2, TypeOfFacts
    <3>4. typeOf = [y \in Id |-> typeOf[y]]
      BY DEF typeOf
    <3> QED  BY <3>1, <3>3, <3>4
  <2>5. arcs' = {a \in arcs : id[n] \notin {a[1], a[2]}}
    <3>1. Visible' = {e \in Visible : from[e] # n /\ to[e] # n}
      BY <2>1, <2>2 DEF Visible, InGraph
    <3>2. arcs' = {ArcOf(e)' : e \in Visible'}
      BY DEF arcs, ArcOf, Visible
    <3>3. \A e : ArcOf(e)' = ArcOf(e) /\ ArcOf(e)[1] = id[from[e]] /\ ArcOf(e)[2] = id[to[e]]
      BY <2>1 DEF ArcOf
    <3>4. \A e \in Visible : /\ id[from[e]] = id[n] <=> from[e] = n
                             /\ id[to[e]] = id[n] <=> to[e] = n
      BY <2>1, ArcFacts, IdFacts
    <3>5. \A e \in Visible : e \in Visible' <=> id[n] \notin {ArcOf(e)[1], ArcOf(e)[2]}
      BY <3>1, <3>3, <3>4
    <3>6. arcs' = {ArcOf(e) : e \in Visible'} /\ Visible' \subseteq Visible
      BY <3>1, <3>2, <3>3
    <3> QED  BY <3>5, <3>6, ArcsAre
  <2>6. id[n] \in Abstract!Present
    BY <2>1, TypeOfFacts
  <2> QED  BY <2>3, <2>4, <2>5, <2>6 DEF Abstract!Remove
<1> QED  BY <1>1, <1>2

(* The loops take edges that have no arc any more, and the return of the     *)
(* call gives the answer that the abstract step has given.                   *)
LEMMA PurgeMaps ==
    ASSUME GraphInv,
           PurgeFromStep \/ PurgeFromDone \/ PurgeToStep \/ DeleteNodeEnd
    PROVE  UNCHANGED <<typeOf, arcs, result>>
<1>1. ASSUME NEW e \in ToSet(edges), from[e] = cur \/ to[e] = cur, ~InGraph(cur),
             edges' = DeleteFirst(edges, e), UNCHANGED <<nodes, id, edgeTyp>>,
             \A d \in EdgePtr : d # e => from'[d] = from[d] /\ to'[d] = to[d]
      PROVE  arcs' = arcs
  <2>1. arcs' = {ArcOf(d) : d \in Visible \ {e}}
    BY <1>1, DropArc
  <2>2. e \notin Visible
    BY <1>1 DEF Visible
  <2> QED  BY <2>1, <2>2, ArcsAre
<1>2. CASE PurgeFromStep
  <2>1. edgesFrom[cur][i] \in EdgesOut(cur) /\ pc = "purgeFrom"
    BY <1>2, PurgeFromStepEdge
  <2>2. PICK e \in ToSet(edges) : e = edgesFrom[cur][i] /\ from[e] = cur
    BY <2>1 DEF EdgesOut
  <2>3. /\ edges' = DeleteFirst(edges, e) /\ from' = [from EXCEPT ![e] = Nil]
        /\ UNCHANGED <<nodes, nodesById, id, typ, to, edgeTyp, pc, cur, ret>>
    BY <1>2, <2>2 DEF PurgeFromStep, deleteEdge
  <2>4. ~InGraph(cur)
    BY <2>1, PurgeLists
  <2>5. \A d \in EdgePtr : d # e => from'[d] = from[d] /\ to'[d] = to[d]
    BY <2>3 DEF GraphInv, TypeOK
  <2>6. arcs' = arcs
    BY <1>1, <2>2, <2>3, <2>4, <2>5
  <2> QED  BY <2>3, <2>6, SameTypes DEF result
<1>3. CASE PurgeToStep
  <2>1. edgesTo[cur][i] \in EdgesIn(cur) /\ pc = "purgeTo"
    BY <1>3, PurgeToStepEdge
  <2>2. PICK e \in ToSet(edges) : e = edgesTo[cur][i] /\ to[e] = cur
    BY <2>1 DEF EdgesIn
  <2>3. /\ edges' = DeleteFirst(edges, e) /\ to' = [to EXCEPT ![e] = Nil]
        /\ UNCHANGED <<nodes, nodesById, id, typ, from, edgeTyp, pc, cur, ret>>
    BY <1>3, <2>2 DEF PurgeToStep, deleteEdge
  <2>4. ~InGraph(cur)
    BY <2>1, PurgeLists
  <2>5. \A d \in EdgePtr : d # e => from'[d] = from[d] /\ to'[d] = to[d]
    BY <2>3 DEF GraphInv, TypeOK
  <2>6. arcs' = arcs
    BY <1>1, <2>2, <2>3, <2>4, <2>5
  <2> QED  BY <2>3, <2>6, SameTypes DEF result
<1>4. CASE PurgeFromDone
  <2>1. UNCHANGED <<typeOf, arcs>>
    BY <1>4, SameGraph DEF PurgeFromDone, graphVars, nodeVars, edgeVars
  <2> QED  BY <1>4, <2>1 DEF PurgeFromDone, result
<1>5. CASE DeleteNodeEnd
  <2>1. UNCHANGED <<typeOf, arcs>>
    BY <1>5, SameGraph DEF DeleteNodeEnd, graphVars, edgeVars
  <2> QED  BY <1>5, <2>1 DEF DeleteNodeEnd, result
<1> QED  BY <1>2, <1>3, <1>4, <1>5

-----------------------------------------------------------------------------
(* SortTopo.                                                                 *)

(* A walk as long as there are nodes runs into a cycle.                      *)
LEMMA LongWalk ==
    ASSUME NEW A, A \subseteq NodePtr,
           NEW next, \A n \in NodePtr : next[n] \subseteq NodePtr,
           Level(A, next, Cardinality(NodePtr)) # {}
    PROVE  \E C \in SUBSET NodePtr : C # {} /\ \A n \in C : next[n] \cap C # {}
<1>1. /\ IsFiniteSet(NodePtr) /\ A \in SUBSET NodePtr
      /\ \A n \in NodePtr : next[n] \subseteq NodePtr
      /\ Level(A, next, Cardinality(NodePtr)) # {}
  BY PointerAssumption
<1> QED  BY <1>1, LongWalkIsCyclic

(* A set of nodes each with an edge into the set is a cycle of ids.          *)
LEMMA CycleOfNodes ==
    ASSUME GraphInv, EndpointsLive, ~StaleHandles, pc = "idle",
           NEW C \in SUBSET NodePtr, C # {},
           \A n \in C : succ[n] \cap C # {}
    PROVE  Abstract!Cyclic
<1>1. ASSUME NEW n \in C
      PROVE  \E e \in Visible : from[e] = n /\ to[e] \in C
  <2>1. PICK m \in C : m \in {to[e] : e \in ToSet(edgesFrom[n])}
    BY DEF succ
  <2>2. PICK e \in ToSet(edgesFrom[n]) : to[e] = m
    BY <2>1
  <2>3. PICK list \in Seq(EdgeSlot) : list = edgesFrom[n] /\ Lists(list, 0, EdgesOut(n))
    BY IdleLists
  <2>4. PICK j \in 1..Len(list) : list[j] = e
    BY <2>2, <2>3, ToSetOfSeq
  <2>5. e \in ToSet(edges) /\ from[e] = n
    BY <2>3, <2>4 DEF Lists, EdgesOut
  <2>6. cur = Nil /\ from[e] # Nil /\ to[e] # Nil
    BY <2>5, KeysDiffer, NilIsNoPointer DEF GraphInv, TypeOK
  <2>7. e \in Visible
    BY <2>5, <2>6 DEF EndpointsLive, Visible, InGraph
  <2> QED  BY <2>2, <2>5, <2>7
<1>2. C \subseteq ToSet(nodes)
  BY <1>1, ArcFacts
<1> DEFINE S == {id[n] : n \in C}
<1>3. S \in SUBSET Abstract!Present /\ S # {}
  BY <1>2, TypeOfFacts
<1>4. ASSUME NEW x \in S
      PROVE  \E a \in arcs : a[1] = x /\ a[2] \in S
  <2>1. PICK n \in C : id[n] = x
    OBVIOUS
  <2>2. PICK e \in Visible : from[e] = n /\ to[e] \in C
    BY <1>1
  <2>3. ArcOf(e) \in arcs
    BY ArcsAre
  <2>4. ArcOf(e)[1] = x /\ ArcOf(e)[2] \in S
    BY <2>1, <2>2 DEF ArcOf
  <2> QED  BY <2>3, <2>4
<1> QED  BY <1>3, <1>4 DEF Abstract!Cyclic

(* The two ways in which SortTopo reports a cycle: every node has an edge to *)
(* it, or a walk is longer than there are nodes.  Either way there is one.   *)
LEMMA ReportIsRight ==
    ASSUME GraphInv, EndpointsLive, ~StaleHandles, pc = "idle", nodes # << >>,
           Apexes = {} \/ WalkRepeats(NodePtr, Apexes, succ)
    PROVE  Abstract!Cyclic
<1>1. /\ ToSet(nodes) \subseteq NodePtr /\ IsFiniteSet(NodePtr) /\ IsFiniteSet(ToSet(nodes))
      /\ ToSet(nodes) # {}
  <2>1. nodes \in Seq(NodePtr)
    BY DEF GraphInv, TypeOK
  <2>2. ToSet(nodes) \subseteq NodePtr
    BY <2>1, ToSetOfSeq
  <2>3. Len(nodes) \in Nat /\ Len(nodes) # 0
    BY <2>1
  <2>4. nodes[1] \in ToSet(nodes)
    BY <2>1, <2>3, ToSetOfSeq
  <2> QED  BY <2>2, <2>4, PointerAssumption, FS_Subset
<1>2. \A n \in NodePtr : \A e \in EdgesOut(n) : to[e] \in succ[n]
  <2> SUFFICES ASSUME NEW n \in NodePtr, NEW e \in EdgesOut(n)
               PROVE  to[e] \in succ[n]
    OBVIOUS
  <2>1. e \in ToSet(edgesFrom[n])
    BY IdleLists DEF Lists
  <2> QED  BY <2>1 DEF succ
<1>3. CASE Apexes = {}
  <2>1. ASSUME NEW n \in ToSet(nodes)
        PROVE  \E m \in ToSet(nodes) : n \in succ[m]
    <3>1. PICK list \in Seq(EdgeSlot) : list = edgesTo[n] /\ Lists(list, 0, EdgesIn(n))
      BY <1>1, IdleLists
    <3>2. list # << >>
      BY <1>3, <3>1 DEF Apexes
    <3>3. 1 \in 1..Len(list)
      BY <3>2
    <3>4. PICK e \in EdgesIn(n) : list[1] = e
      BY <3>1, <3>3 DEF Lists
    <3>5. /\ e \in ToSet(edges) /\ to[e] = n /\ from[e] \in NodePtr /\ from[e] # Nil
          /\ e \in EdgesOut(from[e]) /\ cur = Nil
      BY <3>4, KeysDiffer, NilIsNoPointer DEF EdgesIn, EdgesOut, GraphInv, TypeOK
    <3>6. from[e] \in ToSet(nodes)
      BY <3>5 DEF EndpointsLive
    <3> QED  BY <1>2, <3>5, <3>6
  <2>2. \E C \in SUBSET ToSet(nodes) : C # {} /\ \A n \in C : succ[n] \cap C # {}
    BY <1>1, <2>1, BackwardsIsCyclic
  <2> QED  BY <1>1, <2>2, CycleOfNodes
<1>4. CASE WalkRepeats(NodePtr, Apexes, succ)
  <2>1. Level(Apexes, succ, Cardinality(NodePtr)) # {}
    BY <1>4 DEF WalkRepeats
  <2>2. Apexes \subseteq NodePtr
    BY <1>1 DEF Apexes
  <2>3. \A n \in NodePtr : succ[n] \subseteq NodePtr
    <3> SUFFICES ASSUME NEW n \in NodePtr, NEW m \in succ[n] PROVE m \in NodePtr
      OBVIOUS
    <3>1. PICK list \in Seq(EdgeSlot) : list = edgesFrom[n] /\ Lists(list, 0, EdgesOut(n))
      BY IdleLists
    <3>2. PICK e \in ToSet(list) : m = to[e]
      BY <3>1 DEF succ
    <3>3. PICK j \in 1..Len(list) : list[j] = e
      BY ToSetOfSeq
    <3>4. e \in ToSet(edges)
      BY <3>1, <3>3 DEF Lists, EdgesOut
    <3> QED  BY <3>2, <3>4, KeysDiffer
  <2>4. \E C \in SUBSET NodePtr : C # {} /\ \A n \in C : succ[n] \cap C # {}
    BY <2>1, <2>2, <2>3, LongWalk
  <2> QED  BY <2>4, CycleOfNodes
<1> QED  BY <1>3, <1>4

LEMMA SortTopoMaps ==
    ASSUME GraphInv, EndpointsLive, SortTopo
    PROVE  Abstract!Sort
<1>1. /\ pc = "idle" /\ result' = ret' /\ ret' \in {"sorted", "ErrCyclic"}
      /\ ret' = "ErrCyclic" =>
            nodes # << >> /\ (Apexes = {} \/ WalkRepeats(NodePtr, Apexes, succ))
      /\ UNCHANGED <<edges, nodesById, id, typ, from, to, edgeTyp>>
  BY DEF SortTopo, loopVars, nodeVars, edgeVars, result
<1>2. UNCHANGED <<typeOf, arcs>>
  BY <1>1, SortTopoNodes, SameGraph
<1>3. ret' = "ErrCyclic" => Abstract!Cyclic \/ StaleHandles
  BY <1>1, ReportIsRight
<1> QED  BY <1>1, <1>2, <1>3 DEF Abstract!Sort

-----------------------------------------------------------------------------
(* Every step of LilGraph is a step of the abstract graph, or changes        *)
(* nothing that it has.                                                      *)
LEMMA NextMaps ==
    GraphInv /\ EndpointsLive /\ [Next]_vars => [Abstract!Next]_(Abstract!vars)
<1> SUFFICES ASSUME GraphInv, EndpointsLive, [Next]_vars
             PROVE  Abstract!Next \/ UNCHANGED <<typeOf, arcs, result>>
  BY DEF Abstract!vars
<1>1. CASE \E x \in Id, t \in Type : AddNode(x, t)
  BY <1>1, AddNodeMaps DEF Abstract!Next
<1>2. CASE \E f, t \in Handle, ty \in Type : AddEdge(f, t, ty)
  BY <1>2, AddEdgeMaps DEF Abstract!Next
<1>3. CASE \E e \in EdgePtr : EdgeExists(e) /\ DeleteEdge(e)
  BY <1>3, DeleteEdgeMaps DEF Abstract!Next
<1>4. CASE \E n \in Handle : DeleteNodeAbsent(n) \/ DeleteNodeStart(n)
  BY <1>4, DeleteNodeMaps DEF Abstract!Next
<1>5. CASE PurgeFromStep \/ PurgeFromDone \/ PurgeToStep \/ DeleteNodeEnd
  BY <1>5, PurgeMaps
<1>6. CASE SortTopo
  BY <1>6, SortTopoMaps DEF Abstract!Next
<1>7. CASE UNCHANGED vars
  BY <1>7 DEF vars, graphVars, nodeVars, edgeVars, loopVars, typeOf, arcs, result, InGraph
<1> QED  BY <1>1, <1>2, <1>3, <1>4, <1>5, <1>6, <1>7 DEF Next

(* The pointers, indexes and adjacency lists of lilgraph.go implement the    *)
(* graph of ids, whatever the callers do with pointers to deleted nodes.     *)
THEOREM ImplementsPropertyGraph == Spec => AbstractSpec
BY InitMaps, NextMaps, GraphInvariant, EndpointsAreLive, PTL
DEF Spec, AbstractSpec, Abstract!Spec
=============================================================================
