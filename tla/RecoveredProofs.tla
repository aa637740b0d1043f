-------------------------- MODULE RecoveredProofs --------------------------
(***************************************************************************)
(* Proofs about Recovered, for every set of pointers, ids and types.        *)
(***************************************************************************)
EXTENDS Recovered, LilGraphProofs

-----------------------------------------------------------------------------
(* SortTopo.                                                                 *)

(* Its walks stay in a set of nodes that they start in and no edge leaves.    *)
LEMMA WalksStay ==
    ASSUME NEW V, Apexes \subseteq V, \A n \in V : ends[n] \subseteq V
    PROVE  Walked \subseteq V
<1>1. ASSUME NEW A, A \subseteq V, NEW next, \A n \in V : next[n] \subseteq V
      PROVE  \A k \in Nat : Level(A, next, k) \subseteq V
  BY <1>1, LevelStays
<1>2. \A k \in Nat : Level(Apexes, ends, k) \subseteq V
  BY <1>1
<1> QED  BY <1>2 DEF Walked

-----------------------------------------------------------------------------
(* Until a caller passes a nil.                                              *)

Unspoilt == ~misused => GraphInv /\ EndpointsLive /\ broken = {}

LEMMA NotMisused == [RecoveredNext]_allVars /\ ~misused' => ~misused
BY DEF RecoveredNext, AddEdgeNil, DeleteEdgePanics, DeleteNodePanics, SortTopoPanics, allVars

(* No call panics on a graph without half edges and without nils in its lists. *)
LEMMA UnspoiltStep ==
    ASSUME GraphInv, EndpointsLive, broken = {}, [RecoveredNext]_allVars, ~misused'
    PROVE  [Next]_vars /\ broken' = {}
<1>1. Half = {}
  BY KeysDiffer, NilIsNoPointer DEF Half
<1>2. ~AtHalf
  BY <1>1 DEF AtHalf
<1>3. CASE Sound /\ UNCHANGED <<misused, broken>>
  <2>1. CASE \E d \in Declared : AddNode(d[1], d[2])
    <3>1. PICK d \in Declared : AddNode(d[1], d[2])
      BY <2>1
    <3>2. d[1] \in Id /\ d[2] \in Type
      BY CallsAssumption
    <3> QED  BY <1>3, <3>1, <3>2 DEF Next
  <2>2. CASE \E f, t \in Handle, ty \in EdgeTypes : AddEdge(f, t, ty)
    BY <1>3, <2>2, CallsAssumption DEF Next
  <2>3. CASE \E e \in EdgePtr \ Half : EdgeExists(e) /\ DeleteEdge(e)
    BY <1>3, <2>3 DEF Next
  <2>4. CASE \/ \E n \in Handle : DeleteNodeStart(n)
             \/ \E n \in Handle \cup broken : DeleteNodeAbsent(n)
    BY <1>3, <2>4 DEF Next
  <2>5. CASE PurgeFromStep \/ PurgeFromDone \/ PurgeToStep \/ DeleteNodeEnd \/ SortTopo
    BY <1>3, <2>5 DEF Next
  <2> QED  BY <1>3, <2>1, <2>2, <2>3, <2>4, <2>5 DEF Sound
<1>4. CASE \E f, t \in Handle \cup {Nil}, ty \in EdgeTypes : AddEdgeNil(f, t, ty)
  BY <1>4 DEF AddEdgeNil
<1>5. CASE \E e \in EdgePtr : DeleteEdgePanics(e)
  BY <1>1, <1>5 DEF DeleteEdgePanics
<1>6. CASE DeleteNodePanics
  BY <1>2, <1>6 DEF DeleteNodePanics
<1>7. CASE SortTopoPanics
  <2>1. \A n \in NodePtr : /\ Nil \notin ToSet(edgesFrom[n])
                           /\ \A e \in ToSet(edgesFrom[n]) : to[e] \in NodePtr
    <3> SUFFICES ASSUME NEW n \in NodePtr, NEW e \in ToSet(edgesFrom[n])
                 PROVE  e # Nil /\ to[e] \in NodePtr
      OBVIOUS
    <3>1. PICK list \in Seq(EdgeSlot) : list = edgesFrom[n] /\ Lists(list, 0, EdgesOut(n))
      BY <1>7, IdleLists DEF SortTopoPanics
    <3>2. PICK j \in 1..Len(list) : list[j] = e
      BY <3>1, ToSetOfSeq
    <3>3. e \in ToSet(edges)
      BY <3>1, <3>2 DEF Lists, EdgesOut
    <3> QED  BY <3>3, KeysDiffer
  <2>2. \A n \in NodePtr : Nil \notin Met(n) /\ ends[n] \subseteq NodePtr
    BY <2>1, NilIsNoPointer DEF Met, ends
  <2>3. Apexes \subseteq NodePtr
    BY IdFacts DEF Apexes
  <2>4. Walked \subseteq NodePtr
    BY <2>2, <2>3, WalksStay
  <2> QED  BY <1>7, <2>2, <2>4 DEF SortTopoPanics
<1>8. CASE UNCHANGED allVars
  BY <1>8 DEF allVars
<1> QED  BY <1>3, <1>4, <1>5, <1>6, <1>7, <1>8 DEF RecoveredNext

LEMMA UnspoiltAlways == RecoveredSpec => []Unspoilt
<1>1. RecoveredInit => Unspoilt
  <2>1. Init => EndpointsLive
    <3>1. Init => ToSet(edges) = {}
      BY DEF Init, ToSet
    <3> QED  BY <3>1 DEF EndpointsLive
  <2> QED  BY <2>1, InitGraphInv DEF RecoveredInit, Unspoilt
<1>2. Unspoilt /\ [RecoveredNext]_allVars => Unspoilt'
  <2> SUFFICES ASSUME Unspoilt, [RecoveredNext]_allVars, ~misused'
               PROVE  GraphInv' /\ EndpointsLive' /\ broken' = {}
    BY DEF Unspoilt
  <2>1. ~misused
    BY NotMisused
  <2>2. GraphInv /\ EndpointsLive /\ broken = {}
    BY <2>1 DEF Unspoilt
  <2>3. [Next]_vars /\ broken' = {}
    BY <2>2, UnspoiltStep
  <2>4. GraphInv'
    BY <2>2, <2>3, NextGraphInv
  <2>5. EndpointsLive'
    <3>1. CASE UNCHANGED vars
      BY <2>2, <3>1 DEF vars, graphVars, edgeVars, loopVars, EndpointsLive
    <3>2. CASE Next
      BY <2>2, <2>4, <3>2, EndpointsStep
    <3> QED  BY <2>3, <3>1, <3>2
  <2> QED  BY <2>3, <2>4, <2>5
<1> QED  BY <1>1, <1>2, PTL DEF RecoveredSpec

(* Up to the first nil that a caller passes to AddEdge, the graph is the      *)
(* graph of ids: PropertyGraph does not have a panic.                        *)
THEOREM AbstractBeforeMisuse == RecoveredSpec => AbstractUntilMisused
<1>1. RecoveredInit => Abstract!Init
  BY InitMaps DEF RecoveredInit
<1>2. Unspoilt /\ [RecoveredNext]_allVars
          => [~misused' => Abstract!Next]_<<typeOf, arcs, result>>
  <2> SUFFICES ASSUME Unspoilt, [RecoveredNext]_allVars, ~misused'
               PROVE  Abstract!Next \/ UNCHANGED <<typeOf, arcs, result>>
    OBVIOUS
  <2>1. ~misused
    BY NotMisused
  <2>2. GraphInv /\ EndpointsLive /\ broken = {}
    BY <2>1 DEF Unspoilt
  <2>3. [Next]_vars
    BY <2>2, UnspoiltStep
  <2> QED  BY <2>2, <2>3, NextMaps DEF Abstract!vars
<1> QED  BY <1>1, <1>2, UnspoiltAlways, PTL DEF RecoveredSpec, AbstractUntilMisused

-----------------------------------------------------------------------------
(* Whatever panics there have been: the inductive invariant.                 *)

KeyOf(e) == <<from[e], to[e], edgeTyp[e]>>
Ins(n)   == {e \in EdgesIn(n) : from[e] # Nil}

Typed ==
    /\ nodes \in Seq(NodePtr) /\ edges \in Seq(EdgePtr)
    /\ nodesById \in [Id -> Ptr]
    /\ edgesById \in [EdgeIdentity -> EdgePtr \cup {Nil}]
    /\ id \in [NodePtr -> Id \cup {Nil}] /\ typ \in [NodePtr -> Type]
    /\ edgesFrom \in [NodePtr -> Seq(EdgeSlot)] /\ edgesTo \in [NodePtr -> Seq(EdgeSlot)]
    /\ from \in [EdgePtr -> Ptr] /\ to \in [EdgePtr -> Ptr]
    /\ edgeTyp \in [EdgePtr -> Type \cup {Nil}]
    /\ pc \in {"idle", "purgeFrom", "purgeTo"} /\ i \in Nat \ {0}
    /\ IF pc = "idle" THEN cur = Nil ELSE cur \in NodePtr
    /\ broken \subseteq NodePtr

(* EdgesWired, but that a half edge lacks an end, and may lack its key: the   *)
(* loops of DeleteNode clear keys with a nil for the node that they purge.    *)
WiredOrHalf ==
    /\ IsInjective(edges)
    /\ \A e \in ToSet(edges) :
        /\ EdgeExists(e) /\ from[e] # to[e]
        /\ \A n \in {from[e], to[e]} \ {Nil} : NodeExists(n)
        /\ Nil \notin {from[e], to[e]} => edgesById[KeyOf(e)] = e

(* AdjacencyExact, for the nodes whose DeleteNode has not panicked.           *)
ListsExact ==
    \A n \in NodePtr \ broken : /\ Lists(edgesFrom[n], OutPurged(n), EdgesOut(n))
                                /\ Lists(edgesTo[n], InPurged(n), Ins(n))

BrokenGone == \A n \in broken : NodeExists(n) /\ ~InGraph(n) /\ n # cur

(* IndexLive, with the keys of the half edges.                               *)
Gone(k) == IF Nil \in {k[1], k[2]} THEN k[1] \in broken
           ELSE ~InGraph(k[1]) \/ ~InGraph(k[2])
KeysLead ==
    \A k \in EdgeIdentity : edgesById[k] # Nil =>
        LET e == edgesById[k] IN
        /\ edgeTyp[e] = k[3]
        /\ \A n \in {k[1], k[2]} \ {Nil} : NodeExists(n)
        /\ \/ e \in ToSet(edges) /\ from[e] = k[1] /\ to[e] = k[2]
           \/ Gone(k)

(* EndpointsLive, with the ends that misuse leaves.                          *)
Known == ToSet(nodes) \cup {cur, Nil} \cup broken
EndsKnown ==
    ~StaleHandles => \A e \in ToSet(edges) : /\ from[e] \in Known
                                             /\ from[e] # Nil => to[e] \in Known

RecoveredInv == /\ Typed /\ NodesIndexed /\ WiredOrHalf /\ ListsExact
                /\ BrokenGone /\ KeysLead /\ EndsKnown

LEMMA InsAre == \A n : EdgesIn(n) \ {e \in Half : from[e] = Nil} = Ins(n)
BY DEF Half, EdgesIn, Ins

LEMMA EdgeFacts ==
    ASSUME RecoveredInv
    PROVE  \A d \in ToSet(edges) :
              /\ d \in EdgePtr /\ d # Nil /\ EdgeExists(d) /\ edgeTyp[d] \in Type
              /\ from[d] \in Ptr /\ to[d] \in Ptr /\ from[d] # to[d]
              /\ KeyOf(d) \in EdgeIdentity
              /\ Nil \notin {from[d], to[d]} => edgesById[KeyOf(d)] = d
<1>1. ToSet(edges) \subseteq EdgePtr
  BY ToSetOfSeq DEF RecoveredInv, Typed
<1>2. ASSUME NEW d \in ToSet(edges)
      PROVE  /\ d \in EdgePtr /\ d # Nil /\ EdgeExists(d) /\ edgeTyp[d] \in Type
             /\ from[d] \in Ptr /\ to[d] \in Ptr /\ from[d] # to[d]
             /\ Nil \notin {from[d], to[d]} => edgesById[KeyOf(d)] = d
  BY <1>1, NilIsNoPointer DEF RecoveredInv, Typed, WiredOrHalf, EdgeExists
<1> QED  BY <1>2 DEF EdgeIdentity, KeyOf

LEMMA ListFacts ==
    ASSUME RecoveredInv
    PROVE  /\ \A n \in NodePtr :
                 /\ edgesFrom[n] \in Seq(EdgeSlot) /\ edgesTo[n] \in Seq(EdgeSlot)
                 /\ EdgesOut(n) \in SUBSET EdgePtr /\ Ins(n) \in SUBSET EdgePtr
           /\ \A n \in NodePtr \ broken :
                 /\ Lists(edgesFrom[n], OutPurged(n), EdgesOut(n))
                 /\ Lists(edgesTo[n], InPurged(n), Ins(n))
           /\ \A n \in NodePtr : n # cur => OutPurged(n) = 0 /\ InPurged(n) = 0
           /\ pc # "idle" => cur \in NodePtr /\ cur \notin broken /\ ~InGraph(cur)
                             /\ NodeExists(cur)
           /\ pc = "idle" => cur = Nil
<1>1. ToSet(edges) \subseteq EdgePtr
  BY ToSetOfSeq DEF RecoveredInv, Typed
<1>2. \A n \in NodePtr : /\ edgesFrom[n] \in Seq(EdgeSlot) /\ edgesTo[n] \in Seq(EdgeSlot)
                         /\ EdgesOut(n) \in SUBSET EdgePtr /\ Ins(n) \in SUBSET EdgePtr
  BY <1>1 DEF RecoveredInv, Typed, EdgesOut, EdgesIn, Ins
<1>3. pc # "idle" => cur \in NodePtr /\ cur \notin broken /\ ~InGraph(cur) /\ NodeExists(cur)
  BY DEF RecoveredInv, Typed, BrokenGone, NodesIndexed
<1>4. \A n \in NodePtr : n # cur => OutPurged(n) = 0 /\ InPurged(n) = 0
  BY DEF OutPurged, InPurged
<1> QED  BY <1>2, <1>3, <1>4 DEF RecoveredInv, Typed, ListsExact

(* One list of the graph loses the edge e: deleteEdge or a loop of DeleteNode *)
(* takes it out, if the list has it.                                         *)
LEMMA DropList ==
    ASSUME NEW list \in Seq(EdgeSlot), NEW S, S \subseteq EdgePtr, NEW e \in EdgePtr,
           NEW p, Lists(list, p, S), NEW out, NEW q,
           \/ e \notin S /\ out = list /\ q = p
           \/ p = 0 /\ q = 0 /\ out = DeleteFunc(list, e)
           \/ q \in 1..Len(list) /\ p = q - 1 /\ list[q] = e /\ out = [list EXCEPT ![q] = Nil]
    PROVE  Lists(out, q, S \ {e})
<1>1. CASE e \notin S /\ out = list /\ q = p
  <2>1. S \ {e} = S
    BY <1>1
  <2> QED  BY <1>1, <2>1
<1>2. CASE p = 0 /\ q = 0 /\ out = DeleteFunc(list, e)
  <2>1. S \in SUBSET EdgePtr /\ Lists(list, 0, S)
    BY <1>2
  <2> QED  BY <1>2, <2>1, ListsDelete
<1>3. CASE q \in 1..Len(list) /\ p = q - 1 /\ list[q] = e /\ out = [list EXCEPT ![q] = Nil]
  <2>1. S \in SUBSET EdgePtr /\ Lists(list, q - 1, S)
    BY <1>3
  <2>2. Lists([list EXCEPT ![q] = Nil], q, S \ {list[q]})
    BY <1>3, <2>1, ListsPurge
  <2> QED  BY <1>3, <2>2
<1> QED  BY <1>1, <1>2, <1>3

(* Steps that take an edge e out of g.edges, whether deleteEdge comes to its   *)
(* end or panics: key is what it clears in edgesById, which is e's own key    *)
(* or has a nil in it.                                                       *)
LEMMA DropStep ==
    ASSUME RecoveredInv, Typed', NEW e \in ToSet(edges), edges' = DeleteFirst(edges, e),
           UNCHANGED <<nodes, nodesById, id, edgeTyp>>,
           \A d \in EdgePtr : d # e => from'[d] = from[d] /\ to'[d] = to[d],
           NEW key \in EdgeIdentity, edgesById' = [edgesById EXCEPT ![key] = Nil],
           NEW own, own = KeyOf(e), key = own \/ Nil \in {key[1], key[2]},
           key = own \/ Gone(own)',
           \/ UNCHANGED <<cur, pc, broken>>
           \/ pc # "idle" /\ pc' = "idle" /\ cur' = Nil /\ broken' = broken \cup {cur},
           \A n \in NodePtr \ broken' :
              /\ Lists(edgesFrom'[n], OutPurged(n)', EdgesOut(n) \ {e})
              /\ Lists(edgesTo'[n], InPurged(n)', Ins(n) \ {e})
    PROVE  RecoveredInv'
<1>1. /\ edges' \in Seq(EdgePtr) /\ IsInjective(edges')
      /\ ToSet(edges') = ToSet(edges) \ {e}
  BY DeleteFirstProperties DEF RecoveredInv, Typed, WiredOrHalf
<1>2. ToSet(edges) \subseteq EdgePtr
  BY ToSetOfSeq DEF RecoveredInv, Typed
<1>3. \A d \in ToSet(edges') : /\ d \in ToSet(edges) /\ d # e /\ d \in EdgePtr
                               /\ from'[d] = from[d] /\ to'[d] = to[d]
                               /\ edgeTyp'[d] = edgeTyp[d]
  BY <1>1, <1>2
<1>4. \A n : EdgesOut(n)' = EdgesOut(n) \ {e} /\ Ins(n)' = Ins(n) \ {e}
  BY <1>1, <1>2, <1>3 DEF EdgesOut, EdgesIn, Ins
<1>5. edgesById \in [EdgeIdentity -> EdgePtr \cup {Nil}]
  BY DEF RecoveredInv, Typed
<1>6. NodesIndexed'
  <2>1. NodesIndexed
    BY DEF RecoveredInv
  <2> QED  BY <2>1 DEF NodesIndexed, InGraph, NodeExists
<1>7. WiredOrHalf'
  <2>1. ASSUME NEW d \in ToSet(edges')
        PROVE  /\ EdgeExists(d)' /\ from'[d] # to'[d]
               /\ \A n \in {from'[d], to'[d]} \ {Nil} : NodeExists(n)'
               /\ Nil \notin {from'[d], to'[d]} => edgesById'[KeyOf(d)'] = d
    <3>1. /\ EdgeExists(d) /\ from[d] # to[d]
          /\ \A n \in {from[d], to[d]} \ {Nil} : NodeExists(n)
          /\ Nil \notin {from[d], to[d]} => edgesById[KeyOf(d)] = d
          /\ Nil \notin {from[e], to[e]} => edgesById[KeyOf(e)] = e
      BY <1>3 DEF RecoveredInv, WiredOrHalf
    <3>2. KeyOf(d)' = KeyOf(d) /\ KeyOf(d) \in EdgeIdentity
      BY <1>3, EdgeFacts DEF KeyOf
    <3>3. ASSUME Nil \notin {from[d], to[d]} PROVE KeyOf(d) # key
      <4>1. CASE key = own
        BY <1>3, <3>1, <3>3, <4>1 DEF KeyOf
      <4>2. CASE Nil \in {key[1], key[2]}
        BY <3>3, <4>2 DEF KeyOf
      <4> QED  BY <4>1, <4>2
    <3>4. Nil \notin {from[d], to[d]} => edgesById'[KeyOf(d)] = d
      BY <1>5, <3>1, <3>2, <3>3
    <3> QED  BY <1>3, <3>1, <3>2, <3>4 DEF EdgeExists, NodeExists
  <2> QED  BY <1>1, <2>1 DEF WiredOrHalf
<1>8. ListsExact'
  BY <1>4 DEF ListsExact
<1>9. BrokenGone'
  <2>1. BrokenGone /\ (pc # "idle" => NodeExists(cur) /\ ~InGraph(cur)) /\ Nil \notin NodePtr
        /\ (pc # "idle" => cur \in NodePtr) /\ broken \subseteq NodePtr
    BY NilIsNoPointer DEF RecoveredInv, NodesIndexed, Typed
  <2> QED  BY <2>1 DEF BrokenGone, NodeExists, InGraph
<1>10. KeysLead'
  <2> SUFFICES ASSUME NEW k \in EdgeIdentity, edgesById'[k] # Nil, NEW d, d = edgesById'[k]
               PROVE  /\ edgeTyp'[d] = k[3]
                      /\ \A n \in {k[1], k[2]} \ {Nil} : NodeExists(n)'
                      /\ \/ d \in ToSet(edges') /\ from'[d] = k[1] /\ to'[d] = k[2]
                         \/ Gone(k)'
    BY DEF KeysLead
  <2>1. k # key /\ edgesById[k] = d /\ d # Nil
    BY <1>5
  <2>2. /\ edgeTyp[d] = k[3]
        /\ \A n \in {k[1], k[2]} \ {Nil} : NodeExists(n)
        /\ (d \in ToSet(edges) /\ from[d] = k[1] /\ to[d] = k[2]) \/ Gone(k)
    BY <2>1 DEF RecoveredInv, KeysLead
  <2>3. CASE Gone(k)
    <3>1. broken \subseteq broken'
      OBVIOUS
    <3>2. Gone(k)'
      BY <2>3, <3>1 DEF Gone, InGraph
    <3> QED  BY <2>2, <3>2 DEF NodeExists
  <2>4. CASE d \in ToSet(edges) /\ from[d] = k[1] /\ to[d] = k[2] /\ d # e
    BY <1>1, <1>3, <2>2, <2>4 DEF NodeExists
  <2>5. CASE from[d] = k[1] /\ to[d] = k[2] /\ d = e
    <3>1. k = own
      BY <2>2, <2>5 DEF EdgeIdentity, KeyOf
    <3> QED  BY <2>1, <2>2, <3>1 DEF NodeExists
  <2> QED  BY <2>2, <2>3, <2>4, <2>5
<1>11. EndsKnown'
  <2>1. Known \subseteq Known'
    BY DEF Known
  <2> QED  BY <1>3, <2>1 DEF RecoveredInv, EndsKnown
<1> QED  BY <1>6, <1>7, <1>8, <1>9, <1>10, <1>11 DEF RecoveredInv

-----------------------------------------------------------------------------
(* The calls and steps, one by one.                                          *)

LEMMA SameLists ==
    ASSUME ListsExact, UNCHANGED <<edges, from, to, edgesFrom, edgesTo, loopVars, broken>>
    PROVE  ListsExact'
BY DEF ListsExact, EdgesOut, EdgesIn, Ins, OutPurged, InPurged, loopVars

LEMMA QuietRecovered ==
    ASSUME RecoveredInv, UNCHANGED <<graphVars, nodeVars, edgeVars, loopVars, broken>>
    PROVE  RecoveredInv'
<1> USE DEF graphVars, nodeVars, edgeVars, loopVars, RecoveredInv
<1>1. Typed'
  BY DEF Typed
<1>2. NodesIndexed'
  BY DEF NodesIndexed, InGraph, NodeExists
<1>3. WiredOrHalf'
  BY DEF WiredOrHalf, EdgeExists, NodeExists, KeyOf
<1>4. ListsExact'
  BY SameLists
<1>5. BrokenGone'
  BY DEF BrokenGone, NodeExists, InGraph
<1>6. KeysLead'
  BY DEF KeysLead, Gone, NodeExists, InGraph
<1>7. EndsKnown'
  BY DEF EndsKnown, Known
<1> QED  BY <1>1, <1>2, <1>3, <1>4, <1>5, <1>6, <1>7

LEMMA AddNodeRecovered ==
    ASSUME RecoveredInv, NEW x \in Id, NEW t \in Type, AddNode(x, t), UNCHANGED broken
    PROVE  RecoveredInv'
<1>1. CASE AddNodeInvalid(x, t) \/ AddNodeTypeChange(x, t)
  BY <1>1, QuietRecovered DEF AddNodeInvalid, AddNodeTypeChange
<1>2. CASE AddNodeExisting(x, t)
  <2> USE <1>2 DEF AddNodeExisting, graphVars, edgeVars, loopVars
  <2>1. Typed'
    BY DEF RecoveredInv, Typed
  <2>2. NodesIndexed' /\ WiredOrHalf'
    BY DEF RecoveredInv, NodesIndexed, WiredOrHalf, InGraph, NodeExists, EdgeExists, KeyOf
  <2>3. ListsExact'
    BY SameLists DEF RecoveredInv
  <2>4. BrokenGone' /\ KeysLead' /\ EndsKnown'
    BY DEF RecoveredInv, BrokenGone, KeysLead, EndsKnown, Known, Gone, InGraph, NodeExists
  <2> QED  BY <2>1, <2>2, <2>3, <2>4 DEF RecoveredInv
<1>3. CASE AddNodeNew(x, t)
  <2>1. PICK n \in NodePtr :
            /\ ~NodeExists(n)
            /\ id' = [id EXCEPT ![n] = x]
            /\ typ' = [typ EXCEPT ![n] = t]
            /\ nodes' = Append(nodes, n)
            /\ nodesById' = [nodesById EXCEPT ![x] = n]
    BY <1>3 DEF AddNodeNew
  <2>2. /\ x \in ValidId /\ nodesById[x] = Nil
        /\ UNCHANGED <<edges, edgesById, edgesFrom, edgesTo, from, to, edgeTyp, pc, cur, i>>
    BY <1>3 DEF AddNodeNew, edgeVars, loopVars
  <2>3. x # Nil /\ n # Nil
    BY PointerAssumption, DataAssumption
  <2>4. nodes' \in Seq(NodePtr) /\ ToSet(nodes') = ToSet(nodes) \cup {n}
    BY <2>1, AppendFacts DEF RecoveredInv, Typed
  <2>5. Typed'
    BY <2>1, <2>2, <2>4 DEF RecoveredInv, Typed, Ptr
  <2>6. NodesIndexed'
    BY <2>1, <2>2, NewNodeIndexed DEF RecoveredInv, Typed
  <2>7. \A m : NodeExists(m) /\ m \in Ptr => /\ m # n /\ (m # Nil => NodeExists(m)')
                                             /\ (~InGraph(m) => ~InGraph(m)')
    BY <2>1, <2>3, <2>4 DEF RecoveredInv, Typed, NodeExists, InGraph, Ptr
  <2>8. WiredOrHalf'
    BY <2>2, <2>7, EdgeFacts DEF RecoveredInv, WiredOrHalf, EdgeExists, KeyOf
  <2>9. ListsExact'
    BY <2>2, SameLists DEF RecoveredInv, loopVars
  <2>10. BrokenGone'
    BY <2>2, <2>7, NilIsNoPointer DEF RecoveredInv, Typed, BrokenGone, Ptr
  <2>11. KeysLead'
    BY <2>2, <2>7 DEF RecoveredInv, KeysLead, Gone, EdgeIdentity
  <2>12. EndsKnown'
    BY <2>2, <2>4 DEF RecoveredInv, EndsKnown, Known
  <2> QED  BY <2>5, <2>6, <2>8, <2>9, <2>10, <2>11, <2>12 DEF RecoveredInv
<1> QED  BY <1>1, <1>2, <1>3 DEF AddNode

(* AddEdge with a new identity, up to its end or to its panic.               *)
LEMMA GrowStep ==
    ASSUME RecoveredInv, pc = "idle", NEW e \in EdgePtr, ~EdgeExists(e),
           NEW f \in Handle \cup {Nil}, NEW t \in Handle \cup {Nil}, f # t,
           NEW ty \in Type, edgesById[<<f, t, ty>>] = Nil,
           from' = [from EXCEPT ![e] = f], to' = [to EXCEPT ![e] = t],
           edgeTyp' = [edgeTyp EXCEPT ![e] = ty], edges' = Append(edges, e),
           edgesById' = [edgesById EXCEPT ![<<f, t, ty>>] = e],
           edgesFrom' = IF f = Nil THEN edgesFrom
                        ELSE [edgesFrom EXCEPT ![f] = Append(edgesFrom[f], e)],
           edgesTo' = IF Nil \in {f, t} THEN edgesTo
                      ELSE [edgesTo EXCEPT ![t] = Append(edgesTo[t], e)],
           UNCHANGED <<nodes, nodesById, id, typ, loopVars, broken>>
    PROVE  RecoveredInv'
<1>1. /\ f \in Ptr /\ t \in Ptr /\ ty # Nil /\ e # Nil
      /\ f # Nil => f \in NodePtr /\ NodeExists(f)
      /\ t # Nil => t \in NodePtr /\ NodeExists(t)
  BY DataAssumption, NilIsNoPointer DEF Handle, Ptr
<1>2. e \notin ToSet(edges) /\ ToSet(edges) \subseteq EdgePtr
  BY ToSetOfSeq DEF RecoveredInv, Typed, WiredOrHalf
<1>3. /\ edges' \in Seq(EdgePtr) /\ IsInjective(edges')
      /\ ToSet(edges') = ToSet(edges) \cup {e}
  BY <1>2, AppendFacts DEF RecoveredInv, Typed, WiredOrHalf
<1>4. <<f, t, ty>> \in EdgeIdentity /\ edgesById \in [EdgeIdentity -> EdgePtr \cup {Nil}]
  BY <1>1 DEF EdgeIdentity, RecoveredInv, Typed
<1>5. /\ from'[e] = f /\ to'[e] = t /\ edgeTyp'[e] = ty
      /\ \A d \in EdgePtr : d # e => /\ from'[d] = from[d] /\ to'[d] = to[d]
                                     /\ edgeTyp'[d] = edgeTyp[d]
  BY DEF RecoveredInv, Typed
<1>6. Typed'
  <2>1. f # Nil => Append(edgesFrom[f], e) \in Seq(EdgeSlot)
    BY <1>1, ListFacts DEF EdgeSlot
  <2>2. t # Nil => Append(edgesTo[t], e) \in Seq(EdgeSlot)
    BY <1>1, ListFacts DEF EdgeSlot
  <2>3. edgesFrom' \in [NodePtr -> Seq(EdgeSlot)] /\ edgesTo' \in [NodePtr -> Seq(EdgeSlot)]
    BY <1>1, <2>1, <2>2 DEF RecoveredInv, Typed
  <2>4. edgesById' \in [EdgeIdentity -> EdgePtr \cup {Nil}]
    BY <1>4
  <2>5. /\ from' \in [EdgePtr -> Ptr] /\ to' \in [EdgePtr -> Ptr]
        /\ edgeTyp' \in [EdgePtr -> Type \cup {Nil}]
    BY <1>1 DEF RecoveredInv, Typed
  <2> QED  BY <1>3, <2>3, <2>4, <2>5 DEF RecoveredInv, Typed, loopVars
<1>7. NodesIndexed'
  BY DEF RecoveredInv, NodesIndexed, InGraph, NodeExists, loopVars
<1>8. WiredOrHalf'
  <2>1. ASSUME NEW d \in ToSet(edges')
        PROVE  /\ EdgeExists(d)' /\ from'[d] # to'[d]
               /\ \A n \in {from'[d], to'[d]} \ {Nil} : NodeExists(n)'
               /\ Nil \notin {from'[d], to'[d]} => edgesById'[KeyOf(d)'] = d
    <3>1. CASE d = e
      <4>1. KeyOf(e)' = <<f, t, ty>>
        BY <1>5 DEF KeyOf
      <4> QED  BY <3>1, <4>1, <1>1, <1>4, <1>5 DEF EdgeExists, NodeExists
    <3>2. CASE d \in ToSet(edges) /\ d # e
      <4>1. /\ EdgeExists(d) /\ from[d] # to[d]
            /\ \A n \in {from[d], to[d]} \ {Nil} : NodeExists(n)
            /\ Nil \notin {from[d], to[d]} => edgesById[KeyOf(d)] = d
        BY <3>2 DEF RecoveredInv, WiredOrHalf
      <4>2. KeyOf(d)' = KeyOf(d) /\ KeyOf(d) \in EdgeIdentity /\ d # Nil
        BY <1>2, <1>5, <3>2, EdgeFacts DEF KeyOf
      <4>3. Nil \notin {from[d], to[d]} => edgesById'[KeyOf(d)] = d
        BY <1>4, <4>1, <4>2
      <4> QED  BY <1>2, <1>5, <3>2, <4>1, <4>2, <4>3 DEF EdgeExists, NodeExists
    <3> QED  BY <1>2, <1>3, <3>1, <3>2
  <2> QED  BY <1>3, <2>1 DEF WiredOrHalf
<1>9. ListsExact'
  <2> SUFFICES ASSUME NEW n \in NodePtr \ broken
               PROVE  /\ Lists(edgesFrom'[n], OutPurged(n)', EdgesOut(n)')
                      /\ Lists(edgesTo'[n], InPurged(n)', Ins(n)')
    BY DEF ListsExact
  <2>1. /\ OutPurged(n) = 0 /\ InPurged(n) = 0 /\ OutPurged(n)' = 0 /\ InPurged(n)' = 0
        /\ n # Nil
    BY NilIsNoPointer DEF OutPurged, InPurged, RecoveredInv, Typed, loopVars
  <2>2. /\ EdgesOut(n)' = IF n = f THEN EdgesOut(n) \cup {e} ELSE EdgesOut(n)
        /\ Ins(n)' = IF n = t /\ f # Nil THEN Ins(n) \cup {e} ELSE Ins(n)
        /\ e \notin EdgesOut(n) /\ e \notin Ins(n)
    BY <1>2, <1>3, <1>5 DEF EdgesOut, EdgesIn, Ins
  <2>3. /\ edgesFrom[n] \in Seq(EdgeSlot) /\ edgesTo[n] \in Seq(EdgeSlot)
        /\ EdgesOut(n) \in SUBSET EdgePtr /\ Ins(n) \in SUBSET EdgePtr
        /\ Lists(edgesFrom[n], 0, EdgesOut(n)) /\ Lists(edgesTo[n], 0, Ins(n))
    BY <2>1, ListFacts
  <2>4. /\ Lists(Append(edgesFrom[n], e), 0, EdgesOut(n) \cup {e})
        /\ Lists(Append(edgesTo[n], e), 0, Ins(n) \cup {e})
    BY <2>2, <2>3, ListsAppend
  <2>5. /\ edgesFrom'[n] = IF n = f THEN Append(edgesFrom[n], e) ELSE edgesFrom[n]
        /\ edgesTo'[n] = IF n = t /\ f # Nil THEN Append(edgesTo[n], e) ELSE edgesTo[n]
    BY <1>1, <2>1 DEF RecoveredInv, Typed
  <2>6. Lists(edgesFrom'[n], 0, EdgesOut(n)')
    BY <2>2, <2>3, <2>4, <2>5
  <2>7. Lists(edgesTo'[n], 0, Ins(n)')
    BY <2>2, <2>3, <2>4, <2>5
  <2> QED  BY <2>1, <2>6, <2>7
<1>10. BrokenGone'
  BY DEF RecoveredInv, BrokenGone, NodeExists, InGraph, loopVars
<1>11. KeysLead'
  <2> SUFFICES ASSUME NEW k \in EdgeIdentity, edgesById'[k] # Nil, NEW d, d = edgesById'[k]
               PROVE  /\ edgeTyp'[d] = k[3]
                      /\ \A n \in {k[1], k[2]} \ {Nil} : NodeExists(n)'
                      /\ \/ d \in ToSet(edges') /\ from'[d] = k[1] /\ to'[d] = k[2]
                         \/ Gone(k)'
    BY DEF KeysLead
  <2>1. CASE k = <<f, t, ty>>
    BY <2>1, <1>1, <1>3, <1>4, <1>5 DEF NodeExists
  <2>2. CASE k # <<f, t, ty>>
    <3>1. edgesById[k] = d /\ d \in EdgePtr
      BY <2>2, <1>4
    <3>2. /\ edgeTyp[d] = k[3]
          /\ \A n \in {k[1], k[2]} \ {Nil} : NodeExists(n)
          /\ (d \in ToSet(edges) /\ from[d] = k[1] /\ to[d] = k[2]) \/ Gone(k)
      BY <3>1 DEF RecoveredInv, KeysLead
    <3>3. d # e
      BY <3>2, DataAssumption DEF EdgeExists, EdgeIdentity
    <3>4. Gone(k) => Gone(k)'
      BY DEF Gone, InGraph
    <3> QED  BY <1>3, <1>5, <3>1, <3>2, <3>3, <3>4 DEF NodeExists
  <2> QED  BY <2>1, <2>2
<1>12. EndsKnown'
  <2>1. ~StaleHandles => f \in Known /\ t \in Known
    BY DEF Handle, InGraph, Known
  <2>2. Known' = Known
    BY DEF Known, loopVars
  <2> QED  BY <1>2, <1>3, <1>5, <2>1, <2>2 DEF RecoveredInv, EndsKnown
<1> QED  BY <1>6, <1>7, <1>8, <1>9, <1>10, <1>11, <1>12 DEF RecoveredInv

LEMMA AddEdgeRecovered ==
    ASSUME RecoveredInv, pc = "idle", UNCHANGED broken,
           NEW f \in Handle \cup {Nil}, NEW t \in Handle \cup {Nil}, NEW ty \in Type,
           \/ AddEdgeLoop(f, t, ty) \/ AddEdgeExisting(f, t, ty)
           \/ AddEdgeNew(f, t, ty) /\ Nil \notin {f, t}
           \/ AddEdgePanics(f, t, ty) /\ Nil \in {f, t} /\ f # t
    PROVE  RecoveredInv'
<1>1. CASE AddEdgeLoop(f, t, ty) \/ AddEdgeExisting(f, t, ty)
  BY <1>1, QuietRecovered DEF AddEdgeLoop, AddEdgeExisting
<1>2. CASE AddEdgeNew(f, t, ty) /\ Nil \notin {f, t}
  <2>1. PICK e \in EdgePtr :
            /\ ~EdgeExists(e)
            /\ from' = [from EXCEPT ![e] = f]
            /\ to' = [to EXCEPT ![e] = t]
            /\ edgeTyp' = [edgeTyp EXCEPT ![e] = ty]
            /\ edges' = Append(edges, e)
            /\ edgesById' = [edgesById EXCEPT ![<<f, t, ty>>] = e]
            /\ edgesFrom' = [edgesFrom EXCEPT ![f] = Append(edgesFrom[f], e)]
            /\ edgesTo' = [edgesTo EXCEPT ![t] = Append(edgesTo[t], e)]
    BY <1>2 DEF AddEdgeNew
  <2>2. /\ f # t /\ edgesById[<<f, t, ty>>] = Nil
        /\ UNCHANGED <<nodes, nodesById, id, typ, loopVars, broken>>
    BY <1>2 DEF AddEdgeNew
  <2>3. /\ edgesFrom' = IF f = Nil THEN edgesFrom
                        ELSE [edgesFrom EXCEPT ![f] = Append(edgesFrom[f], e)]
        /\ edgesTo' = IF Nil \in {f, t} THEN edgesTo
                      ELSE [edgesTo EXCEPT ![t] = Append(edgesTo[t], e)]
    BY <1>2, <2>1
  <2> QED  BY <2>1, <2>2, <2>3, GrowStep
<1>3. CASE AddEdgePanics(f, t, ty) /\ Nil \in {f, t} /\ f # t
  <2>1. PICK e \in EdgePtr :
            /\ ~EdgeExists(e)
            /\ from' = [from EXCEPT ![e] = f]
            /\ to' = [to EXCEPT ![e] = t]
            /\ edgeTyp' = [edgeTyp EXCEPT ![e] = ty]
            /\ edges' = Append(edges, e)
            /\ edgesById' = [edgesById EXCEPT ![<<f, t, ty>>] = e]
            /\ edgesFrom' = IF f = Nil THEN edgesFrom
                            ELSE [edgesFrom EXCEPT ![f] = Append(edgesFrom[f], e)]
    BY <1>3 DEF AddEdgePanics
  <2>2. /\ edgesById[<<f, t, ty>>] = Nil
        /\ UNCHANGED <<nodes, nodesById, id, typ, edgesTo, loopVars, broken>>
    BY <1>3 DEF AddEdgePanics
  <2>3. edgesTo' = IF Nil \in {f, t} THEN edgesTo
                   ELSE [edgesTo EXCEPT ![t] = Append(edgesTo[t], e)]
    BY <1>3, <2>2
  <2> QED  BY <1>3, <2>1, <2>2, <2>3, GrowStep
<1> QED  BY <1>1, <1>2, <1>3

(* DeleteEdge, up to its end or to its panic, which comes before the list of  *)
(* the end of an edge from nil.                                              *)
LEMMA DeleteEdgeRecovered ==
    ASSUME RecoveredInv, NEW e \in EdgePtr, UNCHANGED broken,
           (e \notin Half /\ DeleteEdge(e)) \/ DeleteEdgePanics(e)
    PROVE  RecoveredInv'
<1>1. CASE e \notin ToSet(edges)
  <2>1. DeleteEdge(e)
    BY <1>1 DEF DeleteEdgePanics, Half
  <2> QED  BY <1>1, <2>1, QuietRecovered DEF DeleteEdge, deleteEdge, graphVars, nodeVars
<1>2. CASE e \in ToSet(edges)
  <2> DEFINE key == KeyOf(e)
  <2>1. /\ edges' = DeleteFirst(edges, e)
        /\ edgesById' = [edgesById EXCEPT ![key] = Nil]
        /\ edgesFrom' = IF from[e] = Nil THEN edgesFrom
                        ELSE [edgesFrom EXCEPT ![from[e]] = DeleteFunc(edgesFrom[from[e]], e)]
        /\ edgesTo' = IF Nil \in {from[e], to[e]} THEN edgesTo
                      ELSE [edgesTo EXCEPT ![to[e]] = DeleteFunc(edgesTo[to[e]], e)]
        /\ pc = "idle"
        /\ UNCHANGED <<nodes, nodesById, id, typ, from, to, edgeTyp, pc, cur, i>>
    BY <1>2 DEF DeleteEdge, deleteEdge, DeleteEdgePanics, Half, KeyOf, edgeVars, loopVars
  <2>2. /\ from[e] \in Ptr /\ to[e] \in Ptr /\ key \in EdgeIdentity
        /\ edgesById \in [EdgeIdentity -> EdgePtr \cup {Nil}]
        /\ e # Nil
    BY <1>2, EdgeFacts DEF RecoveredInv, Typed
  <2> HIDE DEF key
  <2>3. \A n \in NodePtr : /\ DeleteFunc(edgesFrom[n], e) \in Seq(EdgeSlot)
                           /\ DeleteFunc(edgesTo[n], e) \in Seq(EdgeSlot)
    BY ListFacts, DeleteFuncProperties
  <2>4. edges' \in Seq(EdgePtr)
    BY <1>2, <2>1, DeleteFirstProperties DEF RecoveredInv, Typed, WiredOrHalf
  <2>5. Typed'
    <3>1. edgesFrom' \in [NodePtr -> Seq(EdgeSlot)] /\ edgesTo' \in [NodePtr -> Seq(EdgeSlot)]
      BY <2>1, <2>2, <2>3 DEF RecoveredInv, Typed, Ptr
    <3> QED  BY <2>1, <2>2, <2>4, <3>1 DEF RecoveredInv, Typed
  <2>6. ASSUME NEW n \in NodePtr \ broken
        PROVE  /\ Lists(edgesFrom'[n], OutPurged(n)', EdgesOut(n) \ {e})
               /\ Lists(edgesTo'[n], InPurged(n)', Ins(n) \ {e})
    <3>1. /\ OutPurged(n) = 0 /\ InPurged(n) = 0 /\ OutPurged(n)' = 0 /\ InPurged(n)' = 0
          /\ n # Nil
      BY <2>1, NilIsNoPointer DEF OutPurged, InPurged, RecoveredInv, Typed
    <3>2. /\ edgesFrom[n] \in Seq(EdgeSlot) /\ edgesTo[n] \in Seq(EdgeSlot)
          /\ EdgesOut(n) \subseteq EdgePtr /\ Ins(n) \subseteq EdgePtr
          /\ Lists(edgesFrom[n], 0, EdgesOut(n)) /\ Lists(edgesTo[n], 0, Ins(n))
      BY <3>1, ListFacts
    <3>3. \/ e \notin EdgesOut(n) /\ edgesFrom'[n] = edgesFrom[n]
          \/ edgesFrom'[n] = DeleteFunc(edgesFrom[n], e)
      BY <2>1, <3>1 DEF EdgesOut, RecoveredInv, Typed
    <3>4. \/ e \notin Ins(n) /\ edgesTo'[n] = edgesTo[n]
          \/ edgesTo'[n] = DeleteFunc(edgesTo[n], e)
      BY <2>1, <3>1 DEF Ins, EdgesIn, RecoveredInv, Typed
    <3>5. Lists(edgesFrom'[n], 0, EdgesOut(n) \ {e})
      BY <3>2, <3>3, DropList
    <3>6. Lists(edgesTo'[n], 0, Ins(n) \ {e})
      BY <3>2, <3>4, DropList
    <3> QED  BY <3>1, <3>5, <3>6
  <2>7. key = KeyOf(e)
    BY DEF key
  <2>8. \A d \in EdgePtr : d # e => from'[d] = from[d] /\ to'[d] = to[d]
    BY <2>1
  <2> QED  BY <1>2, <2>1, <2>2, <2>5, <2>6, <2>7, <2>8, DropStep
<1> QED  BY <1>1, <1>2

LEMMA DeleteNodeStartRecovered ==
    ASSUME RecoveredInv, NEW n \in Handle, DeleteNodeStart(n), UNCHANGED broken
    PROVE  RecoveredInv'
<1>1. /\ pc = "idle" /\ n \in ToSet(nodes)
      /\ nodes' = DeleteFirst(nodes, n)
      /\ nodesById' = [nodesById EXCEPT ![id[n]] = Nil]
      /\ pc' = "purgeFrom" /\ cur' = n /\ i' = 1
      /\ UNCHANGED <<edges, edgesById, id, typ, edgesFrom, edgesTo, from, to, edgeTyp>>
  BY DEF DeleteNodeStart, InGraph, nodeVars, edgeVars
<1>2. n \in NodePtr /\ NodeExists(n) /\ n # Nil
  BY NilIsNoPointer DEF Handle
<1>3. nodes' \in Seq(NodePtr) /\ ToSet(nodes') = ToSet(nodes) \ {n}
  BY <1>1, DeleteFirstProperties DEF RecoveredInv, Typed, NodesIndexed
<1>4. Typed'
  <2>1. nodesById' \in [Id -> Ptr]
    BY <1>1 DEF RecoveredInv, Typed, Ptr
  <2>2. 1 \in Nat \ {0}
    OBVIOUS
  <2> QED  BY <1>1, <1>2, <1>3, <2>1, <2>2 DEF RecoveredInv, Typed
<1>5. NodesIndexed'
  BY <1>1, <1>2, NodeLeaves DEF RecoveredInv, Typed
<1>6. WiredOrHalf'
  BY <1>1 DEF RecoveredInv, WiredOrHalf, EdgeExists, NodeExists, KeyOf
<1>7. ListsExact'
  <2>1. ASSUME NEW m \in NodePtr \ broken
        PROVE  /\ OutPurged(m)' = 0 /\ InPurged(m)' = 0
               /\ OutPurged(m) = 0 /\ InPurged(m) = 0
               /\ EdgesOut(m)' = EdgesOut(m) /\ Ins(m)' = Ins(m)
    BY <1>1, NilIsNoPointer DEF OutPurged, InPurged, EdgesOut, EdgesIn, Ins, RecoveredInv, Typed
  <2> QED  BY <1>1, <2>1, ListFacts DEF ListsExact
<1>8. BrokenGone'
  BY <1>1, <1>3 DEF RecoveredInv, BrokenGone, NodeExists, InGraph
<1>9. KeysLead'
  BY <1>1, <1>3 DEF RecoveredInv, KeysLead, Gone, InGraph, NodeExists
<1>10. EndsKnown'
  BY <1>1, <1>3 DEF RecoveredInv, Typed, EndsKnown, Known
<1> QED  BY <1>4, <1>5, <1>6, <1>7, <1>8, <1>9, <1>10 DEF RecoveredInv

(* The first loop of DeleteNode, at an edge whose other end is a node.       *)
LEMMA PurgeFromRecovered ==
    ASSUME RecoveredInv, ~AtHalf, PurgeFromStep, UNCHANGED broken
    PROVE  RecoveredInv'
<1> DEFINE e == edgesFrom[cur][i]
           far == to[e]
           key == <<Nil, to[e], edgeTyp[e]>>
<1>1. /\ pc = "purgeFrom" /\ i \in 1..Len(edgesFrom[cur])
      /\ cur \in NodePtr \ broken /\ cur # Nil /\ ~InGraph(cur)
  <2>1. pc = "purgeFrom" /\ i \in Nat \ {0} /\ i <= Len(edgesFrom[cur])
    BY DEF PurgeFromStep, RecoveredInv, Typed
  <2>2. cur \in NodePtr \ broken /\ cur # Nil /\ ~InGraph(cur)
    BY <2>1, ListFacts, NilIsNoPointer
  <2>3. edgesFrom[cur] \in Seq(EdgeSlot)
    BY <2>2, ListFacts
  <2> QED  BY <2>1, <2>2, <2>3
<1>2. PICK list \in Seq(EdgeSlot) : list = edgesFrom[cur]
  BY <1>1, ListFacts
<1>3. e \in EdgesOut(cur)
  <2>1. OutPurged(cur) = i - 1
    BY <1>1 DEF OutPurged
  <2>2. Lists(list, i - 1, EdgesOut(cur)) /\ EdgesOut(cur) \in SUBSET EdgePtr
    BY <1>1, <1>2, <2>1, ListFacts
  <2> QED  BY <1>1, <1>2, <2>2, ListsPurge
<1>4. e \in ToSet(edges) /\ from[e] = cur
  BY <1>3 DEF EdgesOut
<1>5. /\ e \in EdgePtr /\ far \in NodePtr /\ far # cur /\ key \in EdgeIdentity
  <2>1. e \notin Half
    BY <1>1, ListFacts DEF AtHalf
  <2>2. /\ e \in EdgePtr /\ far \in Ptr /\ far # cur /\ edgeTyp[e] \in Type
    BY <1>4, EdgeFacts
  <2> QED  BY <1>4, <2>1, <2>2 DEF Half, Ptr, EdgeIdentity
<1>6. /\ edges' = DeleteFirst(edges, e)
      /\ edgesById' = [edgesById EXCEPT ![key] = Nil]
      /\ edgesFrom' = [edgesFrom EXCEPT ![cur] = [list EXCEPT ![i] = Nil]]
      /\ edgesTo' = [edgesTo EXCEPT ![far] = DeleteFunc(edgesTo[far], e)]
      /\ from' = [from EXCEPT ![e] = Nil] /\ i' = i + 1
      /\ UNCHANGED <<nodes, nodesById, id, typ, to, edgeTyp, pc, cur>>
  BY <1>2, <1>4 DEF PurgeFromStep, deleteEdge
<1>7. key[1] = Nil
  OBVIOUS
<1>8. far = to[e]
  OBVIOUS
<1>9. list[i] = e
  BY <1>2
<1> HIDE DEF e, far, key
<1>10. Typed'
  <2>1. /\ DeleteFunc(edgesTo[far], e) \in Seq(EdgeSlot)
        /\ [list EXCEPT ![i] = Nil] \in Seq(EdgeSlot)
    BY <1>1, <1>2, <1>5, ListFacts, DeleteFuncProperties DEF EdgeSlot
  <2>2. edgesById' \in [EdgeIdentity -> EdgePtr \cup {Nil}]
    BY <1>6 DEF RecoveredInv, Typed
  <2>3. edgesFrom' \in [NodePtr -> Seq(EdgeSlot)] /\ edgesTo' \in [NodePtr -> Seq(EdgeSlot)]
    BY <1>6, <2>1 DEF RecoveredInv, Typed
  <2>4. from' \in [EdgePtr -> Ptr] /\ to' \in [EdgePtr -> Ptr]
    BY <1>6 DEF RecoveredInv, Typed, Ptr
  <2>5. edges' \in Seq(EdgePtr)
    BY <1>4, <1>6, DeleteFirstProperties DEF RecoveredInv, Typed, WiredOrHalf
  <2> QED  BY <1>1, <1>6, <2>2, <2>3, <2>4, <2>5 DEF RecoveredInv, Typed
<1>11. ASSUME NEW n \in NodePtr \ broken
       PROVE  /\ Lists(edgesFrom'[n], OutPurged(n)', EdgesOut(n) \ {e})
              /\ Lists(edgesTo'[n], InPurged(n)', Ins(n) \ {e})
  <2>1. /\ edgesFrom[n] \in Seq(EdgeSlot) /\ edgesTo[n] \in Seq(EdgeSlot)
        /\ EdgesOut(n) \subseteq EdgePtr /\ Ins(n) \subseteq EdgePtr
        /\ Lists(edgesFrom[n], OutPurged(n), EdgesOut(n))
        /\ Lists(edgesTo[n], InPurged(n), Ins(n))
    BY ListFacts
  <2>2. \/ e \notin EdgesOut(n) /\ edgesFrom'[n] = edgesFrom[n] /\ OutPurged(n)' = OutPurged(n)
        \/ /\ OutPurged(n)' \in 1..Len(edgesFrom[n]) /\ OutPurged(n) = OutPurged(n)' - 1
           /\ edgesFrom[n][OutPurged(n)'] = e
           /\ edgesFrom'[n] = [edgesFrom[n] EXCEPT ![OutPurged(n)'] = Nil]
    <3>1. CASE n = cur
      <4>1. OutPurged(n) = i - 1 /\ OutPurged(n)' = i
        BY <1>1, <1>6, <3>1 DEF OutPurged
      <4>2. edgesFrom'[n] = [list EXCEPT ![i] = Nil]
        BY <1>1, <1>6, <3>1 DEF RecoveredInv, Typed
      <4> QED  BY <1>1, <1>2, <1>9, <3>1, <4>1, <4>2
    <3>2. CASE n # cur
      BY <1>4, <1>6, <3>2 DEF OutPurged, EdgesOut, RecoveredInv, Typed
    <3> QED  BY <3>1, <3>2
  <2>3. Lists(edgesFrom'[n], OutPurged(n)', EdgesOut(n) \ {e})
    BY <1>5, <2>1, <2>2, DropList
  <2>4. InPurged(n)' = 0 /\ InPurged(n) = 0
    BY <1>1, <1>6 DEF InPurged
  <2>5. \/ e \notin Ins(n) /\ edgesTo'[n] = edgesTo[n]
        \/ edgesTo'[n] = DeleteFunc(edgesTo[n], e)
    BY <1>5, <1>6, <1>8 DEF Ins, EdgesIn, RecoveredInv, Typed
  <2>6. Lists(edgesTo'[n], InPurged(n)', Ins(n) \ {e})
    BY <1>5, <2>1, <2>4, <2>5, DropList
  <2> QED  BY <2>3, <2>6
<1>12. PICK own : own = KeyOf(e)
  OBVIOUS
<1>13. Gone(own)'
  <2>1. own[1] = cur /\ own[2] = far
    BY <1>4, <1>8, <1>12 DEF KeyOf
  <2> QED  BY <1>1, <1>5, <1>6, <2>1, NilIsNoPointer DEF Gone, InGraph
<1>14. \A d \in EdgePtr : d # e => from'[d] = from[d] /\ to'[d] = to[d]
  BY <1>6 DEF RecoveredInv, Typed
<1> QED
  BY <1>4, <1>5, <1>6, <1>7, <1>10, <1>11, <1>12, <1>13, <1>14, DropStep

LEMMA PurgeToRecovered ==
    ASSUME RecoveredInv, PurgeToStep, UNCHANGED broken
    PROVE  RecoveredInv'
<1> DEFINE e == edgesTo[cur][i]
           far == from[e]
           key == <<from[e], Nil, edgeTyp[e]>>
<1>1. /\ pc = "purgeTo" /\ i \in 1..Len(edgesTo[cur])
      /\ cur \in NodePtr \ broken /\ cur # Nil /\ ~InGraph(cur)
  <2>1. pc = "purgeTo" /\ i \in Nat \ {0} /\ i <= Len(edgesTo[cur])
    BY DEF PurgeToStep, RecoveredInv, Typed
  <2>2. cur \in NodePtr \ broken /\ cur # Nil /\ ~InGraph(cur)
    BY <2>1, ListFacts, NilIsNoPointer
  <2>3. edgesTo[cur] \in Seq(EdgeSlot)
    BY <2>2, ListFacts
  <2> QED  BY <2>1, <2>2, <2>3
<1>2. PICK list \in Seq(EdgeSlot) : list = edgesTo[cur]
  BY <1>1, ListFacts
<1>3. e \in Ins(cur)
  <2>1. InPurged(cur) = i - 1
    BY <1>1 DEF InPurged
  <2>2. Lists(list, i - 1, Ins(cur)) /\ Ins(cur) \in SUBSET EdgePtr
    BY <1>1, <1>2, <2>1, ListFacts
  <2> QED  BY <1>1, <1>2, <2>2, ListsPurge
<1>4. e \in ToSet(edges) /\ to[e] = cur /\ from[e] # Nil
  BY <1>3 DEF Ins, EdgesIn
<1>5. /\ e \in EdgePtr /\ far \in NodePtr /\ far # cur /\ key \in EdgeIdentity
  <2>1. /\ e \in EdgePtr /\ far \in Ptr /\ far # cur /\ edgeTyp[e] \in Type
    BY <1>4, EdgeFacts
  <2> QED  BY <1>4, <2>1 DEF Ptr, EdgeIdentity
<1>6. /\ edges' = DeleteFirst(edges, e)
      /\ edgesById' = [edgesById EXCEPT ![key] = Nil]
      /\ edgesTo' = [edgesTo EXCEPT ![cur] = [list EXCEPT ![i] = Nil]]
      /\ edgesFrom' = [edgesFrom EXCEPT ![far] = DeleteFunc(edgesFrom[far], e)]
      /\ to' = [to EXCEPT ![e] = Nil] /\ i' = i + 1
      /\ UNCHANGED <<nodes, nodesById, id, typ, from, edgeTyp, pc, cur>>
  BY <1>2, <1>4 DEF PurgeToStep, deleteEdge
<1>7. key[2] = Nil
  OBVIOUS
<1>8. far = from[e]
  OBVIOUS
<1>9. list[i] = e
  BY <1>2
<1> HIDE DEF e, far, key
<1>10. Typed'
  <2>1. /\ DeleteFunc(edgesFrom[far], e) \in Seq(EdgeSlot)
        /\ [list EXCEPT ![i] = Nil] \in Seq(EdgeSlot)
    BY <1>1, <1>2, <1>5, ListFacts, DeleteFuncProperties DEF EdgeSlot
  <2>2. edgesById' \in [EdgeIdentity -> EdgePtr \cup {Nil}]
    BY <1>6 DEF RecoveredInv, Typed
  <2>3. edgesFrom' \in [NodePtr -> Seq(EdgeSlot)] /\ edgesTo' \in [NodePtr -> Seq(EdgeSlot)]
    BY <1>6, <2>1 DEF RecoveredInv, Typed
  <2>4. from' \in [EdgePtr -> Ptr] /\ to' \in [EdgePtr -> Ptr]
    BY <1>6 DEF RecoveredInv, Typed, Ptr
  <2>5. edges' \in Seq(EdgePtr)
    BY <1>4, <1>6, DeleteFirstProperties DEF RecoveredInv, Typed, WiredOrHalf
  <2> QED  BY <1>1, <1>6, <2>2, <2>3, <2>4, <2>5 DEF RecoveredInv, Typed
<1>11. ASSUME NEW n \in NodePtr \ broken
       PROVE  /\ Lists(edgesFrom'[n], OutPurged(n)', EdgesOut(n) \ {e})
              /\ Lists(edgesTo'[n], InPurged(n)', Ins(n) \ {e})
  <2>1. /\ edgesFrom[n] \in Seq(EdgeSlot) /\ edgesTo[n] \in Seq(EdgeSlot)
        /\ EdgesOut(n) \subseteq EdgePtr /\ Ins(n) \subseteq EdgePtr
        /\ Lists(edgesFrom[n], OutPurged(n), EdgesOut(n))
        /\ Lists(edgesTo[n], InPurged(n), Ins(n))
    BY ListFacts
  <2>2. \/ e \notin Ins(n) /\ edgesTo'[n] = edgesTo[n] /\ InPurged(n)' = InPurged(n)
        \/ /\ InPurged(n)' \in 1..Len(edgesTo[n]) /\ InPurged(n) = InPurged(n)' - 1
           /\ edgesTo[n][InPurged(n)'] = e
           /\ edgesTo'[n] = [edgesTo[n] EXCEPT ![InPurged(n)'] = Nil]
    <3>1. CASE n = cur
      <4>1. InPurged(n) = i - 1 /\ InPurged(n)' = i
        BY <1>1, <1>6, <3>1 DEF InPurged
      <4>2. edgesTo'[n] = [list EXCEPT ![i] = Nil]
        BY <1>1, <1>6, <3>1 DEF RecoveredInv, Typed
      <4> QED  BY <1>1, <1>2, <1>9, <3>1, <4>1, <4>2
    <3>2. CASE n # cur
      BY <1>4, <1>6, <3>2 DEF InPurged, Ins, EdgesIn, RecoveredInv, Typed
    <3> QED  BY <3>1, <3>2
  <2>3. Lists(edgesTo'[n], InPurged(n)', Ins(n) \ {e})
    BY <1>5, <2>1, <2>2, DropList
  <2>4. /\ n # far => e \notin EdgesOut(n) /\ edgesFrom'[n] = edgesFrom[n]
        /\ n = far => edgesFrom'[n] = DeleteFunc(edgesFrom[n], e)
    BY <1>5, <1>6, <1>8 DEF EdgesOut, RecoveredInv, Typed
  <2>5. /\ n # cur => OutPurged(n) = 0 /\ OutPurged(n)' = 0
        /\ n = cur => OutPurged(n) = Len(edgesFrom[n]) /\ OutPurged(n)' = Len(edgesFrom'[n])
    BY <1>1, <1>6 DEF OutPurged
  <2>6. Lists(edgesFrom'[n], OutPurged(n)', EdgesOut(n) \ {e})
    BY <1>5, <2>1, <2>4, <2>5, DropList
  <2> QED  BY <2>3, <2>6
<1>12. PICK own : own = KeyOf(e)
  OBVIOUS
<1>13. Gone(own)'
  <2>1. own[1] = far /\ own[2] = cur
    BY <1>4, <1>8, <1>12 DEF KeyOf
  <2> QED  BY <1>1, <1>5, <1>6, <2>1, NilIsNoPointer DEF Gone, InGraph
<1>14. \A d \in EdgePtr : d # e => from'[d] = from[d] /\ to'[d] = to[d]
  BY <1>6 DEF RecoveredInv, Typed
<1> QED
  BY <1>4, <1>5, <1>6, <1>7, <1>10, <1>11, <1>12, <1>13, <1>14, DropStep

(* The first loop of DeleteNode, at an edge to nil: the node it purges keeps  *)
(* the rest of its edges, outside the graph.                                 *)
LEMMA DeleteNodePanicsRecovered ==
    ASSUME RecoveredInv, DeleteNodePanics
    PROVE  RecoveredInv'
<1> DEFINE e == edgesFrom[cur][i]
           key == <<Nil, to[e], edgeTyp[e]>>
<1>1. /\ pc = "purgeFrom" /\ i \in 1..Len(edgesFrom[cur])
      /\ cur \in NodePtr \ broken /\ cur # Nil /\ ~InGraph(cur)
  <2>1. pc = "purgeFrom" /\ i \in Nat \ {0} /\ i <= Len(edgesFrom[cur])
    BY DEF DeleteNodePanics, AtHalf, RecoveredInv, Typed
  <2>2. cur \in NodePtr \ broken /\ cur # Nil /\ ~InGraph(cur)
    BY <2>1, ListFacts, NilIsNoPointer
  <2>3. edgesFrom[cur] \in Seq(EdgeSlot)
    BY <2>2, ListFacts
  <2> QED  BY <2>1, <2>2, <2>3
<1>2. PICK list \in Seq(EdgeSlot) : list = edgesFrom[cur]
  BY <1>1, ListFacts
<1>3. e \in EdgesOut(cur)
  <2>1. OutPurged(cur) = i - 1
    BY <1>1 DEF OutPurged
  <2>2. Lists(list, i - 1, EdgesOut(cur)) /\ EdgesOut(cur) \in SUBSET EdgePtr
    BY <1>1, <1>2, <2>1, ListFacts
  <2> QED  BY <1>1, <1>2, <2>2, ListsPurge
<1>4. /\ e \in ToSet(edges) /\ from[e] = cur
      /\ e \in EdgePtr /\ to[e] = Nil /\ key \in EdgeIdentity
  <2>1. e \in ToSet(edges) /\ from[e] = cur
    BY <1>3 DEF EdgesOut
  <2>2. e \in Half
    BY DEF DeleteNodePanics, AtHalf
  <2>3. e \in EdgePtr /\ edgeTyp[e] \in Type
    BY <2>1, EdgeFacts
  <2>4. to[e] = Nil
    BY <1>1, <2>1, <2>2 DEF Half
  <2> QED  BY <2>1, <2>3, <2>4 DEF EdgeIdentity, Ptr
<1>5. /\ edges' = DeleteFirst(edges, e)
      /\ edgesById' = [edgesById EXCEPT ![key] = Nil]
      /\ edgesFrom' = [edgesFrom EXCEPT ![cur] = [list EXCEPT ![i] = Nil]]
      /\ from' = [from EXCEPT ![e] = Nil]
      /\ pc' = "idle" /\ cur' = Nil /\ i' = 1 /\ broken' = broken \cup {cur}
      /\ UNCHANGED <<nodes, nodesById, id, typ, edgesTo, to, edgeTyp>>
  BY <1>2 DEF DeleteNodePanics
<1>6. key[1] = Nil
  OBVIOUS
<1> HIDE DEF e, key
<1>7. Typed'
  <2>1. [list EXCEPT ![i] = Nil] \in Seq(EdgeSlot)
    BY <1>1, <1>2 DEF EdgeSlot
  <2>2. edgesById' \in [EdgeIdentity -> EdgePtr \cup {Nil}]
    BY <1>5 DEF RecoveredInv, Typed
  <2>3. edgesFrom' \in [NodePtr -> Seq(EdgeSlot)]
    BY <1>5, <2>1 DEF RecoveredInv, Typed
  <2>4. from' \in [EdgePtr -> Ptr]
    BY <1>5 DEF RecoveredInv, Typed, Ptr
  <2>5. edges' \in Seq(EdgePtr)
    BY <1>4, <1>5, DeleteFirstProperties DEF RecoveredInv, Typed, WiredOrHalf
  <2>6. 1 \in Nat \ {0}
    OBVIOUS
  <2> QED  BY <1>1, <1>5, <2>2, <2>3, <2>4, <2>5, <2>6 DEF RecoveredInv, Typed
<1>8. ASSUME NEW n \in NodePtr \ broken'
      PROVE  /\ Lists(edgesFrom'[n], OutPurged(n)', EdgesOut(n) \ {e})
             /\ Lists(edgesTo'[n], InPurged(n)', Ins(n) \ {e})
  <2>1. n \in NodePtr \ broken /\ n # cur /\ n # Nil
    BY <1>5, NilIsNoPointer
  <2>2. /\ OutPurged(n) = 0 /\ InPurged(n) = 0 /\ OutPurged(n)' = 0 /\ InPurged(n)' = 0
    BY <1>5, <2>1 DEF OutPurged, InPurged
  <2>3. Lists(edgesFrom[n], 0, EdgesOut(n)) /\ Lists(edgesTo[n], 0, Ins(n))
    BY <2>1, <2>2, ListFacts
  <2>4. EdgesOut(n) \ {e} = EdgesOut(n) /\ Ins(n) \ {e} = Ins(n)
    BY <1>4, <2>1 DEF EdgesOut, EdgesIn, Ins
  <2>5. edgesFrom'[n] = edgesFrom[n] /\ edgesTo'[n] = edgesTo[n]
    BY <1>5, <2>1 DEF RecoveredInv, Typed
  <2> QED  BY <2>2, <2>3, <2>4, <2>5
<1>9. PICK own : own = KeyOf(e)
  OBVIOUS
<1>10. Gone(own)'
  BY <1>4, <1>5, <1>9 DEF Gone, KeyOf
<1>11. \A d \in EdgePtr : d # e => from'[d] = from[d] /\ to'[d] = to[d]
  BY <1>5 DEF RecoveredInv, Typed
<1> QED
  BY <1>1, <1>4, <1>5, <1>6, <1>7, <1>8, <1>9, <1>10, <1>11, DropStep

LEMMA PurgeFromDoneRecovered ==
    ASSUME RecoveredInv, PurgeFromDone, UNCHANGED broken
    PROVE  RecoveredInv'
<1>1. /\ pc = "purgeFrom" /\ i > Len(edgesFrom[cur]) /\ pc' = "purgeTo" /\ i' = 1
      /\ UNCHANGED <<nodes, edges, nodesById, edgesById, id, typ, edgesFrom,
                    edgesTo, from, to, edgeTyp, cur>>
  BY DEF PurgeFromDone, graphVars, nodeVars, edgeVars
<1>2. Typed'
  <2>1. 1 \in Nat \ {0}
    OBVIOUS
  <2> QED  BY <1>1, <2>1 DEF RecoveredInv, Typed
<1>3. NodesIndexed' /\ WiredOrHalf'
  BY <1>1 DEF RecoveredInv, NodesIndexed, WiredOrHalf, InGraph, NodeExists, EdgeExists, KeyOf
<1>4. BrokenGone' /\ KeysLead' /\ EndsKnown'
  BY <1>1 DEF RecoveredInv, BrokenGone, KeysLead, EndsKnown, Known, Gone, InGraph, NodeExists
<1>5. ListsExact'
  <2>1. cur \in NodePtr \ broken
    BY <1>1, ListFacts
  <2>2. PICK list \in Seq(EdgeSlot) : list = edgesFrom[cur]
    BY <2>1, ListFacts
  <2>3. \A j \in 1..Len(list) : j <= i - 1
    BY <1>1, <2>2 DEF RecoveredInv, Typed
  <2>4. Lists(list, i - 1, EdgesOut(cur)) /\ EdgesOut(cur) \in SUBSET EdgePtr
    <3>1. OutPurged(cur) = i - 1
      BY <1>1 DEF OutPurged
    <3> QED  BY <2>1, <2>2, <3>1, ListFacts
  <2>5. Lists(list, Len(list), EdgesOut(cur))
    BY <2>3, <2>4, ListsPurged
  <2>6. \A n \in NodePtr : EdgesOut(n)' = EdgesOut(n) /\ Ins(n)' = Ins(n)
    BY <1>1 DEF EdgesOut, EdgesIn, Ins
  <2>7. ASSUME NEW n \in NodePtr \ broken
        PROVE  Lists(edgesFrom[n], OutPurged(n)', EdgesOut(n))
    <3>1. CASE n = cur
      BY <1>1, <2>2, <2>5, <3>1 DEF OutPurged
    <3>2. CASE n # cur
      BY <1>1, <3>2, ListFacts DEF OutPurged
    <3> QED  BY <3>1, <3>2
  <2>8. ASSUME NEW n \in NodePtr \ broken
        PROVE  Lists(edgesTo[n], InPurged(n)', Ins(n))
    <3>1. InPurged(n) = 0 /\ InPurged(n)' = 0
      BY <1>1 DEF InPurged
    <3> QED  BY <3>1, ListFacts
  <2> QED  BY <1>1, <2>6, <2>7, <2>8 DEF ListsExact
<1> QED  BY <1>2, <1>3, <1>4, <1>5 DEF RecoveredInv

LEMMA DeleteNodeEndRecovered ==
    ASSUME RecoveredInv, DeleteNodeEnd, UNCHANGED broken
    PROVE  RecoveredInv'
<1>1. /\ pc = "purgeTo" /\ i > Len(edgesTo[cur]) /\ pc' = "idle" /\ i' = 1 /\ cur' = Nil
      /\ edgesFrom' = [edgesFrom EXCEPT ![cur] = << >>]
      /\ edgesTo' = [edgesTo EXCEPT ![cur] = << >>]
      /\ UNCHANGED <<nodes, edges, nodesById, edgesById, id, typ, from, to, edgeTyp>>
  BY DEF DeleteNodeEnd, graphVars, edgeVars
<1>2. Typed'
  <2>1. 1 \in Nat \ {0} /\ << >> \in Seq(EdgeSlot)
    OBVIOUS
  <2>2. edgesFrom' \in [NodePtr -> Seq(EdgeSlot)] /\ edgesTo' \in [NodePtr -> Seq(EdgeSlot)]
    BY <1>1, <2>1 DEF RecoveredInv, Typed
  <2> QED  BY <1>1, <2>1, <2>2 DEF RecoveredInv, Typed
<1>3. NodesIndexed' /\ WiredOrHalf'
  BY <1>1 DEF RecoveredInv, NodesIndexed, WiredOrHalf, InGraph, NodeExists, EdgeExists, KeyOf
<1>4. BrokenGone' /\ KeysLead'
  BY <1>1, NilIsNoPointer
  DEF RecoveredInv, Typed, BrokenGone, KeysLead, Gone, InGraph, NodeExists
<1>5. EdgesOut(cur) = {} /\ Ins(cur) = {}
  <2>1. cur \in NodePtr \ broken
    BY <1>1, ListFacts
  <2>2. PICK outs \in Seq(EdgeSlot), ins \in Seq(EdgeSlot) :
            outs = edgesFrom[cur] /\ ins = edgesTo[cur]
    BY <2>1, ListFacts
  <2>3. OutPurged(cur) = Len(outs) /\ InPurged(cur) = i - 1
    BY <1>1, <2>2 DEF OutPurged, InPurged
  <2>4. /\ Lists(outs, Len(outs), EdgesOut(cur)) /\ EdgesOut(cur) \in SUBSET EdgePtr
        /\ Lists(ins, i - 1, Ins(cur)) /\ Ins(cur) \in SUBSET EdgePtr
    BY <2>1, <2>2, <2>3, ListFacts
  <2>5. /\ \A j \in 1..Len(outs) : j <= Len(outs)
        /\ \A j \in 1..Len(ins) : j <= i - 1
    BY <1>1, <2>2 DEF RecoveredInv, Typed
  <2>6. EdgesOut(cur) = {}
    BY <2>4, <2>5, ListsPurged
  <2>7. Ins(cur) = {}
    BY <2>4, <2>5, ListsPurged
  <2> QED  BY <2>6, <2>7
<1>6. ListsExact'
  <2>1. \A n \in NodePtr : /\ EdgesOut(n)' = EdgesOut(n) /\ Ins(n)' = Ins(n)
                           /\ OutPurged(n)' = 0 /\ InPurged(n)' = 0
    BY <1>1, NilIsNoPointer DEF EdgesOut, EdgesIn, Ins, OutPurged, InPurged
  <2>2. Lists(<< >>, 0, {})
    BY DEF Lists
  <2>3. ASSUME NEW n \in NodePtr \ broken
        PROVE  Lists(edgesFrom'[n], 0, EdgesOut(n)) /\ Lists(edgesTo'[n], 0, Ins(n))
    <3>1. CASE n = cur
      BY <3>1, <1>1, <1>5, <2>2 DEF RecoveredInv, Typed
    <3>2. CASE n # cur
      BY <3>2, <1>1, ListFacts DEF RecoveredInv, Typed
    <3> QED  BY <3>1, <3>2
  <2> QED  BY <2>1, <2>3 DEF ListsExact
<1>7. EndsKnown'
  <2>1. \A e \in ToSet(edges) : from[e] # cur /\ (from[e] # Nil => to[e] # cur)
    BY <1>5 DEF EdgesOut, EdgesIn, Ins
  <2> QED  BY <1>1, <2>1 DEF RecoveredInv, EndsKnown, Known
<1> QED  BY <1>2, <1>3, <1>4, <1>6, <1>7 DEF RecoveredInv

LEMMA SortTopoRecovered ==
    ASSUME RecoveredInv, SortTopo, UNCHANGED broken
    PROVE  RecoveredInv'
<1>1. UNCHANGED <<edges, nodesById, edgesById, nodeVars, edgeVars, loopVars>>
  BY DEF SortTopo
<1>2. nodes' \in Seq(NodePtr) /\ ToSet(nodes') = ToSet(nodes) /\ IsInjective(nodes')
  <2> DEFINE sorted == StableSort(nodes, Rank(NodePtr, Apexes, succ))
  <2>1. nodes' = nodes \/ nodes' = sorted
    BY DEF SortTopo
  <2>2. sorted \in Seq(NodePtr) /\ ToSet(sorted) = ToSet(nodes) /\ IsInjective(sorted)
    BY RankType, StableSortProperties DEF RecoveredInv, Typed, NodesIndexed
  <2> HIDE DEF sorted
  <2> QED  BY <2>1, <2>2 DEF RecoveredInv, Typed, NodesIndexed
<1> USE DEF nodeVars, edgeVars, loopVars
<1>3. Typed'
  BY <1>1, <1>2 DEF RecoveredInv, Typed
<1>4. NodesIndexed' /\ WiredOrHalf'
  BY <1>1, <1>2
  DEF RecoveredInv, NodesIndexed, WiredOrHalf, InGraph, NodeExists, EdgeExists, KeyOf
<1>5. ListsExact'
  BY <1>1, SameLists DEF RecoveredInv
<1>6. BrokenGone' /\ KeysLead' /\ EndsKnown'
  BY <1>1, <1>2
  DEF RecoveredInv, BrokenGone, KeysLead, EndsKnown, Known, Gone, InGraph, NodeExists
<1> QED  BY <1>3, <1>4, <1>5, <1>6 DEF RecoveredInv

-----------------------------------------------------------------------------
(* The invariant, and what follows from it.                                  *)

LEMMA InitRecovered == RecoveredInit => RecoveredInv
<1> SUFFICES ASSUME RecoveredInit PROVE RecoveredInv
  OBVIOUS
<1>1. GraphInv /\ ToSet(edges) = {} /\ broken = {} /\ \A k \in EdgeIdentity : edgesById[k] = Nil
  <2>1. ToSet(edges) = {}
    BY DEF RecoveredInit, Init, ToSet
  <2> QED  BY <2>1, InitGraphInv DEF RecoveredInit, Init
<1>2. Typed
  BY <1>1 DEF GraphInv, TypeOK, Typed, EdgeSlot
<1>3. WiredOrHalf
  BY <1>1 DEF GraphInv, EdgesWired, WiredOrHalf
<1>4. ListsExact
  <2>1. \A n : Ins(n) = EdgesIn(n)
    BY <1>1 DEF Ins, EdgesIn
  <2> QED  BY <1>1, <2>1 DEF GraphInv, AdjacencyExact, ListsExact
<1>5. BrokenGone /\ KeysLead /\ EndsKnown
  BY <1>1 DEF BrokenGone, KeysLead, EndsKnown
<1> QED  BY <1>1, <1>2, <1>3, <1>4, <1>5 DEF RecoveredInv, GraphInv

LEMMA NextRecovered ==
    ASSUME RecoveredInv, [RecoveredNext]_allVars
    PROVE  RecoveredInv'
<1>1. CASE Sound /\ UNCHANGED <<misused, broken>>
  <2>1. CASE \E d \in Declared : AddNode(d[1], d[2])
    <3>1. PICK d \in Declared : AddNode(d[1], d[2])
      BY <2>1
    <3>2. d[1] \in Id /\ d[2] \in Type
      BY CallsAssumption
    <3> QED  BY <1>1, <3>1, <3>2, AddNodeRecovered
  <2>2. CASE \E f, t \in Handle, ty \in EdgeTypes : AddEdge(f, t, ty)
    <3>1. PICK f \in Handle, t \in Handle, ty \in EdgeTypes : AddEdge(f, t, ty)
      BY <2>2
    <3>2. ty \in Type /\ Nil \notin {f, t}
      BY CallsAssumption, NilIsNoPointer DEF Handle
    <3> QED  BY <1>1, <3>1, <3>2, AddEdgeRecovered DEF AddEdge
  <2>3. CASE \E e \in EdgePtr \ Half : EdgeExists(e) /\ DeleteEdge(e)
    BY <1>1, <2>3, DeleteEdgeRecovered
  <2>4. CASE \E n \in Handle : DeleteNodeStart(n)
    BY <1>1, <2>4, DeleteNodeStartRecovered
  <2>5. CASE \E n \in Handle \cup broken : DeleteNodeAbsent(n)
    BY <1>1, <2>5, QuietRecovered DEF DeleteNodeAbsent
  <2>6. CASE ~AtHalf /\ PurgeFromStep
    BY <1>1, <2>6, PurgeFromRecovered
  <2>7. CASE PurgeFromDone
    BY <1>1, <2>7, PurgeFromDoneRecovered
  <2>8. CASE PurgeToStep
    BY <1>1, <2>8, PurgeToRecovered
  <2>9. CASE DeleteNodeEnd
    BY <1>1, <2>9, DeleteNodeEndRecovered
  <2>10. CASE SortTopo
    BY <1>1, <2>10, SortTopoRecovered
  <2> QED
    BY <1>1, <2>1, <2>2, <2>3, <2>4, <2>5, <2>6, <2>7, <2>8, <2>9, <2>10 DEF Sound
<1>2. CASE \E f, t \in Handle \cup {Nil}, ty \in EdgeTypes : AddEdgeNil(f, t, ty)
  <2>1. PICK f \in Handle \cup {Nil}, t \in Handle \cup {Nil}, ty \in EdgeTypes :
            AddEdgeNil(f, t, ty)
    BY <1>2
  <2>2. ty \in Type
    BY CallsAssumption
  <2> QED  BY <2>1, <2>2, AddEdgeRecovered DEF AddEdgeNil
<1>3. CASE \E e \in EdgePtr : DeleteEdgePanics(e)
  BY <1>3, DeleteEdgeRecovered DEF DeleteEdgePanics
<1>4. CASE DeleteNodePanics
  BY <1>4, DeleteNodePanicsRecovered
<1>5. CASE SortTopoPanics
  BY <1>5, QuietRecovered DEF SortTopoPanics
<1>6. CASE UNCHANGED allVars
  BY <1>6, QuietRecovered DEF allVars, vars
<1> QED  BY <1>1, <1>2, <1>3, <1>4, <1>5, <1>6 DEF RecoveredNext

LEMMA RecoveredAlways == RecoveredSpec => []RecoveredInv
<1>1. RecoveredInv /\ [RecoveredNext]_allVars => RecoveredInv'
  BY NextRecovered
<1> QED  BY <1>1, InitRecovered, PTL DEF RecoveredSpec

(* No panic parts nodes from nodesById, or a node of the graph from an edge   *)
(* that its calls must find.                                                 *)
THEOREM ListsAlwaysSurvive == RecoveredSpec => []ListsSurvive
<1>1. RecoveredInv => ListsSurvive
  BY InsAre DEF RecoveredInv, ListsExact, ListsSurvive
<1> QED  BY <1>1, RecoveredAlways, PTL

(* Callers who drop a deleted node's pointer, but pass nils and recover, only *)
(* ever leave the ends that EndsAccounted names.                             *)
THEOREM EndsAreAccounted ==
    ASSUME ~StaleHandles
    PROVE  RecoveredSpec => []EndsAccounted
<1>1. RecoveredInv /\ Unspoilt => EndsAccounted
  BY DEF RecoveredInv, EndsKnown, Known, Unspoilt, EndsAccounted
<1> QED  BY <1>1, RecoveredAlways, UnspoiltAlways, PTL

(* Once the half edges are deleted, nothing is left of a caller's nils.       *)
THEOREM PanicsHeal == RecoveredSpec => []Healed
<1>1. RecoveredInv => Healed
  <2> SUFFICES ASSUME RecoveredInv, Half = {}, broken = {}
               PROVE  EdgesWired /\ AdjacencyExact /\ IndexLive
    BY DEF Healed
  <2>1. \A e \in ToSet(edges) : /\ Nil \notin {from[e], to[e]}
                                /\ from[e] \in NodePtr /\ to[e] \in NodePtr
    BY EdgeFacts DEF Half, Ptr
  <2>2. EdgesWired
    BY <2>1 DEF RecoveredInv, WiredOrHalf, KeyOf, EdgesWired
  <2>3. AdjacencyExact
    <3>1. \A n : Ins(n) = EdgesIn(n)
      BY <2>1 DEF Ins, EdgesIn
    <3> QED  BY <3>1 DEF RecoveredInv, ListsExact, AdjacencyExact
  <2>4. IndexLive
    <3> SUFFICES ASSUME NEW k \in EdgeIdentity, edgesById[k] # Nil, NEW e, e = edgesById[k]
                 PROVE  /\ edgeTyp[e] = k[3]
                        /\ k[1] \in NodePtr /\ NodeExists(k[1])
                        /\ k[2] \in NodePtr /\ NodeExists(k[2])
                        /\ \/ e \in ToSet(edges) /\ from[e] = k[1] /\ to[e] = k[2]
                           \/ ~InGraph(k[1]) \/ ~InGraph(k[2])
      BY DEF IndexLive
    <3>1. /\ edgeTyp[e] = k[3]
          /\ \A n \in {k[1], k[2]} \ {Nil} : NodeExists(n)
          /\ (e \in ToSet(edges) /\ from[e] = k[1] /\ to[e] = k[2]) \/ Gone(k)
      BY DEF RecoveredInv, KeysLead
    <3>2. Nil \notin {k[1], k[2]}
      BY <2>1, <3>1 DEF Gone
    <3>3. k[1] \in NodePtr /\ k[2] \in NodePtr
      BY <3>2 DEF EdgeIdentity, Ptr
    <3> QED  BY <3>1, <3>2, <3>3 DEF Gone
  <2> QED  BY <2>2, <2>3, <2>4
<1> QED  BY <1>1, RecoveredAlways, PTL

(* A walk of SortTopo meets a nil only at a half edge, or by way of a node    *)
(* whose DeleteNode has panicked.                                            *)
LEMMA WalkMeetsNil ==
    ASSUME RecoveredInv, pc = "idle", Half = {}, \A e \in ToSet(edges) : to[e] \notin broken
    PROVE  \A n \in Walked : Nil \notin Met(n)
<1>1. ASSUME NEW n \in NodePtr \ broken, NEW e \in ToSet(edgesFrom[n])
      PROVE  e # Nil /\ to[e] \in NodePtr \ broken
  <2>1. PICK list \in Seq(EdgeSlot) : list = edgesFrom[n] /\ Lists(list, 0, EdgesOut(n))
    BY ListFacts, NilIsNoPointer
  <2>2. PICK j \in 1..Len(list) : list[j] = e
    BY <2>1, ToSetOfSeq
  <2>3. e \in ToSet(edges)
    BY <2>1, <2>2 DEF Lists, EdgesOut
  <2>4. e # Nil /\ to[e] \in Ptr /\ to[e] # Nil
    BY <2>3, EdgeFacts DEF Half
  <2> QED  BY <2>3, <2>4 DEF Ptr
<1>2. \A n \in NodePtr \ broken : Nil \notin Met(n) /\ ends[n] \subseteq NodePtr \ broken
  BY <1>1, NilIsNoPointer DEF Met, ends
<1>3. Apexes \subseteq NodePtr \ broken
  <2>1. ToSet(nodes) \subseteq NodePtr /\ \A n \in broken : n \notin ToSet(nodes)
    BY ToSetOfSeq DEF RecoveredInv, Typed, BrokenGone, InGraph
  <2> QED  BY <2>1 DEF Apexes
<1>4. Walked \subseteq NodePtr \ broken
  BY <1>2, <1>3, WalksStay
<1> QED  BY <1>2, <1>4

(* No panic comes out of nothing: only a half edge, or an edge at a node      *)
(* whose DeleteNode has panicked, makes another call than AddEdge panic.      *)
THEOREM PanicsAreExplained == RecoveredSpec => PanicsExplained
<1> DEFINE Explained == Half # {} \/ \E e \in ToSet(edges) : to[e] \in broken
<1>1. RecoveredInv /\ [RecoveredNext]_allVars
          => [ret' = "panic" /\ pc' = "idle" /\ edgeTyp' = edgeTyp => Explained]_allVars
  <2> SUFFICES ASSUME RecoveredInv, RecoveredNext,
                      ret' = "panic", pc' = "idle", edgeTyp' = edgeTyp
               PROVE  Explained
    OBVIOUS
  <2>1. CASE Sound
    <3>1. CASE \E d \in Declared : AddNode(d[1], d[2])
      BY <3>1 DEF AddNode, AddNodeInvalid, AddNodeTypeChange, AddNodeExisting, AddNodeNew
    <3>2. CASE \E f, t \in Handle, ty \in EdgeTypes : AddEdge(f, t, ty)
      BY <3>2 DEF AddEdge, AddEdgeLoop, AddEdgeExisting, AddEdgeNew
    <3>3. CASE \E e \in EdgePtr \ Half : EdgeExists(e) /\ DeleteEdge(e)
      BY <3>3 DEF DeleteEdge
    <3>4. CASE \/ \E n \in Handle : DeleteNodeStart(n)
               \/ \E n \in Handle \cup broken : DeleteNodeAbsent(n)
      BY <3>4 DEF DeleteNodeStart, DeleteNodeAbsent
    <3>5. CASE PurgeFromStep \/ PurgeFromDone \/ PurgeToStep \/ DeleteNodeEnd
      BY <3>5 DEF PurgeFromStep, PurgeFromDone, PurgeToStep, DeleteNodeEnd
    <3>6. CASE SortTopo
      BY <3>6 DEF SortTopo
    <3> QED  BY <2>1, <3>1, <3>2, <3>3, <3>4, <3>5, <3>6 DEF Sound
  <2>2. CASE \E f, t \in Handle \cup {Nil}, ty \in EdgeTypes : AddEdgeNil(f, t, ty)
    <3>1. PICK f \in Handle \cup {Nil}, t \in Handle \cup {Nil}, ty \in EdgeTypes :
              AddEdgeNil(f, t, ty)
      BY <2>2
    <3>2. AddEdgePanics(f, t, ty)
      BY <3>1 DEF AddEdgeNil, AddEdgeLoop, AddEdgeExisting
    <3>3. PICK e \in EdgePtr : edgeTyp[e] = Nil /\ edgeTyp' = [edgeTyp EXCEPT ![e] = ty]
      BY <3>2 DEF AddEdgePanics, EdgeExists
    <3>4. edgeTyp'[e] = ty /\ ty # Nil
      BY <3>3, CallsAssumption, DataAssumption DEF RecoveredInv, Typed
    <3> QED  BY <3>3, <3>4
  <2>3. CASE \E e \in EdgePtr : DeleteEdgePanics(e)
    BY <2>3 DEF DeleteEdgePanics
  <2>4. CASE DeleteNodePanics
    BY <2>4 DEF DeleteNodePanics, AtHalf
  <2>5. CASE SortTopoPanics
    BY <2>5, WalkMeetsNil DEF SortTopoPanics
  <2> QED  BY <2>1, <2>2, <2>3, <2>4, <2>5 DEF RecoveredNext
<1> QED  BY <1>1, RecoveredAlways, PTL DEF RecoveredSpec, PanicsExplained
=============================================================================
