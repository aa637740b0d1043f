----------------------------- MODULE Recovered -----------------------------
(***************************************************************************)
(* A graph whose caller passes on the nil that Find returns for an unknown  *)
(* id, and recovers from the panics that follow.  Nothing is rolled back: a  *)
(* panic keeps every assignment made before it.                             *)
(*   - AddEdge panics where it appends to the list of a nil endpoint, with    *)
(*     the half edge already in g.edges and edgesById;                       *)
(*   - DeleteEdge panics where it comes to the nil endpoint of such an edge;  *)
(*   - DeleteNode panics in its first loop, at an edge that leads to nil;     *)
(*   - SortTopo panics in a walk that comes to a nil node or a nil edge.      *)
(* The other calls are those of LilGraph.                                   *)
(***************************************************************************)
EXTENDS LilGraph

CONSTANTS Declared,  \* bounds: the ids and types that AddNode is called with,
          EdgeTypes  \*   and the types that AddEdge is

ASSUME CallsAssumption == /\ Declared \subseteq Id \X Type
                          /\ EdgeTypes \subseteq Type

VARIABLES misused,   \* history: whether a nil has been passed to AddEdge,
          broken     \*   and the nodes whose DeleteNode has panicked

allVars == <<vars, misused, broken>>

(* The edges of the graph with no node at one end.                           *)
Half == {e \in ToSet(edges) : Nil \in {from[e], to[e]}}

-----------------------------------------------------------------------------
(* Mutant: AddEdge appends to the lists before it files the edge.             *)
AddEdgePanicsUnfiled(f, t, ty) ==
    /\ edgesById[<<f, t, ty>>] = Nil
    /\ \E e \in EdgePtr :
          /\ ~EdgeExists(e)
          /\ from' = [from EXCEPT ![e] = f] /\ to' = [to EXCEPT ![e] = t]
          /\ edgeTyp' = [edgeTyp EXCEPT ![e] = ty]
          /\ edgesFrom' = IF f = Nil THEN edgesFrom
                          ELSE [edgesFrom EXCEPT ![f] = Append(@, e)]
    /\ ret' = "panic"
    /\ UNCHANGED <<graphVars, id, typ, edgesTo, loopVars>>

(* AddEdge(from, to, edgeType) with one endpoint nil and an identity that     *)
(* edgesById does not have.                                                  *)
AddEdgePanics(f, t, ty) ==
    /\ edgesById[<<f, t, ty>>] = Nil
    /\ \E e \in EdgePtr :
          /\ ~EdgeExists(e)
          /\ from' = [from EXCEPT ![e] = f] /\ to' = [to EXCEPT ![e] = t]
          /\ edgeTyp' = [edgeTyp EXCEPT ![e] = ty]
          /\ edges' = Append(edges, e)
          /\ edgesById' = [edgesById EXCEPT ![<<f, t, ty>>] = e]
          /\ edgesFrom' = IF f = Nil THEN edgesFrom
                          ELSE [edgesFrom EXCEPT ![f] = Append(@, e)]
    /\ ret' = "panic"
    /\ UNCHANGED <<nodes, nodesById, id, typ, edgesTo, loopVars>>

AddEdgeNil(f, t, ty) ==
    /\ pc = "idle" /\ Nil \in {f, t}
    /\ \/ AddEdgeLoop(f, t, ty) \/ AddEdgeExisting(f, t, ty)
       \/ f # t /\ AddEdgePanics(f, t, ty)
    /\ misused' = TRUE
    /\ UNCHANGED broken

(* Mutant: deleteEdge leaves edgesById to the end.                            *)
DeleteEdgePanicsIndexLast(e) ==
    /\ pc = "idle" /\ e \in Half
    /\ edges' = DeleteFirst(edges, e)
    /\ edgesFrom' = IF from[e] = Nil THEN edgesFrom
                    ELSE [edgesFrom EXCEPT ![from[e]] = DeleteFunc(@, e)]
    /\ ret' = "panic"
    /\ UNCHANGED <<nodes, nodesById, edgesById, id, typ, edgesTo, edgeVars, loopVars>>
    /\ UNCHANGED <<misused, broken>>

(* deleteEdge(e, true, true) up to the nil endpoint.                          *)
DeleteEdgePanics(e) ==
    /\ pc = "idle" /\ e \in Half
    /\ edges' = DeleteFirst(edges, e)
    /\ edgesById' = [edgesById EXCEPT ![<<from[e], to[e], edgeTyp[e]>>] = Nil]
    /\ edgesFrom' = IF from[e] = Nil THEN edgesFrom
                    ELSE [edgesFrom EXCEPT ![from[e]] = DeleteFunc(@, e)]
    /\ ret' = "panic"
    /\ UNCHANGED <<nodes, nodesById, id, typ, edgesTo, edgeVars, loopVars>>
    /\ UNCHANGED <<misused, broken>>

(* The iteration of DeleteNode's first loop that comes to an edge without an  *)
(* end: deleteEdge(e, false, true) with e.from already nil.                   *)
AtHalf == pc = "purgeFrom" /\ i <= Len(edgesFrom[cur]) /\ edgesFrom[cur][i] \in Half

DeleteNodePanics ==
    /\ AtHalf
    /\ LET e == edgesFrom[cur][i] IN
          /\ from' = [from EXCEPT ![e] = Nil]
          /\ edgesFrom' = [edgesFrom EXCEPT ![cur][i] = Nil]
          /\ edges' = DeleteFirst(edges, e)
          /\ edgesById' = [edgesById EXCEPT ![<<Nil, to[e], edgeTyp[e]>>] = Nil]
    /\ pc' = "idle" /\ cur' = Nil /\ i' = 1
    /\ ret' = "panic"
    /\ broken' = broken \cup {cur}
    /\ UNCHANGED <<nodes, nodesById, id, typ, edgesTo, to, edgeTyp, misused>>

(* Where the walks of SortTopo lead; the nils they meet; the nodes they reach.*)
Met(n) == ({Nil} \cap ToSet(edgesFrom[n])) \cup {to[e] : e \in ToSet(edgesFrom[n]) \ {Nil}}
ends   == [n \in NodePtr |-> Met(n) \ {Nil}]
Walked == UNION {Level(Apexes, ends, d) : d \in 0..Cardinality(NodePtr)}

(* A walk that meets a nil panics, if no walk before it has met a cycle.      *)
SortTopoPanics ==
    /\ pc = "idle" /\ \E n \in Walked : Nil \in Met(n)
    /\ ret' \in {"panic"} \cup {r \in {"ErrCyclic"} : WalkRepeats(NodePtr, Apexes, ends)}
    /\ UNCHANGED <<graphVars, nodeVars, edgeVars, loopVars, misused, broken>>

-----------------------------------------------------------------------------
(* The calls and steps that do not panic.                                     *)
Sound ==
    \/ \E d \in Declared : AddNode(d[1], d[2])
    \/ \E f, t \in Handle, ty \in EdgeTypes : AddEdge(f, t, ty)
    \/ \E e \in EdgePtr \ Half : EdgeExists(e) /\ DeleteEdge(e)
    \/ \E n \in Handle : DeleteNodeStart(n)
    \/ \E n \in Handle \cup broken : DeleteNodeAbsent(n)
    \/ ~AtHalf /\ PurgeFromStep
    \/ PurgeFromDone \/ PurgeToStep \/ DeleteNodeEnd
    \/ (\A n \in Walked : Nil \notin Met(n)) /\ SortTopo

RecoveredNext ==
    \/ Sound /\ UNCHANGED <<misused, broken>>
    \/ \E f, t \in Handle \cup {Nil}, ty \in EdgeTypes : AddEdgeNil(f, t, ty)
    \/ \E e \in EdgePtr : DeleteEdgePanics(e)
    \/ DeleteNodePanics
    \/ SortTopoPanics

RecoveredInit == Init /\ misused = FALSE /\ broken = {}
RecoveredSpec == RecoveredInit /\ [][RecoveredNext]_allVars

-----------------------------------------------------------------------------
(* Whatever panics there have been: nodes and nodesById agree, and the lists  *)
(* of a node of the graph have the edges of the graph at it, each once and    *)
(* no other, but for the edges from nil, which are in no list.  So a half     *)
(* edge is still found by what must delete it, and the other edges by all.    *)
ListsSurvive ==
    /\ NodesIndexed
    /\ \A n \in NodePtr \ broken :
        /\ Lists(edgesFrom[n], OutPurged(n), EdgesOut(n))
        /\ Lists(edgesTo[n], InPurged(n), EdgesIn(n) \ {e \in Half : from[e] = Nil})

(* An endpoint outside the graph is nil, or the other end of an edge from     *)
(* nil, or a node whose DeleteNode is running or has panicked.  Without       *)
(* misuse there is only the running one: EndpointsLive.                       *)
EndsAccounted ==
    \A e \in ToSet(edges) :
        /\ from[e] \in ToSet(nodes) \cup {cur, Nil} \cup broken
        /\ from[e] # Nil => to[e] \in ToSet(nodes) \cup {cur, Nil} \cup broken
        /\ ~misused => EndpointsLive

(* DeleteEdge on a half edge panics, but puts the graph right: without half   *)
(* edges, and unless DeleteNode has panicked, everything is as if no nil had  *)
(* ever been passed, the index included.                                     *)
Healed == Half = {} /\ broken = {} => EdgesWired /\ AdjacencyExact /\ IndexLive

(* A call other than AddEdge with a nil panics only if the graph has a half   *)
(* edge, or an edge at a node whose DeleteNode has panicked.                  *)
PanicsExplained ==
    [][ret' = "panic" /\ pc' = "idle" /\ edgeTyp' = edgeTyp =>
          \/ Half # {}
          \/ \E e \in ToSet(edges) : to[e] \in broken]_allVars

(* Until a caller passes a nil, the graph is the graph of ids that it         *)
(* promises to be: the four collections and the adjacency lists never let one *)
(* call's answer contradict another's, and SortTopo fails only on a cycle.    *)
AbstractUntilMisused ==
    Abstract!Init /\ [][~misused' => Abstract!Next]_<<typeOf, arcs, result>>
=============================================================================
