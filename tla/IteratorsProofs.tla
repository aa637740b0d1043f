-------------------------- MODULE IteratorsProofs --------------------------
(***************************************************************************)
(* Proofs about Iterators, for every graph that a loop may begin with, every *)
(* slice it may be over and every sequence of calls its body may make.       *)
(***************************************************************************)
EXTENDS Iterators, LilGraphProofs

-----------------------------------------------------------------------------
(* The graph that the loop begins with satisfies GraphInv.                   *)

LEMMA StartNodeFacts ==
    /\ StartPtrs \subseteq NodePtr
    /\ \A n \in StartPtrs : IdOf(n) \in ValidId
    /\ \A n, m \in StartPtrs : IdOf(n) = IdOf(m) => n = m
    /\ \A n \in StartPtrs : \E j \in 1..Len(StartNodes) : n = StartNodes[j][1]
    /\ \A j \in 1..Len(StartNodes) : StartNodes[j][1] \in StartPtrs
    /\ \A j, k \in 1..Len(StartNodes) : StartNodes[j][1] = StartNodes[k][1] => j = k
<1>1. \A j \in 1..Len(StartNodes) : StartNodes[j] \in NodePtr \X ValidId
  BY StartAssumption
<1>2. \A j \in 1..Len(StartNodes) : StartNodes[j][1] \in NodePtr /\ StartNodes[j][2] \in ValidId
  BY <1>1
<1>3. \A j, k \in 1..Len(StartNodes) :
         StartNodes[j][1] = StartNodes[k][1] \/ StartNodes[j][2] = StartNodes[k][2] => j = k
  BY StartAssumption
<1>4. ASSUME NEW j \in 1..Len(StartNodes)
      PROVE  IdOf(StartNodes[j][1]) = StartNodes[j][2]
  <2> DEFINE at == CHOOSE k \in 1..Len(StartNodes) : StartNodes[k][1] = StartNodes[j][1]
  <2>1. at \in 1..Len(StartNodes) /\ StartNodes[at][1] = StartNodes[j][1]
    OBVIOUS
  <2>2. IdOf(StartNodes[j][1]) = StartNodes[at][2]
    BY DEF IdOf
  <2> HIDE DEF at
  <2> QED  BY <1>3, <2>1, <2>2
<1>5. /\ \A n \in StartPtrs : \E j \in 1..Len(StartNodes) : n = StartNodes[j][1]
      /\ \A j \in 1..Len(StartNodes) : StartNodes[j][1] \in StartPtrs
  BY DEF StartPtrs
<1> QED  BY <1>2, <1>3, <1>4, <1>5

LEMMA StartEdgeFacts ==
    ASSUME NEW es \in StartEdges
    PROVE  /\ es \in Seq(EdgePtr \X StartPtrs \X StartPtrs \X Type)
           /\ \A j \in 1..Len(es) : /\ es[j][1] \in EdgePtr /\ es[j][2] \in StartPtrs
                                    /\ es[j][3] \in StartPtrs /\ es[j][4] \in Type
                                    /\ es[j][2] # es[j][3]
                                    /\ \A k \in {2, 3, 4} : End(es, es[j][1], k) = es[j][k]
           /\ \A j, k \in 1..Len(es) :
                 \/ es[j][1] = es[k][1]
                 \/ es[j][2] = es[k][2] /\ es[j][3] = es[k][3] /\ es[j][4] = es[k][4]
                 => j = k
           /\ PtrsOf(es) \in Seq(EdgePtr) /\ Len(PtrsOf(es)) = Len(es)
           /\ \A j \in 1..Len(es) : PtrsOf(es)[j] = es[j][1]
           /\ IsInjective(PtrsOf(es))
<1>1. es \in Seq(EdgePtr \X StartPtrs \X StartPtrs \X Type)
  BY StartAssumption
<1>2. \A j \in 1..Len(es) : es[j] \in EdgePtr \X StartPtrs \X StartPtrs \X Type
  BY <1>1
<1>3. \A j \in 1..Len(es) : /\ es[j][1] \in EdgePtr /\ es[j][2] \in StartPtrs
                            /\ es[j][3] \in StartPtrs /\ es[j][4] \in Type
  BY <1>2
<1>4. /\ \A j \in 1..Len(es) : es[j][2] # es[j][3]
      /\ \A j, k \in 1..Len(es) :
            \/ es[j][1] = es[k][1]
            \/ es[j][2] = es[k][2] /\ es[j][3] = es[k][3] /\ es[j][4] = es[k][4]
            => j = k
  BY StartAssumption
<1>5. ASSUME NEW j \in 1..Len(es), NEW k \in {2, 3, 4}
      PROVE  End(es, es[j][1], k) = es[j][k]
  <2> DEFINE at == CHOOSE m \in 1..Len(es) : es[m][1] = es[j][1]
  <2>1. at \in 1..Len(es) /\ es[at][1] = es[j][1]
    OBVIOUS
  <2>2. End(es, es[j][1], k) = es[at][k]
    BY DEF End
  <2> HIDE DEF at
  <2>3. at = j
    BY <1>4, <2>1
  <2> QED  BY <2>2, <2>3
<1>6. /\ PtrsOf(es) \in Seq(EdgePtr) /\ Len(PtrsOf(es)) = Len(es)
      /\ \A j \in 1..Len(es) : PtrsOf(es)[j] = es[j][1]
  <2>1. Len(es) \in Nat
    BY <1>1
  <2> QED  BY <1>3, <2>1 DEF PtrsOf
<1>7. IsInjective(PtrsOf(es))
  BY <1>4, <1>6, InjectiveSeq
<1> QED  BY <1>1, <1>3, <1>4, <1>5, <1>6, <1>7

(* One of the adjacency lists of the graph that the loop begins with.         *)
LEMMA StartLists ==
    ASSUME NEW es \in StartEdges, NEW n, NEW k \in {2, 3}
    PROVE  /\ At(es, n, k) \in Seq(EdgePtr)
           /\ Lists(At(es, n, k), 0, {e \in ToSet(PtrsOf(es)) : End(es, e, k) = n})
<1> DEFINE s == PtrsOf(es)
           I == {j \in 1..Len(es) : es[j][k] = n}
           list == KeepAt(s, I)
           S == {e \in ToSet(s) : End(es, e, k) = n}
<1>1. /\ s \in Seq(EdgePtr) /\ Len(s) = Len(es) /\ IsInjective(s)
      /\ \A j \in 1..Len(s) : End(es, s[j], k) = es[j][k]
  <2>1. /\ PtrsOf(es) \in Seq(EdgePtr) /\ Len(PtrsOf(es)) = Len(es)
        /\ \A j \in 1..Len(es) : PtrsOf(es)[j] = es[j][1]
        /\ IsInjective(PtrsOf(es))
    BY StartEdgeFacts
  <2>2. k \in {2, 3, 4}
    OBVIOUS
  <2>3. \A j \in 1..Len(es) : End(es, es[j][1], k) = es[j][k]
    BY <2>2, StartEdgeFacts
  <2> QED  BY <2>1, <2>3
<1>2. I \in SUBSET (1..Len(s))
  BY <1>1
<1>3. \A j \in 1..Len(s) : j \in I <=> s[j] \in S
  BY <1>1, ToSetOfSeq
<1>4. \A e \in S : \E j \in 1..Len(s) : e = s[j]
  BY <1>1, ToSetOfSeq
<1>5. \A j, m \in 1..Len(s) : s[j] = s[m] => j = m
  BY <1>1, InjectiveSeq
<1>6. At(es, n, k) = list
  BY DEF At
<1> HIDE DEF I, S, s
<1>7. /\ list \in Seq(EdgePtr)
      /\ \E h \in [1..Len(list) -> 1..Len(s)] :
            /\ \A m \in 1..Len(list) : h[m] \in I /\ list[m] = s[h[m]]
            /\ \A j \in I : \E m \in 1..Len(list) : h[m] = j
            /\ \A j, m \in 1..Len(list) : h[j] < h[m] <=> j < m
  BY <1>1, <1>2, KeepAtFacts
<1> HIDE DEF list
<1>8. PICK h \in [1..Len(list) -> 1..Len(s)] :
         /\ \A m \in 1..Len(list) : h[m] \in I /\ list[m] = s[h[m]]
         /\ \A j \in I : \E m \in 1..Len(list) : h[m] = j
         /\ \A j, m \in 1..Len(list) : h[j] < h[m] <=> j < m
  BY <1>7
<1>9. \A m \in 1..Len(list) : h[m] \in 1..Len(s) /\ list[m] \in S /\ ~(m <= 0)
  BY <1>3, <1>8
<1>10. ASSUME NEW j \in 1..Len(list), NEW m \in 1..Len(list), list[j] = list[m]
       PROVE  j = m
  <2>1. h[j] = h[m]
    BY <1>5, <1>8, <1>9, <1>10
  <2>2. h[j] \in Int
    BY <1>9
  <2> QED  BY <1>8, <2>1, <2>2
<1>11. S \subseteq ToSet(list)
  <2> SUFFICES ASSUME NEW e \in S PROVE e \in ToSet(list)
    OBVIOUS
  <2>1. PICK j \in I : e = s[j]
    BY <1>3, <1>4
  <2>2. PICK m \in 1..Len(list) : list[m] = e
    BY <1>8, <2>1
  <2> QED  BY <1>7, <2>2, ToSetOfSeq
<1>12. Lists(list, 0, S)
  BY <1>9, <1>10, <1>11 DEF Lists
<1> QED  BY <1>6, <1>7, <1>12 DEF S, s

LEMMA StartGraphInv ==
    ASSUME NEW es \in StartEdges, StartGraph(es), ret \in Answer
    PROVE  GraphInv
<1>1. /\ nodes = [j \in 1..Len(StartNodes) |-> StartNodes[j][1]]
      /\ edges = PtrsOf(es)
      /\ id = [n \in NodePtr |-> IF n \in StartPtrs THEN IdOf(n) ELSE Nil]
      /\ typ = [n \in NodePtr |-> Untyped]
      /\ from = [e \in EdgePtr |-> End(es, e, 2)]
      /\ to = [e \in EdgePtr |-> End(es, e, 3)]
      /\ edgeTyp = [e \in EdgePtr |-> End(es, e, 4)]
      /\ edgesFrom = [n \in NodePtr |-> At(es, n, 2)]
      /\ edgesTo = [n \in NodePtr |-> At(es, n, 3)]
      /\ pc = "idle" /\ cur = Nil /\ i = 1
  BY DEF StartGraph
<1>2. /\ nodes \in Seq(NodePtr) /\ ToSet(nodes) = StartPtrs /\ IsInjective(nodes)
  <2>1. Len(StartNodes) \in Nat
    BY StartAssumption
  <2>2. nodes \in Seq(NodePtr) /\ Len(nodes) = Len(StartNodes)
    BY <1>1, <2>1, StartNodeFacts
  <2>3. \A j \in 1..Len(nodes) : nodes[j] = StartNodes[j][1]
    BY <1>1, <2>2
  <2>4. ToSet(nodes) = StartPtrs
    <3>1. /\ \A j \in 1..Len(nodes) : nodes[j] \in ToSet(nodes)
          /\ \A n \in ToSet(nodes) : \E j \in 1..Len(nodes) : nodes[j] = n
      BY <2>2, ToSetOfSeq
    <3>2. \A n \in StartPtrs : \E j \in 1..Len(nodes) : n = nodes[j]
      BY <2>2, <2>3, StartNodeFacts
    <3>3. \A j \in 1..Len(nodes) : nodes[j] \in StartPtrs
      BY <2>2, <2>3, StartNodeFacts
    <3>4. ToSet(nodes) \subseteq StartPtrs
      BY <3>1, <3>3
    <3>5. StartPtrs \subseteq ToSet(nodes)
      BY <3>1, <3>2
    <3> QED  BY <3>4, <3>5
  <2>5. IsInjective(nodes)
    <3>1. \A j, k \in 1..Len(nodes) : nodes[j] = nodes[k] => j = k
      BY <2>2, <2>3, StartNodeFacts
    <3> QED  BY <2>2, <3>1, InjectiveSeq
  <2> QED  BY <2>2, <2>4, <2>5
<1>3. /\ \A n \in StartPtrs : n \in NodePtr /\ id[n] = IdOf(n) /\ id[n] \in ValidId /\ id[n] # Nil
      /\ \A n, m \in StartPtrs : id[n] = id[m] => n = m
      /\ id \in [NodePtr -> Id \cup {Nil}]
  BY <1>1, StartNodeFacts, DataAssumption
<1>4. /\ \A n \in StartPtrs : nodesById[id[n]] = n
      /\ \A x \in Id : nodesById[x] # Nil =>
            nodesById[x] \in StartPtrs /\ id[nodesById[x]] = x
      /\ nodesById \in [Id -> Ptr]
  <2>1. nodesById = [x \in Id |-> IF \E n \in StartPtrs : id[n] = x
                                  THEN CHOOSE n \in StartPtrs : id[n] = x ELSE Nil]
    BY DEF StartGraph
  <2>2. ASSUME NEW x \in Id, NEW n \in StartPtrs, id[n] = x
        PROVE  nodesById[x] = n
    <3> DEFINE m == CHOOSE m \in StartPtrs : id[m] = x
    <3>1. m \in StartPtrs /\ id[m] = x
      BY <2>2
    <3>2. nodesById[x] = m
      BY <2>1, <2>2
    <3> HIDE DEF m
    <3> QED  BY <1>3, <2>2, <3>1, <3>2
  <2>3. ASSUME NEW x \in Id
        PROVE  \/ nodesById[x] = Nil
               \/ nodesById[x] \in StartPtrs /\ id[nodesById[x]] = x
    <3>1. CASE \E n \in StartPtrs : id[n] = x
      BY <2>2, <3>1
    <3>2. CASE ~\E n \in StartPtrs : id[n] = x
      BY <2>1, <3>2
    <3> QED  BY <3>1, <3>2
  <2>4. nodesById \in [Id -> Ptr]
    <3>1. \A x \in Id : nodesById[x] \in Ptr
      BY <1>3, <2>3 DEF Ptr
    <3> QED  BY <2>1, <3>1
  <2> QED  BY <1>3, <2>2, <2>3, <2>4, DataAssumption
<1>5. /\ edges \in Seq(EdgePtr) /\ IsInjective(edges)
      /\ \A e \in ToSet(edges) :
            /\ e \in EdgePtr /\ e # Nil
            /\ from[e] \in StartPtrs /\ to[e] \in StartPtrs /\ from[e] # to[e]
            /\ edgeTyp[e] \in Type /\ edgeTyp[e] # Nil
      /\ \A e, f \in ToSet(edges) :
            from[e] = from[f] /\ to[e] = to[f] /\ edgeTyp[e] = edgeTyp[f] => e = f
  <2>1. edges \in Seq(EdgePtr) /\ IsInjective(edges) /\ Len(edges) = Len(es)
    BY <1>1, StartEdgeFacts
  <2>2. \A e \in ToSet(edges) : \E j \in 1..Len(es) : e = es[j][1]
    BY <1>1, <2>1, ToSetOfSeq, StartEdgeFacts
  <2>3. \A j \in 1..Len(es) :
           /\ es[j][1] \in EdgePtr /\ from[es[j][1]] = es[j][2] /\ to[es[j][1]] = es[j][3]
           /\ edgeTyp[es[j][1]] = es[j][4]
    BY <1>1, StartEdgeFacts
  <2>4. \A e \in ToSet(edges) :
           /\ e \in EdgePtr /\ from[e] \in StartPtrs /\ to[e] \in StartPtrs
           /\ from[e] # to[e] /\ edgeTyp[e] \in Type
    BY <2>2, <2>3, StartEdgeFacts
  <2>5. \A e, f \in ToSet(edges) :
           from[e] = from[f] /\ to[e] = to[f] /\ edgeTyp[e] = edgeTyp[f] => e = f
    BY <2>2, <2>3, StartEdgeFacts
  <2> QED  BY <2>1, <2>4, <2>5, DataAssumption, NilIsNoPointer
<1>6. ASSUME NEW e \in EdgePtr
      PROVE  from[e] \in Ptr /\ to[e] \in Ptr /\ edgeTyp[e] \in Type \cup {Nil}
  <2>1. CASE \E j \in 1..Len(es) : es[j][1] = e
    <3>1. PICK j \in 1..Len(es) : es[j][1] = e
      BY <2>1
    <3>2. /\ from[e] = es[j][2] /\ to[e] = es[j][3] /\ edgeTyp[e] = es[j][4]
          /\ es[j][2] \in StartPtrs /\ es[j][3] \in StartPtrs /\ es[j][4] \in Type
      BY <1>1, <3>1, StartEdgeFacts
    <3> QED  BY <3>2, StartNodeFacts DEF Ptr
  <2>2. CASE ~\E j \in 1..Len(es) : es[j][1] = e
    <3>1. from[e] = Nil /\ to[e] = Nil /\ edgeTyp[e] = Nil
      BY <1>1, <2>2 DEF End
    <3> QED  BY <3>1 DEF Ptr
  <2> QED  BY <2>1, <2>2
<1>7. /\ edgesById \in [EdgeIdentity -> EdgePtr \cup {Nil}]
      /\ \A e \in ToSet(edges) : edgesById[<<from[e], to[e], edgeTyp[e]>>] = e
      /\ \A k \in EdgeIdentity : edgesById[k] # Nil =>
            edgesById[k] \in ToSet(edges)
            /\ k = <<from[edgesById[k]], to[edgesById[k]], edgeTyp[edgesById[k]]>>
  <2> DEFINE Key(e) == <<from[e], to[e], edgeTyp[e]>>
  <2>1. edgesById = [k \in EdgeIdentity |->
                        IF \E e \in ToSet(edges) : k = Key(e)
                        THEN CHOOSE e \in ToSet(edges) : k = Key(e) ELSE Nil]
    BY DEF StartGraph
  <2>2. /\ \A e \in ToSet(edges) : Key(e) \in EdgeIdentity /\ e \in EdgePtr
        /\ \A e, f \in ToSet(edges) : Key(e) = Key(f) => e = f
    <3>1. \A e \in ToSet(edges) : from[e] \in Ptr /\ to[e] \in Ptr /\ edgeTyp[e] \in Type
      BY <1>5, <1>6
    <3> QED  BY <1>5, <3>1 DEF EdgeIdentity
  <2> HIDE DEF Key
  <2>3. ASSUME NEW k \in EdgeIdentity, NEW e \in ToSet(edges), k = Key(e)
        PROVE  edgesById[k] = e
    <3> DEFINE f == CHOOSE f \in ToSet(edges) : k = Key(f)
    <3>1. f \in ToSet(edges) /\ k = Key(f)
      BY <2>3
    <3>2. edgesById[k] = f
      BY <2>1, <2>3
    <3> HIDE DEF f
    <3> QED  BY <2>2, <2>3, <3>1, <3>2
  <2>4. ASSUME NEW k \in EdgeIdentity
        PROVE  edgesById[k] # Nil => edgesById[k] \in ToSet(edges) /\ k = Key(edgesById[k])
    <3>1. CASE \E e \in ToSet(edges) : k = Key(e)
      BY <2>3, <3>1
    <3>2. CASE ~\E e \in ToSet(edges) : k = Key(e)
      BY <2>1, <3>2
    <3> QED  BY <3>1, <3>2
  <2>5. edgesById \in [EdgeIdentity -> EdgePtr \cup {Nil}]
    <3>1. \A k \in EdgeIdentity : edgesById[k] \in EdgePtr \cup {Nil}
      BY <2>2, <2>4
    <3> QED  BY <2>1, <3>1
  <2>6. /\ \A e \in ToSet(edges) : edgesById[Key(e)] = e
        /\ \A k \in EdgeIdentity : edgesById[k] # Nil =>
              edgesById[k] \in ToSet(edges) /\ k = Key(edgesById[k])
    BY <2>2, <2>3, <2>4
  <2> QED  BY <2>5, <2>6 DEF Key
<1>8. \A n \in NodePtr :
         /\ edgesFrom[n] \in Seq(EdgePtr) /\ Lists(edgesFrom[n], 0, EdgesOut(n))
         /\ edgesTo[n] \in Seq(EdgePtr) /\ Lists(edgesTo[n], 0, EdgesIn(n))
  <2> SUFFICES ASSUME NEW n \in NodePtr
               PROVE  /\ edgesFrom[n] \in Seq(EdgePtr) /\ Lists(edgesFrom[n], 0, EdgesOut(n))
                      /\ edgesTo[n] \in Seq(EdgePtr) /\ Lists(edgesTo[n], 0, EdgesIn(n))
    OBVIOUS
  <2>1. \A e \in ToSet(edges) : from[e] = End(es, e, 2) /\ to[e] = End(es, e, 3)
    BY <1>1, <1>5
  <2>2. /\ EdgesOut(n) = {e \in ToSet(PtrsOf(es)) : End(es, e, 2) = n}
        /\ EdgesIn(n) = {e \in ToSet(PtrsOf(es)) : End(es, e, 3) = n}
    BY <1>1, <2>1 DEF EdgesOut, EdgesIn
  <2>3. edgesFrom[n] = At(es, n, 2) /\ edgesTo[n] = At(es, n, 3)
    BY <1>1
  <2> QED  BY <2>2, <2>3, StartLists
<1>9. TypeOK
  <2>1. /\ edgesFrom \in [NodePtr -> Seq(EdgePtr \cup {Nil})]
        /\ edgesTo \in [NodePtr -> Seq(EdgePtr \cup {Nil})]
    <3>1. \A n \in NodePtr : /\ edgesFrom[n] \in Seq(EdgePtr \cup {Nil})
                             /\ edgesTo[n] \in Seq(EdgePtr \cup {Nil})
      BY <1>8
    <3> QED  BY <1>1, <3>1
  <2>2. /\ from \in [EdgePtr -> Ptr] /\ to \in [EdgePtr -> Ptr]
        /\ edgeTyp \in [EdgePtr -> Type \cup {Nil}]
    BY <1>1, <1>6
  <2>3. typ \in [NodePtr -> Type]
    BY <1>1, DataAssumption
  <2>4. 1 \in Nat \ {0}
    OBVIOUS
  <2> QED
    BY <1>1, <1>2, <1>3, <1>4, <1>5, <1>7, <2>1, <2>2, <2>3, <2>4 DEF TypeOK, Answer
<1>10. NodesIndexed
  BY <1>1, <1>2, <1>3, <1>4 DEF NodesIndexed, InGraph
<1>11. EdgesWired
  BY <1>3, <1>5, <1>7 DEF EdgesWired, EdgeExists, NodeExists
<1>12. AdjacencyExact
  <2>1. \A n \in NodePtr : OutPurged(n) = 0 /\ InPurged(n) = 0
    BY <1>1, NilIsNoPointer DEF OutPurged, InPurged
  <2> QED  BY <1>8, <2>1 DEF AdjacencyExact
<1>13. IndexLive
  <2> SUFFICES ASSUME NEW k \in EdgeIdentity, edgesById[k] # Nil
               PROVE  LET e == edgesById[k] IN
                      /\ edgeTyp[e] = k[3]
                      /\ k[1] \in NodePtr /\ NodeExists(k[1])
                      /\ k[2] \in NodePtr /\ NodeExists(k[2])
                      /\ e \in ToSet(edges) /\ from[e] = k[1] /\ to[e] = k[2]
    BY DEF IndexLive
  <2> DEFINE e == edgesById[k]
  <2>1. e \in ToSet(edges) /\ k = <<from[e], to[e], edgeTyp[e]>>
    BY <1>7
  <2>2. k[1] = from[e] /\ k[2] = to[e] /\ k[3] = edgeTyp[e]
    BY <2>1
  <2> HIDE DEF e
  <2>3. /\ from[e] \in NodePtr /\ NodeExists(from[e])
        /\ to[e] \in NodePtr /\ NodeExists(to[e])
    BY <1>3, <1>5, <2>1 DEF NodeExists
  <2> QED  BY <2>1, <2>2, <2>3 DEF e
<1> QED  BY <1>9, <1>10, <1>11, <1>12, <1>13 DEF GraphInv

-----------------------------------------------------------------------------
(* What a slice holds.                                                       *)

(* The pointers a slice may hold: those that have been allocated.            *)
Alloc(s) == IF s.of = "nodes" THEN {n \in NodePtr : NodeExists(n)}
            ELSE {e \in EdgePtr : EdgeExists(e)}

LEMMA SliceFacts ==
    ASSUME NEW s \in Slices
    PROVE  /\ s.of \in {"nodes", "edges", "out", "in", "find"}
           /\ s.of \notin {"nodes", "edges"} => s.node \in NodePtr
           /\ s.of = "find" => s.goal \in NodePtr
           /\ s.of = "nodes" => Content(s) = nodes
           /\ s.of = "edges" => Content(s) = edges
           /\ s.of \in {"out", "find"} => Content(s) = edgesFrom[s.node]
           /\ s.of = "in" => Content(s) = edgesTo[s.node]
<1>1. CASE s \in [of : {"nodes", "edges"}]
  BY <1>1 DEF Content
<1>2. CASE s \in [of : {"out", "in"}, node : NodePtr]
  BY <1>2 DEF Content
<1>3. CASE s \in [of : {"find"}, node : NodePtr, goal : NodePtr]
  BY <1>3 DEF Content
<1> QED  BY <1>1, <1>2, <1>3 DEF Slices

(* A slice holds allocated pointers, each once, and nils only where          *)
(* DeleteNode has set them; what it holds of edges is in g.edges.            *)
Holds(s) ==
    /\ Content(s) \in Seq(Alloc(s) \cup {Nil}) /\ Nil \notin Alloc(s)
    /\ RepeatsOnly(Content(s), Nil)
    /\ s.of # "nodes" => ToSet(Content(s)) \subseteq ToSet(edges) \cup {Nil}
    /\ pc = "idle" \/ s.of \in {"nodes", "edges"} => Nil \notin ToSet(Content(s))

LEMMA ListsHold ==
    ASSUME NEW list \in Seq(EdgeSlot), NEW p, NEW S, Lists(list, p, S)
    PROVE  /\ ToSet(list) \subseteq S \cup {Nil} /\ RepeatsOnly(list, Nil)
           /\ \A j \in 1..Len(list) : ~(j <= p) => list[j] \in S
           /\ \A j \in 1..Len(list) : list[j] \in S \cup {Nil}
<1>1. \A x \in ToSet(list) : \E j \in 1..Len(list) : list[j] = x
  BY ToSetOfSeq
<1>2. \A j \in 1..Len(list) : list[j] \in S \cup {Nil} /\ (~(j <= p) => list[j] \in S)
  BY DEF Lists
<1>3. RepeatsOnly(list, Nil)
  BY DEF Lists, RepeatsOnly
<1> QED  BY <1>1, <1>2, <1>3

LEMMA AdjacencyHolds ==
    ASSUME GraphInv, NEW n \in NodePtr
    PROVE  /\ edgesFrom[n] \in Seq(EdgeSlot) /\ edgesTo[n] \in Seq(EdgeSlot)
           /\ RepeatsOnly(edgesFrom[n], Nil) /\ RepeatsOnly(edgesTo[n], Nil)
           /\ ToSet(edgesFrom[n]) \subseteq EdgesOut(n) \cup {Nil}
           /\ ToSet(edgesTo[n]) \subseteq EdgesIn(n) \cup {Nil}
           /\ pc = "idle" => Nil \notin ToSet(edgesFrom[n]) \cup ToSet(edgesTo[n])
<1>1. edgesFrom[n] \in Seq(EdgeSlot) /\ edgesTo[n] \in Seq(EdgeSlot)
  BY DEF GraphInv, TypeOK, EdgeSlot
<1>2. PICK p : Lists(edgesFrom[n], p, EdgesOut(n))
  BY DEF GraphInv, AdjacencyExact
<1>3. PICK q : Lists(edgesTo[n], q, EdgesIn(n))
  BY DEF GraphInv, AdjacencyExact
<1>4. ASSUME pc = "idle"
      PROVE  Nil \notin ToSet(edgesFrom[n]) \cup ToSet(edgesTo[n])
  <2>1. Lists(edgesFrom[n], 0, EdgesOut(n)) /\ Lists(edgesTo[n], 0, EdgesIn(n))
    BY <1>4, IdleLists
  <2>2. Nil \notin EdgesOut(n) \cup EdgesIn(n)
    BY KeysDiffer DEF EdgesOut, EdgesIn
  <2>3. /\ \A j \in 1..Len(edgesFrom[n]) : edgesFrom[n][j] # Nil
        /\ \A j \in 1..Len(edgesTo[n]) : edgesTo[n][j] # Nil
    BY <1>1, <2>1, <2>2 DEF Lists
  <2> QED  BY <1>1, <2>3, ToSetOfSeq
<1> QED  BY <1>1, <1>2, <1>3, <1>4, ListsHold

LEMMA ContentHolds == GraphInv => \A s \in Slices : Holds(s)
<1> SUFFICES ASSUME GraphInv, NEW s \in Slices PROVE Holds(s)
  OBVIOUS
<1>1. CASE s.of = "nodes"
  <2>1. Content(s) = nodes /\ Alloc(s) = {n \in NodePtr : NodeExists(n)}
    BY <1>1, SliceFacts DEF Alloc
  <2>2. nodes \in Seq(NodePtr) /\ IsInjective(nodes)
    BY DEF GraphInv, TypeOK, NodesIndexed
  <2>3. \A j \in 1..Len(nodes) : nodes[j] \in NodePtr /\ NodeExists(nodes[j]) /\ nodes[j] # Nil
    BY <2>2, ToSetOfSeq, NilIsNoPointer, DataAssumption DEF GraphInv, NodesIndexed, NodeExists
  <2>4. nodes \in Seq(Alloc(s) \cup {Nil})
    BY <2>1, <2>2, <2>3
  <2>5. RepeatsOnly(nodes, Nil)
    BY <2>2, InjectiveSeq DEF RepeatsOnly
  <2>6. Nil \notin ToSet(nodes)
    BY <2>2, <2>3, ToSetOfSeq
  <2> QED  BY <1>1, <2>1, <2>4, <2>5, <2>6, NilIsNoPointer DEF Holds
<1>2. CASE s.of # "nodes"
  <2>1. Alloc(s) = {e \in EdgePtr : EdgeExists(e)}
    BY <1>2 DEF Alloc
  <2>2. ToSet(edges) \subseteq Alloc(s) /\ Nil \notin Alloc(s)
    BY <2>1, KeysDiffer, NilIsNoPointer, DataAssumption DEF EdgeExists
  <2>3. edges \in Seq(EdgePtr) /\ IsInjective(edges)
    BY DEF GraphInv, TypeOK, EdgesWired
  <2>4. CASE s.of = "edges"
    <3>1. RepeatsOnly(edges, Nil)
      BY <2>3, InjectiveSeq DEF RepeatsOnly
    <3>2. edges \in Seq(Alloc(s) \cup {Nil})
      <4>1. \A j \in 1..Len(edges) : edges[j] \in Alloc(s)
        BY <2>2, <2>3, ToSetOfSeq
      <4> QED  BY <2>3, <4>1
    <3>3. Content(s) = edges
      BY <2>4, SliceFacts
    <3> QED  BY <1>2, <2>2, <3>1, <3>2, <3>3 DEF Holds
  <2>5. CASE s.of # "edges"
    <3>1. PICK n \in NodePtr : n = s.node
      BY <1>2, <2>5, SliceFacts
    <3>2. Content(s) = edgesFrom[n] \/ Content(s) = edgesTo[n]
      BY <1>2, <2>5, <3>1, SliceFacts
    <3>3. PICK c : c = Content(s)
      OBVIOUS
    <3>4. /\ c \in Seq(EdgeSlot) /\ RepeatsOnly(c, Nil) /\ ToSet(c) \subseteq ToSet(edges) \cup {Nil}
          /\ pc = "idle" => Nil \notin ToSet(c)
      BY <3>2, <3>3, AdjacencyHolds DEF EdgesOut, EdgesIn
    <3>5. c \in Seq(Alloc(s) \cup {Nil})
      <4>1. \A j \in 1..Len(c) : c[j] \in Alloc(s) \cup {Nil}
        BY <2>2, <3>4, ToSetOfSeq
      <4> QED  BY <3>4, <4>1
    <3> QED  BY <1>2, <2>2, <2>5, <3>3, <3>4, <3>5 DEF Holds
  <2> QED  BY <2>4, <2>5
<1> QED  BY <1>1, <1>2

-----------------------------------------------------------------------------
(* What a step of a method does to a slice.                                   *)

Kept(s) ==
    /\ Content(s)' = Content(s)
    /\ s.of = "find" /\ pc = "purgeFrom" /\ cur = s.node =>
          \A j \in 1..Len(Content(s)) : Content(s)[j] = Nil
Grew(s) == \E x \in Alloc(s)' \ Alloc(s) : Content(s)' = Append(Content(s), x)
Lost(s) == \E g \in 1..Len(Content(s)) :
              Content(s)[g] # Nil /\ DropsAt(Content(s), Content(s)', g)
Blanked(s) ==
    /\ \E g \in 1..Len(Content(s)) :
          Content(s)[g] # Nil /\ Content(s)' = [Content(s) EXCEPT ![g] = Nil]
    /\ s.of = "find" => pc' = "purgeFrom" /\ cur' = s.node
Sorted(s) ==
    /\ s.of = "nodes" /\ ret' = "sorted"
    /\ Len(Content(s)') = Len(Content(s)) /\ ToSet(Content(s)') = ToSet(Content(s))
DropOf(s) == /\ pc = "purgeTo" /\ pc' = "idle"
             /\ s.of \in {"out", "in", "find"} /\ s.node = cur
Gone(s) == /\ DropOf(s) /\ Content(s)' = << >>
           /\ \A j \in 1..Len(Content(s)) : Content(s)[j] = Nil

ListStep(s) ==
    \/ ~DropOf(s) /\ (Kept(s) \/ Grew(s) \/ Lost(s) \/ Blanked(s) \/ Sorted(s))
    \/ Gone(s)

(* DeleteFunc finds an edge once.                                            *)
LEMMA FuncDrops ==
    ASSUME NEW list \in Seq(EdgeSlot), RepeatsOnly(list, Nil), NEW e \in ToSet(list), e # Nil
    PROVE  \E g \in 1..Len(list) : list[g] # Nil /\ DropsAt(list, DeleteFunc(list, e), g)
<1>1. PICK g \in 1..Len(list) : list[g] = e
  BY ToSetOfSeq
<1>2. \A j \in 1..Len(list) : list[j] = e <=> j = g
  BY <1>1 DEF RepeatsOnly
<1>3. DropsAt(list, DeleteFunc(list, e), g)
  BY <1>2, DeleteFuncDrops
<1> QED  BY <1>1, <1>3

LEMMA AddNodeLists ==
    ASSUME GraphInv, NEW s \in Slices, NEW x \in Id, NEW t \in Type, AddNode(x, t)
    PROVE  ListStep(s)
<1>1. /\ pc = "idle" /\ UNCHANGED <<edges, edgesFrom, edgesTo>>
      /\ \/ nodes' = nodes
         \/ \E n \in NodePtr : /\ ~NodeExists(n) /\ id' = [id EXCEPT ![n] = x]
                               /\ nodes' = Append(nodes, n)
  BY DEF AddNode, AddNodeInvalid, AddNodeTypeChange, AddNodeExisting, AddNodeNew,
         graphVars, nodeVars
<1>2. ~DropOf(s)
  BY <1>1 DEF DropOf
<1>3. CASE s.of # "nodes" \/ nodes' = nodes
  <2>1. Content(s)' = Content(s)
    BY <1>1, <1>3, SliceFacts DEF Content
  <2> QED  BY <1>1, <1>2, <2>1 DEF ListStep, Kept
<1>4. CASE s.of = "nodes" /\ nodes' # nodes
  <2>1. PICK n \in NodePtr : /\ ~NodeExists(n) /\ id' = [id EXCEPT ![n] = x]
                             /\ nodes' = Append(nodes, n)
    BY <1>1, <1>4
  <2>2. NodeExists(n)'
    BY <2>1, DataAssumption DEF GraphInv, TypeOK, NodeExists
  <2>3. n \in Alloc(s)' \ Alloc(s)
    BY <1>4, <2>1, <2>2 DEF Alloc
  <2>4. Content(s)' = Append(Content(s), n)
    BY <1>4, <2>1 DEF Content
  <2> QED  BY <1>2, <2>3, <2>4 DEF ListStep, Grew
<1> QED  BY <1>3, <1>4

LEMMA AddEdgeLists ==
    ASSUME GraphInv, NEW s \in Slices, NEW f \in Handle, NEW t \in Handle, NEW ty \in Type,
           AddEdge(f, t, ty)
    PROVE  ListStep(s)
<1>1. /\ pc = "idle" /\ nodes' = nodes
      /\ \/ UNCHANGED <<edges, edgesFrom, edgesTo>>
         \/ \E e \in EdgePtr : /\ ~EdgeExists(e) /\ edgeTyp' = [edgeTyp EXCEPT ![e] = ty]
                               /\ edges' = Append(edges, e)
                               /\ edgesFrom' = [edgesFrom EXCEPT ![f] = Append(@, e)]
                               /\ edgesTo' = [edgesTo EXCEPT ![t] = Append(@, e)]
  BY DEF AddEdge, AddEdgeLoop, AddEdgeExisting, AddEdgeNew, graphVars, nodeVars
<1>2. ~DropOf(s)
  BY <1>1 DEF DropOf
<1>3. CASE s.of = "nodes" \/ UNCHANGED <<edges, edgesFrom, edgesTo>>
  <2>1. Content(s)' = Content(s)
    BY <1>1, <1>3, SliceFacts DEF Content
  <2> QED  BY <1>1, <1>2, <2>1 DEF ListStep, Kept
<1>4. CASE s.of # "nodes" /\ ~UNCHANGED <<edges, edgesFrom, edgesTo>>
  <2>1. PICK e \in EdgePtr : /\ ~EdgeExists(e) /\ edgeTyp' = [edgeTyp EXCEPT ![e] = ty]
                             /\ edges' = Append(edges, e)
                             /\ edgesFrom' = [edgesFrom EXCEPT ![f] = Append(@, e)]
                             /\ edgesTo' = [edgesTo EXCEPT ![t] = Append(@, e)]
    BY <1>1, <1>4
  <2>2. EdgeExists(e)'
    BY <2>1, DataAssumption DEF GraphInv, TypeOK, EdgeExists
  <2>3. e \in Alloc(s)' \ Alloc(s)
    BY <1>4, <2>1, <2>2 DEF Alloc
  <2>4. Content(s)' = Append(Content(s), e) \/ Content(s)' = Content(s)
    <3>1. CASE s.of = "edges"
      BY <2>1, <3>1 DEF Content
    <3>2. CASE s.of # "edges"
      <4>1. PICK n \in NodePtr : n = s.node
        BY <1>4, <3>2, SliceFacts
      <4>2. edgesFrom'[n] = Append(edgesFrom[n], e) \/ edgesFrom'[n] = edgesFrom[n]
        BY <2>1 DEF GraphInv, TypeOK
      <4>3. edgesTo'[n] = Append(edgesTo[n], e) \/ edgesTo'[n] = edgesTo[n]
        BY <2>1 DEF GraphInv, TypeOK
      <4> QED  BY <1>4, <3>2, <4>1, <4>2, <4>3, SliceFacts DEF Content
    <3> QED  BY <3>1, <3>2
  <2> QED  BY <1>1, <1>2, <2>3, <2>4 DEF ListStep, Grew, Kept
<1> QED  BY <1>3, <1>4

(* An edge leaves g.edges and the lists at its ends.                          *)
LEMMA EdgesLose ==
    ASSUME GraphInv, NEW e \in ToSet(edges)
    PROVE  /\ \E g \in 1..Len(edges) : edges[g] # Nil /\ DropsAt(edges, DeleteFirst(edges, e), g)
           /\ \E g \in 1..Len(edgesFrom[from[e]]) :
                 /\ edgesFrom[from[e]][g] # Nil
                 /\ DropsAt(edgesFrom[from[e]], DeleteFunc(edgesFrom[from[e]], e), g)
           /\ \E g \in 1..Len(edgesTo[to[e]]) :
                 /\ edgesTo[to[e]][g] # Nil
                 /\ DropsAt(edgesTo[to[e]], DeleteFunc(edgesTo[to[e]], e), g)
<1>1. e # Nil /\ from[e] \in NodePtr /\ to[e] \in NodePtr
  BY KeysDiffer
<1>2. \E g \in 1..Len(edges) : edges[g] # Nil /\ DropsAt(edges, DeleteFirst(edges, e), g)
  <2>1. edges \in Seq(EdgePtr) /\ IsInjective(edges)
    BY DEF GraphInv, TypeOK, EdgesWired
  <2>2. \E g \in 1..Len(edges) : edges[g] = e /\ DropsAt(edges, DeleteFirst(edges, e), g)
    BY <2>1, DeleteFirstDrops
  <2> QED  BY <1>1, <2>2
<1>3. e \in ToSet(edgesFrom[from[e]]) /\ e \in ToSet(edgesTo[to[e]])
  <2>1. /\ EdgesOut(from[e]) \subseteq ToSet(edgesFrom[from[e]])
        /\ EdgesIn(to[e]) \subseteq ToSet(edgesTo[to[e]])
    BY <1>1 DEF GraphInv, AdjacencyExact, Lists
  <2> QED  BY <2>1 DEF EdgesOut, EdgesIn
<1>4. PICK a : a = edgesFrom[from[e]]
  OBVIOUS
<1>5. PICK b : b = edgesTo[to[e]]
  OBVIOUS
<1>6. /\ a \in Seq(EdgeSlot) /\ RepeatsOnly(a, Nil) /\ e \in ToSet(a)
      /\ b \in Seq(EdgeSlot) /\ RepeatsOnly(b, Nil) /\ e \in ToSet(b)
  BY <1>1, <1>3, <1>4, <1>5, AdjacencyHolds
<1>7. \E g \in 1..Len(a) : a[g] # Nil /\ DropsAt(a, DeleteFunc(a, e), g)
  BY <1>1, <1>6, FuncDrops
<1>8. \E g \in 1..Len(b) : b[g] # Nil /\ DropsAt(b, DeleteFunc(b, e), g)
  BY <1>1, <1>6, FuncDrops
<1> QED  BY <1>2, <1>4, <1>5, <1>7, <1>8

LEMMA DeleteEdgeLists ==
    ASSUME GraphInv, NEW s \in Slices, NEW e \in EdgePtr, EdgeExists(e), DeleteEdge(e)
    PROVE  ListStep(s)
<1>1. /\ pc = "idle" /\ nodes' = nodes
      /\ \/ UNCHANGED <<edges, edgesFrom, edgesTo>>
         \/ /\ e \in ToSet(edges) /\ edges' = DeleteFirst(edges, e)
            /\ edgesFrom' = [edgesFrom EXCEPT ![from[e]] = DeleteFunc(@, e)]
            /\ edgesTo' = [edgesTo EXCEPT ![to[e]] = DeleteFunc(@, e)]
  BY DEF DeleteEdge, deleteEdge
<1>2. ~DropOf(s)
  BY <1>1 DEF DropOf
<1>3. CASE s.of = "nodes" \/ UNCHANGED <<edges, edgesFrom, edgesTo>>
  <2>1. Content(s)' = Content(s)
    BY <1>1, <1>3, SliceFacts DEF Content
  <2> QED  BY <1>1, <1>2, <2>1 DEF ListStep, Kept
<1>4. CASE s.of # "nodes" /\ ~UNCHANGED <<edges, edgesFrom, edgesTo>>
  <2>1. /\ e \in ToSet(edges) /\ edges' = DeleteFirst(edges, e)
        /\ edgesFrom' = [edgesFrom EXCEPT ![from[e]] = DeleteFunc(@, e)]
        /\ edgesTo' = [edgesTo EXCEPT ![to[e]] = DeleteFunc(@, e)]
    BY <1>1, <1>4
  <2>2. CASE s.of = "edges"
    <3>1. Content(s) = edges /\ Content(s)' = DeleteFirst(edges, e)
      BY <2>1, <2>2 DEF Content
    <3>2. Lost(s)
      BY <2>1, <3>1, EdgesLose DEF Lost
    <3> QED  BY <1>2, <3>2 DEF ListStep
  <2>3. CASE s.of # "edges"
    <3>1. PICK n \in NodePtr : n = s.node
      BY <1>4, <2>3, SliceFacts
    <3>2. PICK c : c = Content(s)
      OBVIOUS
    <3>3. \/ /\ Content(s)' = DeleteFunc(c, e)
             /\ c = edgesFrom[from[e]] \/ c = edgesTo[to[e]]
          \/ Content(s)' = c
      <4>1. \/ edgesFrom'[n] = edgesFrom[n]
            \/ edgesFrom'[n] = DeleteFunc(edgesFrom[n], e) /\ n = from[e]
        BY <2>1 DEF GraphInv, TypeOK
      <4>2. \/ edgesTo'[n] = edgesTo[n]
            \/ edgesTo'[n] = DeleteFunc(edgesTo[n], e) /\ n = to[e]
        BY <2>1 DEF GraphInv, TypeOK
      <4>3. CASE s.of = "in"
        <5>1. Content(s)' = edgesTo'[n] /\ c = edgesTo[n]
          BY <3>1, <3>2, <4>3 DEF Content
        <5> QED  BY <4>2, <5>1
      <4>4. CASE s.of \in {"out", "find"}
        <5>1. Content(s)' = edgesFrom'[n] /\ c = edgesFrom[n]
          BY <3>1, <3>2, <4>4 DEF Content
        <5> QED  BY <4>1, <5>1
      <4> QED  BY <1>4, <2>3, <4>3, <4>4, SliceFacts
    <3>4. CASE Content(s)' = c
      BY <1>1, <1>2, <3>2, <3>4 DEF ListStep, Kept
    <3>5. CASE /\ Content(s)' = DeleteFunc(c, e)
               /\ c = edgesFrom[from[e]] \/ c = edgesTo[to[e]]
      <4>1. \E g \in 1..Len(c) : c[g] # Nil /\ DropsAt(c, DeleteFunc(c, e), g)
        BY <2>1, <3>5, EdgesLose
      <4>2. Lost(s)
        BY <3>2, <3>5, <4>1 DEF Lost
      <4> QED  BY <1>2, <4>2 DEF ListStep
    <3> QED  BY <3>3, <3>4, <3>5
  <2> QED  BY <2>2, <2>3
<1> QED  BY <1>3, <1>4

LEMMA DeleteNodeLists ==
    ASSUME GraphInv, NEW s \in Slices, NEW n, DeleteNodeAbsent(n) \/ DeleteNodeStart(n)
    PROVE  ListStep(s)
<1>1. /\ pc = "idle" /\ UNCHANGED <<edges, edgesFrom, edgesTo>>
      /\ nodes' = nodes \/ (n \in ToSet(nodes) /\ nodes' = DeleteFirst(nodes, n))
  BY DEF DeleteNodeAbsent, DeleteNodeStart, InGraph, graphVars, nodeVars
<1>2. ~DropOf(s)
  BY <1>1 DEF DropOf
<1>3. CASE s.of # "nodes" \/ nodes' = nodes
  <2>1. Content(s)' = Content(s)
    BY <1>1, <1>3, SliceFacts DEF Content
  <2> QED  BY <1>1, <1>2, <2>1 DEF ListStep, Kept
<1>4. CASE s.of = "nodes" /\ nodes' # nodes
  <2>1. n \in ToSet(nodes) /\ nodes' = DeleteFirst(nodes, n)
    BY <1>1, <1>4
  <2>2. nodes \in Seq(NodePtr) /\ IsInjective(nodes)
    BY DEF GraphInv, TypeOK, NodesIndexed
  <2>3. n # Nil
    BY <2>1, <2>2, ToSetOfSeq, NilIsNoPointer
  <2>4. \E g \in 1..Len(nodes) : nodes[g] = n /\ DropsAt(nodes, DeleteFirst(nodes, n), g)
    BY <2>1, <2>2, DeleteFirstDrops
  <2>5. Content(s) = nodes /\ Content(s)' = DeleteFirst(nodes, n)
    BY <1>4, <2>1 DEF Content
  <2>6. Lost(s)
    BY <2>3, <2>4, <2>5 DEF Lost
  <2> QED  BY <1>2, <2>6 DEF ListStep
<1> QED  BY <1>3, <1>4

LEMMA PurgeFromLists ==
    ASSUME GraphInv, NEW s \in Slices, PurgeFromStep
    PROVE  ListStep(s)
<1> DEFINE e == edgesFrom[cur][i]
<1>1. /\ cur \in NodePtr /\ pc = "purgeFrom" /\ i \in 1..Len(edgesFrom[cur])
      /\ e \in ToSet(edges) /\ from[e] = cur
  BY PurgeFromStepEdge DEF EdgesOut
<1>2. /\ edges' = DeleteFirst(edges, e)
      /\ edgesFrom' = [edgesFrom EXCEPT ![cur][i] = Nil]
      /\ edgesTo' = [edgesTo EXCEPT ![to[e]] = DeleteFunc(@, e)]
      /\ UNCHANGED <<nodes, pc, cur>>
  BY <1>1 DEF PurgeFromStep, deleteEdge
<1>3. e # Nil
  BY <1>1, KeysDiffer
<1> HIDE DEF e
<1>4. ~DropOf(s)
  BY <1>1 DEF DropOf
<1>5. CASE s.of = "nodes"
  <2>1. Content(s)' = Content(s)
    BY <1>2, <1>5, SliceFacts DEF Content
  <2> QED  BY <1>4, <1>5, <2>1 DEF ListStep, Kept
<1>6. CASE s.of = "edges"
  <2>1. Content(s) = edges /\ Content(s)' = DeleteFirst(edges, e)
    BY <1>2, <1>6 DEF Content
  <2>2. Lost(s)
    BY <1>1, <2>1, EdgesLose DEF Lost
  <2> QED  BY <1>4, <2>2 DEF ListStep
<1>7. CASE s.of = "in"
  <2>1. PICK n \in NodePtr : n = s.node
    BY <1>7, SliceFacts
  <2>2. PICK c : c = edgesTo[n]
    OBVIOUS
  <2>3. Content(s) = c /\ Content(s)' = edgesTo'[n]
    BY <1>7, <2>1, <2>2 DEF Content
  <2>4. edgesTo'[n] = c \/ (n = to[e] /\ edgesTo'[n] = DeleteFunc(c, e))
    BY <1>2, <2>2 DEF GraphInv, TypeOK
  <2>5. CASE edgesTo'[n] = c
    BY <1>4, <1>7, <2>3, <2>5 DEF ListStep, Kept
  <2>6. CASE n = to[e] /\ edgesTo'[n] = DeleteFunc(c, e)
    <3>1. \E g \in 1..Len(c) : c[g] # Nil /\ DropsAt(c, DeleteFunc(c, e), g)
      BY <1>1, <2>2, <2>6, EdgesLose
    <3>2. Lost(s)
      BY <2>3, <2>6, <3>1 DEF Lost
    <3> QED  BY <1>4, <3>2 DEF ListStep
  <2> QED  BY <2>4, <2>5, <2>6
<1>8. CASE s.of \in {"out", "find"}
  <2>1. PICK n \in NodePtr : n = s.node
    BY <1>8, SliceFacts
  <2>2. PICK c : c = edgesFrom[n]
    OBVIOUS
  <2>3. Content(s) = c /\ Content(s)' = edgesFrom'[n]
    BY <1>8, <2>1, <2>2 DEF Content
  <2>4. CASE n # cur
    <3>1. edgesFrom'[n] = c
      BY <1>2, <2>2, <2>4 DEF GraphInv, TypeOK
    <3> QED  BY <1>4, <2>1, <2>3, <2>4, <3>1 DEF ListStep, Kept
  <2>5. CASE n = cur
    <3>1. edgesFrom'[n] = [c EXCEPT ![i] = Nil] /\ c[i] = e /\ i \in 1..Len(c)
      BY <1>1, <1>2, <2>2, <2>5 DEF GraphInv, TypeOK, e
    <3>2. Blanked(s)
      BY <1>1, <1>2, <1>3, <2>1, <2>3, <2>5, <3>1 DEF Blanked
    <3> QED  BY <1>4, <3>2 DEF ListStep
  <2> QED  BY <2>4, <2>5
<1> QED  BY <1>5, <1>6, <1>7, <1>8, SliceFacts

LEMMA PurgeFromDoneLists ==
    ASSUME GraphInv, NEW s \in Slices, PurgeFromDone
    PROVE  ListStep(s)
<1>1. /\ pc = "purgeFrom" /\ pc' = "purgeTo" /\ i > Len(edgesFrom[cur])
      /\ UNCHANGED <<nodes, edges, edgesFrom, edgesTo>>
  BY DEF PurgeFromDone, graphVars, nodeVars
<1>2. Content(s)' = Content(s)
  BY <1>1, SliceFacts DEF Content
<1>3. ASSUME s.of = "find", cur = s.node
      PROVE  \A j \in 1..Len(Content(s)) : Content(s)[j] = Nil
  <2>1. PICK c : c = edgesFrom[cur]
    OBVIOUS
  <2>2. c \in Seq(EdgeSlot) /\ Lists(c, i - 1, EdgesOut(cur)) /\ Content(s) = c /\ i \in Nat
    BY <1>1, <1>3, <2>1, PurgeLists, SliceFacts DEF GraphInv, TypeOK
  <2>3. i > Len(c)
    BY <1>1, <2>1
  <2>4. \A j \in 1..Len(c) : j <= i - 1
    BY <2>2, <2>3
  <2>5. \A j \in 1..Len(c) : c[j] = Nil
    BY <2>2, <2>4 DEF Lists
  <2> QED  BY <2>2, <2>5
<1>4. Kept(s)
  BY <1>2, <1>3 DEF Kept
<1>5. ~DropOf(s)
  BY <1>1 DEF DropOf
<1> QED  BY <1>4, <1>5 DEF ListStep

LEMMA PurgeToLists ==
    ASSUME GraphInv, NEW s \in Slices, PurgeToStep
    PROVE  ListStep(s)
<1> DEFINE e == edgesTo[cur][i]
<1>1. /\ cur \in NodePtr /\ pc = "purgeTo" /\ i \in 1..Len(edgesTo[cur])
      /\ e \in ToSet(edges) /\ to[e] = cur
  BY PurgeToStepEdge DEF EdgesIn
<1>2. /\ edges' = DeleteFirst(edges, e)
      /\ edgesTo' = [edgesTo EXCEPT ![cur][i] = Nil]
      /\ edgesFrom' = [edgesFrom EXCEPT ![from[e]] = DeleteFunc(@, e)]
      /\ UNCHANGED <<nodes, pc, cur>>
  BY <1>1 DEF PurgeToStep, deleteEdge
<1>3. e # Nil
  BY <1>1, KeysDiffer
<1> HIDE DEF e
<1>4. ~DropOf(s)
  BY <1>1, <1>2 DEF DropOf
<1>5. CASE s.of = "nodes"
  <2>1. Content(s)' = Content(s)
    BY <1>2, <1>5, SliceFacts DEF Content
  <2> QED  BY <1>4, <1>5, <2>1 DEF ListStep, Kept
<1>6. CASE s.of = "edges"
  <2>1. Content(s) = edges /\ Content(s)' = DeleteFirst(edges, e)
    BY <1>2, <1>6 DEF Content
  <2>2. Lost(s)
    BY <1>1, <2>1, EdgesLose DEF Lost
  <2> QED  BY <1>4, <2>2 DEF ListStep
<1>7. CASE s.of \in {"out", "find"}
  <2>1. PICK n \in NodePtr : n = s.node
    BY <1>7, SliceFacts
  <2>2. PICK c : c = edgesFrom[n]
    OBVIOUS
  <2>3. Content(s) = c /\ Content(s)' = edgesFrom'[n]
    BY <1>7, <2>1, <2>2 DEF Content
  <2>4. edgesFrom'[n] = c \/ (n = from[e] /\ edgesFrom'[n] = DeleteFunc(c, e))
    BY <1>2, <2>2 DEF GraphInv, TypeOK
  <2>5. CASE edgesFrom'[n] = c
    BY <1>1, <1>4, <2>3, <2>5 DEF ListStep, Kept
  <2>6. CASE n = from[e] /\ edgesFrom'[n] = DeleteFunc(c, e)
    <3>1. \E g \in 1..Len(c) : c[g] # Nil /\ DropsAt(c, DeleteFunc(c, e), g)
      BY <1>1, <2>2, <2>6, EdgesLose
    <3>2. Lost(s)
      BY <2>3, <2>6, <3>1 DEF Lost
    <3> QED  BY <1>4, <3>2 DEF ListStep
  <2> QED  BY <2>4, <2>5, <2>6
<1>8. CASE s.of = "in"
  <2>1. PICK n \in NodePtr : n = s.node
    BY <1>8, SliceFacts
  <2>2. PICK c : c = edgesTo[n]
    OBVIOUS
  <2>3. Content(s) = c /\ Content(s)' = edgesTo'[n]
    BY <1>8, <2>1, <2>2 DEF Content
  <2>4. CASE n # cur
    <3>1. edgesTo'[n] = c
      BY <1>2, <2>2, <2>4 DEF GraphInv, TypeOK
    <3> QED  BY <1>4, <1>8, <2>3, <3>1 DEF ListStep, Kept
  <2>5. CASE n = cur
    <3>1. edgesTo'[n] = [c EXCEPT ![i] = Nil] /\ c[i] = e /\ i \in 1..Len(c)
      BY <1>1, <1>2, <2>2, <2>5 DEF GraphInv, TypeOK, e
    <3>2. Blanked(s)
      BY <1>3, <1>8, <2>3, <3>1 DEF Blanked
    <3> QED  BY <1>4, <3>2 DEF ListStep
  <2> QED  BY <2>4, <2>5
<1> QED  BY <1>5, <1>6, <1>7, <1>8, SliceFacts

LEMMA DeleteNodeEndLists ==
    ASSUME GraphInv, NEW s \in Slices, DeleteNodeEnd
    PROVE  ListStep(s)
<1>1. /\ pc = "purgeTo" /\ pc' = "idle" /\ i > Len(edgesTo[cur])
      /\ edgesFrom' = [edgesFrom EXCEPT ![cur] = << >>]
      /\ edgesTo' = [edgesTo EXCEPT ![cur] = << >>]
      /\ UNCHANGED <<nodes, edges>>
  BY DEF DeleteNodeEnd, graphVars
<1>2. CASE s.of \in {"nodes", "edges"}
  <2>1. Content(s)' = Content(s) /\ ~DropOf(s)
    BY <1>1, <1>2, SliceFacts DEF Content, DropOf
  <2> QED  BY <1>1, <1>2, <2>1 DEF ListStep, Kept
<1>3. CASE s.of \notin {"nodes", "edges"}
  <2>1. PICK n \in NodePtr : n = s.node
    BY <1>3, SliceFacts
  <2>2. CASE n # cur
    <3>1. edgesFrom'[n] = edgesFrom[n] /\ edgesTo'[n] = edgesTo[n]
      BY <1>1, <2>2 DEF GraphInv, TypeOK
    <3>2. Content(s)' = Content(s) /\ ~DropOf(s)
      BY <1>3, <2>1, <2>2, <3>1, SliceFacts DEF Content, DropOf
    <3> QED  BY <1>1, <3>2 DEF ListStep, Kept
  <2>3. CASE n = cur
    <3>1. edgesFrom'[n] = << >> /\ edgesTo'[n] = << >>
      BY <1>1, <2>3 DEF GraphInv, TypeOK
    <3>2. Content(s)' = << >> /\ DropOf(s)
      BY <1>1, <1>3, <2>1, <2>3, <3>1, SliceFacts DEF Content, DropOf
    <3>3. PICK a : a = edgesFrom[n]
      OBVIOUS
    <3>4. PICK b : b = edgesTo[n]
      OBVIOUS
    <3>5. /\ a \in Seq(EdgeSlot) /\ Lists(a, Len(a), EdgesOut(cur))
          /\ b \in Seq(EdgeSlot) /\ Lists(b, i - 1, EdgesIn(cur)) /\ i \in Nat /\ i > Len(b)
      BY <1>1, <2>3, <3>3, <3>4, PurgeLists DEF GraphInv, TypeOK
    <3>6. \A j \in 1..Len(a) : a[j] = Nil
      BY <3>5 DEF Lists
    <3>7. \A j \in 1..Len(b) : j <= i - 1
      BY <3>5
    <3>8. \A j \in 1..Len(b) : b[j] = Nil
      BY <3>5, <3>7 DEF Lists
    <3>9. Content(s) = a \/ Content(s) = b
      BY <1>3, <2>1, <3>3, <3>4, SliceFacts
    <3> QED  BY <3>2, <3>6, <3>8, <3>9 DEF ListStep, Gone
  <2> QED  BY <2>2, <2>3
<1> QED  BY <1>2, <1>3

LEMMA SortTopoLists ==
    ASSUME GraphInv, NEW s \in Slices, SortTopo
    PROVE  ListStep(s)
<1>1. /\ pc = "idle" /\ UNCHANGED <<edges, edgesFrom, edgesTo>>
      /\ \/ nodes' = nodes
         \/ ret' = "sorted" /\ nodes' = StableSort(nodes, Rank(NodePtr, Apexes, succ))
  BY DEF SortTopo, nodeVars
<1>2. ~DropOf(s)
  BY <1>1 DEF DropOf
<1>3. CASE s.of # "nodes" \/ nodes' = nodes
  <2>1. Content(s)' = Content(s)
    BY <1>1, <1>3, SliceFacts DEF Content
  <2> QED  BY <1>1, <1>2, <2>1 DEF ListStep, Kept
<1>4. CASE s.of = "nodes" /\ nodes' # nodes
  <2>1. nodes \in Seq(NodePtr)
    BY DEF GraphInv, TypeOK
  <2>2. Len(nodes') = Len(nodes) /\ ToSet(nodes') = ToSet(nodes) /\ ret' = "sorted"
    BY <1>1, <1>4, <2>1, RankType, StableSortProperties
  <2>3. Content(s) = nodes /\ Content(s)' = nodes'
    BY <1>4 DEF Content
  <2> QED  BY <1>2, <1>4, <2>2, <2>3 DEF ListStep, Sorted
<1> QED  BY <1>3, <1>4

(* Every step of a method does one of these to every slice, allocations are   *)
(* for good, and an edge that stays in the graph keeps its end.               *)
LEMMA NextLists ==
    ASSUME GraphInv, Next, NEW s \in Slices
    PROVE  /\ ListStep(s) /\ Alloc(s) \subseteq Alloc(s)'
           /\ \A e \in EdgePtr : EdgeExists(e) /\ e \in ToSet(edges') => to'[e] = to[e]
<1>1. ListStep(s)
  BY AddNodeLists, AddEdgeLists, DeleteEdgeLists, DeleteNodeLists, PurgeFromLists,
     PurgeFromDoneLists, PurgeToLists, DeleteNodeEndLists, SortTopoLists
     DEF Next, Handle
<1>2. /\ \A n \in NodePtr : NodeExists(n) => NodeExists(n)'
      /\ \A e \in EdgePtr : EdgeExists(e) => EdgeExists(e)'
      /\ \A e \in EdgePtr : EdgeExists(e) /\ e \in ToSet(edges') => to'[e] = to[e]
  <2>1. ASSUME NEW x \in Id, NEW t \in Type, AddNode(x, t)
        PROVE  /\ edgeTyp' = edgeTyp /\ to' = to
               /\ \A n \in NodePtr : NodeExists(n) => NodeExists(n)'
    BY <2>1, DataAssumption
       DEF AddNode, AddNodeInvalid, AddNodeTypeChange, AddNodeExisting, AddNodeNew,
           graphVars, nodeVars, edgeVars, NodeExists, GraphInv, TypeOK
  <2>2. ASSUME NEW f \in Handle, NEW t \in Handle, NEW ty \in Type, AddEdge(f, t, ty)
        PROVE  /\ id' = id
               /\ \A e \in EdgePtr : EdgeExists(e) => EdgeExists(e)' /\ to'[e] = to[e]
    BY <2>2, DataAssumption
       DEF AddEdge, AddEdgeLoop, AddEdgeExisting, AddEdgeNew,
           graphVars, nodeVars, edgeVars, EdgeExists, GraphInv, TypeOK
  <2>3. ASSUME \/ \E e \in EdgePtr : DeleteEdge(e)
               \/ \E n \in Handle : DeleteNodeAbsent(n) \/ DeleteNodeStart(n)
               \/ PurgeFromStep \/ PurgeFromDone \/ DeleteNodeEnd \/ SortTopo
        PROVE  UNCHANGED <<id, edgeTyp, to>>
    BY <2>3 DEF DeleteEdge, DeleteNodeAbsent, DeleteNodeStart, PurgeFromStep, PurgeFromDone,
                DeleteNodeEnd, SortTopo, nodeVars, edgeVars
  <2>4. ASSUME PurgeToStep
        PROVE  /\ UNCHANGED <<id, edgeTyp>>
               /\ \A e \in EdgePtr : e \in ToSet(edges') => to'[e] = to[e]
    <3> DEFINE d == edgesTo[cur][i]
    <3>1. d \in ToSet(edges)
      BY <2>4, PurgeToStepEdge DEF EdgesIn
    <3>2. /\ edges' = DeleteFirst(edges, d) /\ to' = [to EXCEPT ![d] = Nil]
          /\ UNCHANGED <<id, edgeTyp>>
      BY <2>4, <3>1 DEF PurgeToStep, deleteEdge
    <3> HIDE DEF d
    <3>3. edges \in Seq(EdgePtr) /\ IsInjective(edges) /\ to \in [EdgePtr -> Ptr]
      BY DEF GraphInv, TypeOK, EdgesWired
    <3>4. d \notin ToSet(edges')
      BY <3>1, <3>2, <3>3, DeleteFirstProperties
    <3> QED  BY <3>2, <3>3, <3>4
  <2> QED
    BY <2>1, <2>2, <2>3, <2>4 DEF Next, NodeExists, EdgeExists
<1>3. Alloc(s) \subseteq Alloc(s)'
  BY <1>2 DEF Alloc
<1> QED  BY <1>1, <1>2, <1>3

-----------------------------------------------------------------------------
(* What a step of the body does to the array that the loop has.               *)

List  == Content(over)
Kinds == {"add", "delete", "sort"}

(* The indices of the array: behind the slice of the graph it is all nil.      *)
Reach == IF shared THEN Nat \ {0} ELSE 1..size

LoopTyped ==
    /\ over \in Slices /\ size \in Nat /\ next \in 1..size + 1 /\ room \in Nat
    /\ shared \in BOOLEAN /\ state \in {"looping", "done", "panicked"}
    /\ did \subseteq Kinds /\ behind \in Nat /\ emptied \in BOOLEAN /\ stale \in BOOLEAN
    /\ start \in Seq(Alloc(over)) /\ seen \in Seq(Alloc(over) \cup {Nil})

(* The loop's header, and the slice that shares its array, are inside it.      *)
Fits == shared => Len(List) <= room /\ size <= room

Frozen == \A j \in Reach' : Slot(j)' = Slot(j)
Uncounted == behind' = behind /\ emptied' = emptied

BodyKept ==
    /\ Kept(over) /\ List' = List /\ shared' = shared /\ Frozen /\ Uncounted
BodyGrew ==
    /\ "add" \in did' /\ Uncounted /\ (shared' => shared)
    /\ \E x \in Alloc(over)' \ Alloc(over) :
          /\ List' = Append(List, x)
          /\ \A j \in Reach' : Slot(j)' = IF shared' /\ j = Len(List) + 1 THEN x ELSE Slot(j)
LosesAt(C, D, g) ==
    /\ g \in 1..Len(C) /\ C[g] # Nil /\ Len(D) <= Len(C) /\ ToSet(D) \subseteq ToSet(C) \cup {Nil}
    /\ \A j \in 1..Len(C) : C[j] \in ToSet(D) <=> j # g
Shifted(g) == Len(List') = Len(List) - 1
              /\ \A j \in Reach : Slot(j)' = IF j < g THEN Slot(j) ELSE Slot(j + 1)
Cleared(g) == /\ \A j \in Reach : Slot(j)' = IF j = g THEN Nil ELSE Slot(j)
              /\ over.of = "find" => pc' = "purgeFrom" /\ cur' = over.node
BodyLost ==
    /\ "delete" \in did' /\ shared' = shared /\ emptied' = (emptied \/ next <= size)
    /\ \E g \in 1..Len(List) :
          /\ LosesAt(List, List', g) /\ behind' = behind + (IF g < next THEN 1 ELSE 0)
          /\ IF shared THEN Shifted(g) \/ Cleared(g) ELSE Frozen
BodySorted ==
    /\ "sort" \in did' /\ over.of = "nodes" /\ shared' = shared /\ Uncounted
    /\ Len(List') = Len(List) /\ ToSet(List') = ToSet(List) /\ (~shared => Frozen)
BodyGone ==
    /\ pc = "purgeTo" /\ List' = << >> /\ shared' = FALSE /\ Frozen /\ Uncounted
    /\ \A j \in 1..Len(List) : List[j] = Nil

BodyStep ==
    /\ state = "looping" /\ did \subseteq did'
    /\ UNCHANGED <<over, size, next, room, state, start, seen, stale>>
    /\ Alloc(over) \subseteq Alloc(over)'
    /\ \A x \in ToSet(List) \cap ToSet(List') : x # Nil => (Wants(over, x)' <=> Wants(over, x))
    /\ BodyKept \/ BodyGrew \/ BodyLost \/ BodySorted \/ BodyGone

LEMMA DropsLose ==
    ASSUME NEW S, NEW C \in Seq(S), NEW D \in Seq(S), RepeatsOnly(C, Nil),
           NEW g \in 1..Len(C), C[g] # Nil, DropsAt(C, D, g)
    PROVE  LosesAt(C, D, g)
<1>1. /\ Len(C) \in Nat /\ g \in Nat /\ g >= 1 /\ g <= Len(C) /\ Len(D) = Len(C) - 1
      /\ \A j \in 1..Len(C) - 1 : D[j] = IF j < g THEN C[j] ELSE C[j + 1]
  BY DEF DropsAt
<1>2. \A j \in 1..Len(D) : \E k \in 1..Len(C) : k # g /\ D[j] = C[k]
  <2> SUFFICES ASSUME NEW j \in 1..Len(D)
               PROVE  \E k \in 1..Len(C) : k # g /\ D[j] = C[k]
    OBVIOUS
  <2>1. CASE j < g
    <3>1. j \in 1..Len(C) /\ j # g /\ D[j] = C[j]
      BY <1>1, <2>1
    <3> QED  BY <3>1
  <2>2. CASE ~(j < g)
    <3>1. j + 1 \in 1..Len(C) /\ j + 1 # g /\ D[j] = C[j + 1]
      BY <1>1, <2>2
    <3> QED  BY <3>1
  <2> QED  BY <2>1, <2>2
<1>3. \A k \in 1..Len(C) : k # g => \E j \in 1..Len(D) : D[j] = C[k]
  <2> SUFFICES ASSUME NEW k \in 1..Len(C), k # g
               PROVE  \E j \in 1..Len(D) : D[j] = C[k]
    OBVIOUS
  <2>1. CASE k < g
    <3>1. k \in 1..Len(D) /\ D[k] = C[k]
      BY <1>1, <2>1
    <3> QED  BY <3>1
  <2>2. CASE ~(k < g)
    <3>1. k - 1 \in 1..Len(D) /\ ~(k - 1 < g) /\ (k - 1) + 1 = k
      BY <1>1, <2>2
    <3>2. D[k - 1] = C[(k - 1) + 1]
      BY <1>1, <3>1
    <3> QED  BY <3>1, <3>2
  <2> QED  BY <2>1, <2>2
<1>4. /\ \A x \in ToSet(D) : \E j \in 1..Len(D) : D[j] = x
      /\ \A j \in 1..Len(D) : D[j] \in ToSet(D)
      /\ \A j \in 1..Len(C) : C[j] \in ToSet(C)
  BY ToSetOfSeq
<1>5. \A x \in ToSet(D) : \E k \in 1..Len(C) : k # g /\ x = C[k]
  BY <1>2, <1>4
<1>6. C[g] \notin ToSet(D)
  BY <1>5 DEF RepeatsOnly
<1>7. ToSet(D) \subseteq ToSet(C)
  BY <1>4, <1>5
<1>8. \A j \in 1..Len(C) : C[j] \in ToSet(D) <=> j # g
  BY <1>3, <1>4, <1>6
<1> QED  BY <1>1, <1>7, <1>8 DEF LosesAt

LEMMA BlankLoses ==
    ASSUME NEW S, NEW C \in Seq(S), NEW D \in Seq(S), RepeatsOnly(C, Nil),
           NEW g \in 1..Len(C), C[g] # Nil, Len(D) = Len(C),
           \A j \in 1..Len(C) : D[j] = IF j = g THEN Nil ELSE C[j]
    PROVE  LosesAt(C, D, g)
<1>1. Len(D) = Len(C) /\ \A j \in 1..Len(C) : D[j] = IF j = g THEN Nil ELSE C[j]
  OBVIOUS
<1>2. /\ \A x \in ToSet(D) : \E j \in 1..Len(D) : D[j] = x
      /\ \A j \in 1..Len(D) : D[j] \in ToSet(D)
      /\ \A j \in 1..Len(C) : C[j] \in ToSet(C)
  BY ToSetOfSeq
<1>3. ToSet(D) \subseteq ToSet(C) \cup {Nil}
  BY <1>1, <1>2
<1>4. C[g] \notin ToSet(D)
  BY <1>1, <1>2 DEF RepeatsOnly
<1>5. \A j \in 1..Len(C) : C[j] \in ToSet(D) <=> j # g
  BY <1>1, <1>2, <1>4
<1>6. Len(D) <= Len(C)
  BY <1>1
<1> QED  BY <1>3, <1>5, <1>6 DEF LosesAt

(* What the body's history counts.                                           *)
LEMMA NoneRemoved ==
    ASSUME LoopTyped, Happens, Removed = {}
    PROVE  Uncounted
<1>1. {j \in Removed : j < next} = {}
  OBVIOUS
<1>2. behind \in Nat /\ emptied \in BOOLEAN
  BY DEF LoopTyped
<1> QED  BY <1>1, <1>2, FS_EmptySet DEF Happens, Uncounted

LEMMA OneRemoved ==
    ASSUME LoopTyped, Happens, NEW g \in Int, Removed = {g}
    PROVE  /\ "delete" \in did' /\ emptied' = (emptied \/ next <= size)
           /\ behind' = behind + (IF g < next THEN 1 ELSE 0)
<1>1. {j \in Removed : j < next} = IF g < next THEN {g} ELSE {}
  OBVIOUS
<1>2. Cardinality({g}) = 1 /\ Cardinality({}) = 0
  BY FS_Singleton, FS_EmptySet
<1>3. behind' = behind + Cardinality({j \in Removed : j < next})
  BY DEF Happens
<1>4. behind' = behind + (IF g < next THEN 1 ELSE 0)
  BY <1>1, <1>2, <1>3
<1> QED  BY <1>4 DEF Happens

LEMMA ContentHoldsNext == GraphInv' => \A s \in Slices : Holds(s)'
<1>1. (GraphInv => \A s \in Slices : Holds(s))'
  BY ContentHolds, PTL
<1> QED  BY <1>1

LEMMA BodyDoes ==
    ASSUME GraphInv, GraphInv', LoopTyped, Fits, Body
    PROVE  BodyStep /\ Fits' /\ LoopTyped'
<1>1. /\ state = "looping" /\ Next /\ Happens
      /\ UNCHANGED <<over, size, next, room, state, start, seen, stale>>
  BY DEF Body
<1>2. PICK s \in Slices : s = over
  BY DEF LoopTyped
<1>3. /\ over = s /\ over' = s /\ List = Content(s) /\ List' = Content(s)'
      /\ Content(over) = Content(s) /\ Content(over)' = Content(s)'
      /\ Alloc(over) = Alloc(s) /\ Alloc(over)' = Alloc(s)'
      /\ Dropped <=> DropOf(s)
  BY <1>1, <1>2 DEF List, Content, Alloc, NodeExists, EdgeExists, Dropped, DropOf
<1>4. Holds(s)
  BY ContentHolds
<1>5. Holds(s)'
  BY ContentHoldsNext
<1>6. /\ ListStep(s) /\ Alloc(s) \subseteq Alloc(s)'
      /\ \A e \in EdgePtr : EdgeExists(e) /\ e \in ToSet(edges') => to'[e] = to[e]
  BY <1>1, NextLists
<1>7. PICK C : C = Content(s)
  OBVIOUS
<1>8. PICK D : D = Content(s)'
  OBVIOUS
<1>9. /\ C \in Seq(Alloc(s) \cup {Nil}) /\ Nil \notin Alloc(s) /\ RepeatsOnly(C, Nil)
      /\ D \in Seq(Alloc(s)' \cup {Nil}) /\ Len(C) \in Nat /\ Len(D) \in Nat
  BY <1>4, <1>5, <1>7, <1>8 DEF Holds
<1>10. /\ List = C /\ List' = D /\ Content(over) = C /\ Content(over)' = D
  BY <1>3, <1>7, <1>8
<1>11. /\ shared \in BOOLEAN /\ size \in Nat /\ room \in Nat /\ (shared => Len(C) <= room /\ size <= room)
  BY <1>10 DEF LoopTyped, Fits
<1>12. /\ shared' = (shared /\ ~(DropOf(s) \/ Len(D) > room))
       /\ array' = IF shared /\ (DropOf(s) \/ Len(D) > room)
                   THEN [j \in 1..size |-> Slot(j)] ELSE array
  BY <1>1, <1>3, <1>10 DEF Happens, Leaves, Outgrown
<1>13. /\ \A j : Slot(j) = IF ~shared THEN array[j] ELSE IF j <= Len(C) THEN C[j] ELSE Nil
       /\ \A j : Slot(j)' = IF ~shared' THEN array'[j] ELSE IF j <= Len(D) THEN D[j] ELSE Nil
  BY <1>10 DEF Slot
<1>14. /\ ~shared => ~shared' /\ \A j : Slot(j)' = Slot(j)
       /\ shared /\ ~shared' => \A j \in 1..size : Slot(j)' = Slot(j)
       /\ shared' => shared /\ \A j : Slot(j)' = IF j <= Len(D) THEN D[j] ELSE Nil
       /\ shared => \A j : Slot(j) = IF j <= Len(C) THEN C[j] ELSE Nil
  BY <1>12, <1>13
<1>15. ~shared' => Frozen
  BY <1>1, <1>14 DEF Frozen, Reach
<1>16. Fits'
  <2>1. ASSUME shared'
        PROVE  Len(D) <= room /\ size <= room
    <3>1. ~(Len(D) > room) /\ shared
      BY <1>12, <2>1
    <3>2. Len(D) \in Nat /\ room \in Nat /\ size <= room
      BY <1>9, <1>11, <3>1
    <3> QED  BY <3>1, <3>2
  <2>2. List' = D /\ size' = size /\ room' = room
    BY <1>1, <1>10
  <2> QED  BY <2>1, <2>2 DEF Fits
<1>17. did \subseteq did' /\ did' \subseteq did \cup Kinds
  BY <1>1 DEF Happens, Kinds
<1>18. Alloc(over) \subseteq Alloc(over)'
  BY <1>3, <1>6
<1>19. Removed = {j \in 1..Len(C) : C[j] # Nil /\ C[j] \notin ToSet(D)}
  BY <1>10 DEF Removed
<1>20. \A x \in ToSet(C) \cap ToSet(D) : x # Nil => (Wants(over, x)' <=> Wants(over, x))
  <2> SUFFICES ASSUME NEW x \in ToSet(C) \cap ToSet(D), x # Nil, s.of = "find"
               PROVE  to'[x] = to[x]
    BY <1>3 DEF Wants
  <2>1. x \in Alloc(s) /\ s.of # "nodes"
    BY <1>9, ToSetOfSeq
  <2>2. x \in ToSet(edges')
    BY <1>5, <1>8, <2>1 DEF Holds
  <2> QED  BY <1>6, <2>1, <2>2 DEF Alloc
<1>25. ASSUME BodyKept \/ BodyGrew \/ BodyLost \/ BodySorted \/ BodyGone
       PROVE  BodyStep
  BY <1>1, <1>10, <1>17, <1>18, <1>20, <1>25 DEF BodyStep
<1>21. ASSUME DropOf(s)
       PROVE  BodyStep
  <2>1. Gone(s)
    BY <1>6, <1>21 DEF ListStep
  <2>2. D = << >> /\ ~shared' /\ \A j \in 1..Len(C) : C[j] = Nil
    BY <1>7, <1>8, <1>12, <1>21, <2>1 DEF Gone
  <2>3. Removed = {}
    BY <1>19, <2>2
  <2>4. BodyGone
    BY <1>1, <1>10, <1>12, <1>15, <1>21, <2>2, <2>3, NoneRemoved DEF BodyGone, DropOf
  <2> QED  BY <1>25, <2>4
<1>22. ASSUME ~DropOf(s)
       PROVE  BodyStep
  <2>1. /\ Kept(s) \/ Grew(s) \/ Lost(s) \/ Blanked(s) \/ Sorted(s)
        /\ Len(D) <= Len(C) => shared' = shared
    BY <1>6, <1>9, <1>11, <1>12, <1>22 DEF ListStep, Gone
  <2>2. CASE Kept(s)
    <3>1. D = C
      BY <1>7, <1>8, <2>2 DEF Kept
    <3>2. Removed = {}
      BY <1>9, <1>19, <3>1, ToSetOfSeq
    <3>3. shared' = shared
      BY <1>9, <2>1, <3>1
    <3>4. Frozen
      BY <1>14, <1>15, <3>1, <3>3 DEF Frozen
    <3>5. Kept(over)
      BY <1>3, <2>2 DEF Kept
    <3>6. BodyKept
      BY <1>1, <1>10, <3>1, <3>2, <3>3, <3>4, <3>5, NoneRemoved DEF BodyKept
    <3> QED  BY <1>25, <3>6
  <2>3. CASE Grew(s)
    <3>1. PICK x \in Alloc(s)' \ Alloc(s) : D = Append(C, x)
      BY <1>7, <1>8, <2>3 DEF Grew
    <3>2. C \in Seq(Alloc(s)' \cup {Nil})
      <4>1. \A j \in 1..Len(C) : C[j] \in Alloc(s)' \cup {Nil}
        BY <1>6, <1>9, ToSetOfSeq
      <4> QED  BY <1>9, <4>1
    <3>3. /\ Len(D) = Len(C) + 1 /\ ToSet(D) = ToSet(C) \cup {x}
          /\ \A j \in 1..Len(C) : D[j] = C[j]
          /\ D[Len(C) + 1] = x
      BY <3>1, <3>2, AppendFacts
    <3>4. Removed = {}
      BY <1>9, <1>19, <3>3, ToSetOfSeq
    <3>5. "add" \in did'
      <4>1. Len(D) > Len(C)
        BY <1>9, <3>3
      <4> QED  BY <1>1, <1>10, <4>1 DEF Happens
    <3>6. \A j \in Reach' : Slot(j)' = IF shared' /\ j = Len(C) + 1 THEN x ELSE Slot(j)
      <4>1. CASE ~shared'
        BY <1>15, <4>1 DEF Frozen
      <4>2. CASE shared'
        <5> SUFFICES ASSUME NEW j \in Nat \ {0}
                     PROVE  Slot(j)' = IF j = Len(C) + 1 THEN x ELSE Slot(j)
          BY <4>2 DEF Reach
        <5>1. /\ Slot(j)' = IF j <= Len(C) + 1 THEN D[j] ELSE Nil
              /\ Slot(j) = IF j <= Len(C) THEN C[j] ELSE Nil
          BY <1>14, <3>3, <4>2
        <5>2. j \in 1..Len(C) \/ j = Len(C) + 1 \/ ~(j <= Len(C) + 1)
          BY <1>9
        <5>3. CASE j \in 1..Len(C)
          BY <1>9, <3>3, <5>1, <5>3
        <5>4. CASE j = Len(C) + 1
          BY <1>9, <3>3, <5>1, <5>4
        <5>5. CASE ~(j <= Len(C) + 1)
          BY <1>9, <5>1, <5>5
        <5> QED  BY <5>2, <5>3, <5>4, <5>5
      <4> QED  BY <4>1, <4>2
    <3>7. Uncounted
      BY <1>1, <3>4, NoneRemoved
    <3>8. BodyGrew
      BY <1>3, <1>10, <1>14, <3>1, <3>5, <3>6, <3>7 DEF BodyGrew
    <3> QED  BY <1>25, <3>8
  <2>4. ASSUME NEW g \in 1..Len(C), LosesAt(C, D, g),
               shared => Shifted(g) \/ Cleared(g)
        PROVE  BodyStep
    <3>1. Len(D) <= Len(C) /\ g \in Int
      BY <2>4 DEF LosesAt
    <3>2. shared' = shared
      BY <2>1, <3>1
    <3>3. Removed = {g}
      BY <1>19, <2>4 DEF LosesAt
    <3>4. BodyLost
      BY <1>1, <1>10, <1>15, <2>4, <3>1, <3>2, <3>3, OneRemoved DEF BodyLost
    <3> QED  BY <1>25, <3>4
  <2>5. CASE Lost(s)
    <3>1. PICK g \in 1..Len(C) : C[g] # Nil /\ DropsAt(C, D, g)
      BY <1>7, <1>8, <2>5 DEF Lost
    <3>2. PICK A : A = Alloc(s) \cup Alloc(s)' \cup {Nil}
      OBVIOUS
    <3>3. C \in Seq(A) /\ D \in Seq(A)
      <4>1. /\ \A j \in 1..Len(C) : C[j] \in A
            /\ \A j \in 1..Len(D) : D[j] \in A
        BY <1>9, <3>2, ToSetOfSeq
      <4> QED  BY <1>9, <4>1
    <3>4. LosesAt(C, D, g)
      BY <1>9, <3>1, <3>3, DropsLose
    <3>5. ASSUME shared
          PROVE  Shifted(g)
      <4>1. /\ Len(D) = Len(C) - 1 /\ g \in Nat /\ 1 <= g /\ g <= Len(C)
            /\ \A j \in 1..Len(C) - 1 : D[j] = IF j < g THEN C[j] ELSE C[j + 1]
        BY <1>9, <3>1 DEF DropsAt
      <4>2. shared'
        <5>1. Len(C) \in Nat /\ Len(D) = Len(C) - 1
          BY <1>9, <4>1
        <5>2. Len(D) <= Len(C)
          BY <5>1
        <5> QED  BY <2>1, <3>5, <5>2
      <4>3. ASSUME NEW j \in Nat \ {0}
            PROVE  Slot(j)' = IF j < g THEN Slot(j) ELSE Slot(j + 1)
        <5>1. /\ Slot(j)' = IF j <= Len(C) - 1 THEN D[j] ELSE Nil
              /\ Slot(j) = IF j <= Len(C) THEN C[j] ELSE Nil
              /\ Slot(j + 1) = IF j + 1 <= Len(C) THEN C[j + 1] ELSE Nil
          BY <1>14, <3>5, <4>1, <4>2
        <5> QED  BY <1>9, <4>1, <5>1
      <4>4. Reach = Nat \ {0}
        BY <3>5 DEF Reach
      <4> QED  BY <1>10, <4>1, <4>3, <4>4 DEF Shifted
    <3> QED  BY <2>4, <3>4, <3>5
  <2>6. CASE Blanked(s)
    <3>1. PICK g \in 1..Len(C) : C[g] # Nil /\ D = [C EXCEPT ![g] = Nil]
      BY <1>7, <1>8, <2>6 DEF Blanked
    <3>2. Len(D) = Len(C) /\ \A j \in 1..Len(C) : D[j] = IF j = g THEN Nil ELSE C[j]
      BY <1>9, <3>1
    <3>3. PICK A : A = Alloc(s) \cup Alloc(s)' \cup {Nil}
      OBVIOUS
    <3>4. C \in Seq(A) /\ D \in Seq(A)
      <4>1. /\ \A j \in 1..Len(C) : C[j] \in A
            /\ \A j \in 1..Len(D) : D[j] \in A
        BY <1>9, <3>3, ToSetOfSeq
      <4> QED  BY <1>9, <4>1
    <3>5. LosesAt(C, D, g)
      BY <1>9, <3>1, <3>2, <3>4, BlankLoses
    <3>6. ASSUME shared
          PROVE  Cleared(g)
      <4>1. shared'
        BY <1>9, <2>1, <3>2, <3>6
      <4>2. ASSUME NEW j \in Nat \ {0}
            PROVE  Slot(j)' = IF j = g THEN Nil ELSE Slot(j)
        <5>1. /\ Slot(j)' = IF j <= Len(C) THEN D[j] ELSE Nil
              /\ Slot(j) = IF j <= Len(C) THEN C[j] ELSE Nil
          BY <1>14, <3>2, <3>6, <4>1
        <5> QED  BY <1>9, <3>1, <3>2, <5>1
      <4>3. Reach = Nat \ {0}
        BY <3>6 DEF Reach
      <4>4. over.of = "find" => pc' = "purgeFrom" /\ cur' = over.node
        BY <1>3, <2>6 DEF Blanked
      <4> QED  BY <4>2, <4>3, <4>4 DEF Cleared
    <3> QED  BY <2>4, <3>5, <3>6
  <2>7. CASE Sorted(s)
    <3>1. Len(D) = Len(C) /\ ToSet(D) = ToSet(C) /\ s.of = "nodes" /\ ret' = "sorted"
      BY <1>7, <1>8, <2>7 DEF Sorted
    <3>2. Removed = {}
      BY <1>9, <1>19, <3>1, ToSetOfSeq
    <3>3. shared' = shared
      BY <1>9, <2>1, <3>1
    <3>4. "sort" \in did'
      BY <1>1, <1>3, <3>1 DEF Happens
    <3>5. BodySorted
      BY <1>1, <1>3, <1>10, <1>15, <3>1, <3>2, <3>3, <3>4, NoneRemoved DEF BodySorted
    <3> QED  BY <1>25, <3>5
  <2> QED  BY <2>1, <2>2, <2>3, <2>5, <2>6, <2>7
<1>23. BodyStep
  BY <1>21, <1>22
<1>24. LoopTyped'
  <2>1. behind' \in Nat /\ emptied' \in BOOLEAN
    <3>1. \/ behind' = behind /\ emptied' = emptied
          \/ /\ emptied' = (emptied \/ next <= size)
             /\ \E g \in 1..Len(List) : behind' = behind + (IF g < next THEN 1 ELSE 0)
      BY <1>23 DEF BodyStep, BodyKept, BodyGrew, BodyLost, BodySorted, BodyGone, Uncounted
    <3>2. behind \in Nat /\ emptied \in BOOLEAN
      BY DEF LoopTyped
    <3>3. behind' \in Nat
      <4>1. behind' = behind \/ behind' = behind + 1 \/ behind' = behind + 0
        BY <3>1, Zenon
      <4> QED  BY <3>2, <4>1
    <3>4. emptied' \in BOOLEAN
      BY <3>1, <3>2, Zenon
    <3> QED  BY <3>3, <3>4
  <2>2. shared' \in BOOLEAN
    BY <1>12
  <2>3. did' \subseteq Kinds
    BY <1>17 DEF LoopTyped
  <2>4. start' \in Seq(Alloc(over)') /\ seen' \in Seq(Alloc(over)' \cup {Nil})
    <3>1. start \in Seq(Alloc(over)) /\ seen \in Seq(Alloc(over) \cup {Nil})
      BY DEF LoopTyped
    <3>2. /\ \A j \in 1..Len(start) : start[j] \in Alloc(over)'
          /\ \A j \in 1..Len(seen) : seen[j] \in Alloc(over)' \cup {Nil}
      BY <1>18, <3>1, ToSetOfSeq
    <3> QED  BY <1>1, <3>1, <3>2
  <2> QED  BY <1>1, <2>1, <2>2, <2>3, <2>4 DEF LoopTyped
<1> QED  BY <1>16, <1>23, <1>24

-----------------------------------------------------------------------------
(* The invariant of a loop, in parts.                                         *)

(* Every slot holds an allocated pointer or nil, no pointer twice.            *)
SlotsHold   == \A j \in Reach : Slot(j) \in Alloc(over) \cup {Nil}
SlotsDiffer == \A j, k \in Reach : Slot(j) = Slot(k) => j = k \/ Slot(j) = Nil

(* What the loop has yet to come to, it has not yielded.                       *)
SeenOnce ==
    "sort" \notin did =>
        /\ \A j, k \in 1..Len(seen) : seen[j] = seen[k] => j = k \/ seen[j] = Nil
        /\ \A j \in Reach : j >= next /\ Slot(j) # Nil => Slot(j) \notin ToSet(seen)

(* A body that only adds leaves the part of the slice that the loop is over.   *)
WantedTo(k) == {j \in 1..k : Wants(over, List[j])}
Undisturbed ==
    did \subseteq {"add"} =>
        /\ size <= Len(List) /\ \A j \in 1..size : Slot(j) = List[j] /\ List[j] # Nil
        /\ start = KeepAt(List, WantedTo(size)) /\ seen = KeepAt(List, WantedTo(next - 1))

(* What the loop was to yield, has not, and will not come to.                  *)
Passed == {x \in (ToSet(start) \cap ToSet(List)) \ ToSet(seen) :
              \A j \in next..size : Slot(j) # x}
PassedAreCounted == "sort" \notin did => Cardinality(Passed) <= behind
StartIsWanted    == \A x \in ToSet(start) \cap ToSet(List) : Wants(over, x)
EndsAtEnd        == state = "done" => Stops = {}

(* Where nils and deleted pointers come from.                                 *)
NilsDeleted ==
    "delete" \notin did => /\ Nil \notin ToSet(seen)
                           /\ \A j \in 1..size : Slot(j) # Nil /\ Slot(j) \in ToSet(List)
LeftHow  == ~shared => "add" \in did \/ \A j \in 1..size : Slot(j) = Nil
StaleHow == stale => {"add", "delete"} \subseteq did
PanicHow == state = "panicked" => over.of = "find" /\ "delete" \in did

(* What FindEdges finds.                                                      *)
FindWhole ==
    over.of = "find" /\ ~emptied =>
        state # "panicked" /\ \A j \in next..size : Slot(j) # Nil
NotGrown == shared /\ "add" \notin did => Len(List) <= size
Emptying == pc = "purgeFrom" /\ cur = over.node
FindEmptied ==
    over.of = "find" /\ emptied /\ "add" \notin did =>
        /\ state # "done"
        /\ state = "looping" => next <= size /\ (Slot(size) = Nil \/ Emptying)

LoopInv ==
    /\ LoopTyped /\ Fits /\ SlotsHold /\ SlotsDiffer /\ SeenOnce /\ Undisturbed
    /\ PassedAreCounted /\ StartIsWanted /\ EndsAtEnd /\ NilsDeleted /\ LeftHow
    /\ StaleHow /\ PanicHow /\ FindWhole /\ NotGrown /\ FindEmptied

BeforeInv ==
    /\ pc = "idle" /\ size = 0 /\ next = 1 /\ shared = TRUE /\ start = << >>
    /\ seen = << >> /\ did = {} /\ behind = 0 /\ emptied = FALSE /\ stale = FALSE

IterInv ==
    /\ GraphInv
    /\ state = "before" => BeforeInv
    /\ state # "before" => LoopInv

-----------------------------------------------------------------------------
(* A step of the body preserves each part.                                    *)

LEMMA SlotIs ==
    /\ shared => \A j : Slot(j) = IF j <= Len(List) THEN List[j] ELSE Nil
    /\ shared' => \A j : Slot(j)' = IF j <= Len(List') THEN List'[j] ELSE Nil
BY DEF Slot, List

LEMMA ListHolds ==
    GraphInv /\ over \in Slices =>
        /\ List \in Seq(Alloc(over) \cup {Nil}) /\ Nil \notin Alloc(over)
        /\ RepeatsOnly(List, Nil)
        /\ pc = "idle" => \A j \in 1..Len(List) : List[j] # Nil
<1> SUFFICES ASSUME GraphInv, over \in Slices
             PROVE  /\ List \in Seq(Alloc(over) \cup {Nil}) /\ Nil \notin Alloc(over)
                    /\ RepeatsOnly(List, Nil)
                    /\ pc = "idle" => \A j \in 1..Len(List) : List[j] # Nil
  OBVIOUS
<1>1. Holds(over)
  BY ContentHolds
<1>2. /\ List \in Seq(Alloc(over) \cup {Nil}) /\ Nil \notin Alloc(over)
      /\ RepeatsOnly(List, Nil)
      /\ pc = "idle" => Nil \notin ToSet(List)
  BY <1>1 DEF Holds, List
<1>3. \A j \in 1..Len(List) : List[j] \in ToSet(List)
  BY <1>2, ToSetOfSeq
<1> QED  BY <1>2, <1>3

LEMMA ListHoldsNext ==
    GraphInv' /\ over' \in Slices =>
        /\ List' \in Seq(Alloc(over)' \cup {Nil}) /\ Nil \notin Alloc(over)'
        /\ RepeatsOnly(List', Nil)
        /\ pc' = "idle" => \A j \in 1..Len(List') : List'[j] # Nil
<1>1. (GraphInv /\ over \in Slices =>
          /\ List \in Seq(Alloc(over) \cup {Nil}) /\ Nil \notin Alloc(over)
          /\ RepeatsOnly(List, Nil)
          /\ pc = "idle" => \A j \in 1..Len(List) : List[j] # Nil)'
  BY ListHolds, PTL
<1> QED  BY <1>1 DEF RepeatsOnly

LEMMA SharedSlots ==
    GraphInv /\ LoopTyped /\ shared => SlotsHold /\ SlotsDiffer
<1> SUFFICES ASSUME GraphInv, LoopTyped, shared PROVE SlotsHold /\ SlotsDiffer
  OBVIOUS
<1>1. /\ List \in Seq(Alloc(over) \cup {Nil}) /\ Nil \notin Alloc(over)
      /\ RepeatsOnly(List, Nil)
  BY ListHolds DEF LoopTyped
<1>2. \A j \in Nat \ {0} :
         \/ Slot(j) = Nil
         \/ j \in 1..Len(List) /\ Slot(j) = List[j] /\ List[j] \in Alloc(over) \cup {Nil}
  <2>1. \A j \in Nat \ {0} : j \in 1..Len(List) \/ ~(j <= Len(List))
    BY <1>1
  <2>2. \A j \in 1..Len(List) : List[j] \in Alloc(over) \cup {Nil} /\ j <= Len(List)
    BY <1>1, ToSetOfSeq
  <2> QED  BY <2>1, <2>2, SlotIs
<1>3. Reach = Nat \ {0}
  BY DEF Reach
<1>4. SlotsHold
  BY <1>2, <1>3 DEF SlotsHold
<1>5. SlotsDiffer
  BY <1>1, <1>2, <1>3 DEF SlotsDiffer, RepeatsOnly
<1> QED  BY <1>4, <1>5

LEMMA SharedSlotsNext ==
    GraphInv' /\ LoopTyped' /\ shared' => SlotsHold' /\ SlotsDiffer'
<1>1. (GraphInv /\ LoopTyped /\ shared => SlotsHold /\ SlotsDiffer)'
  BY SharedSlots, PTL
<1> QED  BY <1>1

(* An array that is not the graph's is left alone.                             *)
LEMMA BodyFreezes ==
    ASSUME BodyStep, ~shared'
    PROVE  /\ \A j \in 1..size : Slot(j)' = Slot(j)
           /\ Reach' = 1..size /\ 1..size \subseteq Reach
<1>1. size' = size
  BY DEF BodyStep
<1>2. Reach' = 1..size /\ 1..size \subseteq Reach
  BY <1>1 DEF Reach
<1>3. Frozen
  <2>1. \A x : \A j \in Reach' : Slot(j)' = (IF shared' /\ j = Len(List) + 1 THEN x ELSE Slot(j))
                    => Slot(j)' = Slot(j)
    OBVIOUS
  <2> QED  BY <2>1 DEF BodyStep, BodyKept, BodyGrew, BodyLost, BodySorted, BodyGone, Frozen
<1> QED  BY <1>2, <1>3 DEF Frozen

LEMMA BodySlots ==
    ASSUME GraphInv', LoopTyped', LoopTyped, SlotsHold, SlotsDiffer, BodyStep
    PROVE  SlotsHold' /\ SlotsDiffer'
<1>1. CASE shared'
  BY <1>1, SharedSlotsNext
<1>2. CASE ~shared'
  <2>1. /\ \A j \in 1..size : Slot(j)' = Slot(j)
        /\ Reach' = 1..size /\ 1..size \subseteq Reach
    BY <1>2, BodyFreezes
  <2>2. Alloc(over) \subseteq Alloc(over)'
    BY DEF BodyStep
  <2> QED  BY <2>1, <2>2 DEF SlotsHold, SlotsDiffer
<1> QED  BY <1>1, <1>2

(* Without a sort, nothing but a new pointer moves up.                        *)
LEMMA SlotsMove ==
    ASSUME LoopTyped, BodyStep, "sort" \notin did', NEW j \in Reach'
    PROVE  \/ Slot(j)' = Nil \/ Slot(j)' \notin Alloc(over)
           \/ \E k \in Reach : k >= j /\ Slot(j)' = Slot(k)
<1>0. j \in Nat \ {0} /\ size \in Nat /\ size' = size /\ j >= j
  BY DEF LoopTyped, BodyStep, Reach
<1>1. CASE ~shared'
  BY <1>0, <1>1, BodyFreezes
<1>2. CASE shared'
  <2>1. CASE BodyKept
    BY <1>0, <1>2, <2>1 DEF BodyKept, Frozen, Reach
  <2>2. CASE BodyGrew
    BY <1>0, <1>2, <2>2 DEF BodyGrew, Reach
  <2>3. CASE BodyLost
    <3>1. shared /\ Reach = Nat \ {0}
      BY <1>2, <2>3 DEF BodyLost, Reach
    <3>2. PICK g \in 1..Len(List) : Shifted(g) \/ Cleared(g)
      BY <2>3, <3>1 DEF BodyLost
    <3>3. Slot(j)' = Nil \/ Slot(j)' = Slot(j) \/ Slot(j)' = Slot(j + 1)
      BY <1>0, <3>1, <3>2 DEF Shifted, Cleared
    <3>4. j + 1 \in Reach /\ j + 1 >= j /\ j \in Reach
      BY <1>0, <3>1
    <3> QED  BY <1>0, <3>3, <3>4
  <2>4. ~BodySorted /\ ~BodyGone
    BY <1>2 DEF BodySorted, BodyGone
  <2> QED  BY <2>1, <2>2, <2>3, <2>4 DEF BodyStep
<1> QED  BY <1>1, <1>2

LEMMA BodySeenOnce ==
    ASSUME GraphInv, LoopTyped, SeenOnce, BodyStep
    PROVE  SeenOnce'
<1> SUFFICES ASSUME "sort" \notin did'
             PROVE  /\ \A j, k \in 1..Len(seen) : seen[j] = seen[k] => j = k \/ seen[j] = Nil
                    /\ \A j \in Reach' : j >= next /\ Slot(j)' # Nil => Slot(j)' \notin ToSet(seen)
  BY DEF SeenOnce, BodyStep
<1>1. /\ "sort" \notin did
      /\ \A j, k \in 1..Len(seen) : seen[j] = seen[k] => j = k \/ seen[j] = Nil
      /\ \A j \in Reach : j >= next /\ Slot(j) # Nil => Slot(j) \notin ToSet(seen)
  BY DEF SeenOnce, BodyStep
<1>2. ASSUME NEW j \in Reach', j >= next, Slot(j)' # Nil
      PROVE  Slot(j)' \notin ToSet(seen)
  <2>1. CASE Slot(j)' \notin Alloc(over)
    <3>1. ToSet(seen) \subseteq Alloc(over) \cup {Nil}
      BY ToSetOfSeq DEF LoopTyped
    <3> QED  BY <1>2, <2>1, <3>1
  <2>2. CASE \E k \in Reach : k >= j /\ Slot(j)' = Slot(k)
    <3>1. PICK k \in Reach : k >= j /\ Slot(j)' = Slot(k)
      BY <2>2
    <3>2. k \in Int /\ j \in Int /\ next \in Int
      BY DEF Reach, LoopTyped
    <3>3. k >= next
      BY <1>2, <3>1, <3>2
    <3> QED  BY <1>1, <1>2, <3>1, <3>3
  <2> QED  BY <1>2, <2>1, <2>2, SlotsMove
<1> QED  BY <1>1, <1>2

LEMMA BodyUndisturbed ==
    ASSUME GraphInv, GraphInv', LoopTyped, LoopTyped', Undisturbed, BodyStep
    PROVE  Undisturbed'
<1> SUFFICES ASSUME did' \subseteq {"add"} PROVE Undisturbed'
  BY DEF Undisturbed
<1>1. /\ UNCHANGED <<over, size, next, start, seen>> /\ did \subseteq {"add"}
      /\ BodyKept \/ BodyGrew \/ BodyGone
  BY DEF BodyStep, BodyLost, BodySorted
<1>2. /\ size <= Len(List) /\ \A j \in 1..size : Slot(j) = List[j] /\ List[j] # Nil
      /\ start = KeepAt(List, WantedTo(size)) /\ seen = KeepAt(List, WantedTo(next - 1))
  BY <1>1 DEF Undisturbed
<1>3. PICK C : C = List
  OBVIOUS
<1>4. PICK D : D = List'
  OBVIOUS
<1>5. PICK A : A = Alloc(over) \cup Alloc(over)' \cup {Nil}
  OBVIOUS
<1>6. C \in Seq(A) /\ D \in Seq(A)
  <2>1. C \in Seq(Alloc(over) \cup {Nil}) /\ D \in Seq(Alloc(over)' \cup {Nil})
    BY <1>1, <1>3, <1>4, ListHolds, ListHoldsNext DEF LoopTyped
  <2>2. /\ \A j \in 1..Len(C) : C[j] \in A
        /\ \A j \in 1..Len(D) : D[j] \in A
    BY <1>5, <2>1, ToSetOfSeq
  <2> QED  BY <2>1, <2>2
<1>7. size \in Nat /\ next \in 1..size + 1 /\ Len(C) \in Nat /\ Len(D) \in Nat
  BY <1>6 DEF LoopTyped
<1>8. size <= Len(D) /\ \A j \in 1..size : D[j] = C[j] /\ Slot(j)' = Slot(j)
  <2>1. \A j \in 1..size : j \in Reach' /\ j \in 1..Len(C) /\ j # Len(C) + 1
    BY <1>1, <1>2, <1>3, <1>7 DEF Reach
  <2>2. CASE BodyKept
    BY <1>2, <1>3, <1>4, <2>1, <2>2 DEF BodyKept, Frozen
  <2>3. CASE BodyGrew
    <3>1. PICK x \in Alloc(over)' \ Alloc(over) :
             /\ D = Append(C, x)
             /\ \A j \in Reach' : Slot(j)' = IF shared' /\ j = Len(C) + 1 THEN x ELSE Slot(j)
      BY <1>3, <1>4, <2>3 DEF BodyGrew
    <3>2. x \in A
      BY <1>5
    <3>3. Len(D) = Len(C) + 1 /\ \A j \in 1..Len(C) : D[j] = C[j]
      BY <1>6, <3>1, <3>2, AppendFacts
    <3>4. size <= Len(D)
      BY <1>2, <1>3, <1>7, <3>3
    <3> QED  BY <2>1, <3>1, <3>3, <3>4
  <2>4. CASE BodyGone
    <3>1. \A j \in 1..Len(C) : C[j] = Nil
      BY <1>3, <2>4 DEF BodyGone
    <3>2. 1..size = {}
      BY <1>2, <1>3, <2>1, <3>1
    <3>3. ~(1 \in 1..size)
      BY <3>2
    <3>4. size = 0
      BY <1>7, <3>3
    <3> QED  BY <1>7, <3>2, <3>4
  <2> QED  BY <1>1, <2>2, <2>3, <2>4
<1>9. \A j \in 1..size : D[j] # Nil /\ (Wants(over, D[j])' <=> Wants(over, C[j]))
  <2> SUFFICES ASSUME NEW j \in 1..size
               PROVE  D[j] # Nil /\ (Wants(over, D[j])' <=> Wants(over, C[j]))
    OBVIOUS
  <2>1. j \in 1..Len(C) /\ j \in 1..Len(D)
    BY <1>2, <1>3, <1>7, <1>8
  <2>2. PICK x : x = C[j]
    OBVIOUS
  <2>3. D[j] = x /\ x # Nil /\ x \in ToSet(C) \cap ToSet(D)
    BY <1>2, <1>3, <1>6, <1>8, <2>1, <2>2, ToSetOfSeq
  <2>4. Wants(over, x)' <=> Wants(over, x)
    BY <1>3, <1>4, <2>3 DEF BodyStep
  <2>5. Wants(over, D[j])' <=> Wants(over, x)'
    BY <1>4, <2>3 DEF Wants
  <2> QED  BY <2>2, <2>3, <2>4, <2>5
<1>10. ASSUME NEW k \in 0..size
       PROVE  KeepAt(D, WantedTo(k)') = KeepAt(C, WantedTo(k))
  <2>1. \A j \in 1..k : j \in 1..size
    BY <1>7
  <2>2. WantedTo(k)' = {j \in 1..k : Wants(over, D[j])'}
    BY <1>4 DEF WantedTo
  <2>3. WantedTo(k) = {j \in 1..k : Wants(over, C[j])}
    BY <1>3 DEF WantedTo
  <2>4. WantedTo(k)' = WantedTo(k)
    BY <1>9, <2>1, <2>2, <2>3
  <2>5. PICK I : I = WantedTo(k)
    OBVIOUS
  <2>6. I \subseteq 1..size
    BY <2>1, <2>3, <2>5
  <2>7. I \in SUBSET (1..Len(C)) /\ I \subseteq 1..Len(D)
    BY <1>2, <1>3, <1>7, <1>8, <2>6
  <2>8. \A j \in I : C[j] = D[j]
    BY <1>8, <2>6
  <2>9. KeepAt(C, I) = KeepAt(D, I)
    BY <1>6, <2>7, <2>8, KeepAtSame
  <2> QED  BY <2>4, <2>5, <2>9
<1>11. size \in 0..size /\ next - 1 \in 0..size
  BY <1>7
<1>12. start = KeepAt(D, WantedTo(size)') /\ seen = KeepAt(D, WantedTo(next - 1)')
  <2>1. PICK k \in 0..size : k = size
    BY <1>11
  <2>2. PICK m \in 0..size : m = next - 1
    BY <1>11
  <2>3. /\ KeepAt(D, WantedTo(k)') = KeepAt(C, WantedTo(k))
        /\ KeepAt(D, WantedTo(m)') = KeepAt(C, WantedTo(m))
    BY <1>10
  <2>4. WantedTo(size)' = WantedTo(k)' /\ WantedTo(next - 1)' = WantedTo(m)'
    BY <1>1, <2>1, <2>2 DEF WantedTo
  <2> QED  BY <1>2, <1>3, <2>1, <2>2, <2>3, <2>4
<1> QED  BY <1>1, <1>2, <1>3, <1>4, <1>8, <1>9, <1>12 DEF Undisturbed

(* What the loop was to yield is old: it is in the new slice only if it was   *)
(* in the old one, and as much wanted as it was.                              *)
LEMMA StartIsOld ==
    ASSUME GraphInv, GraphInv', LoopTyped, LoopTyped', BodyStep,
           NEW x \in ToSet(start) \cap ToSet(List')
    PROVE  /\ x \in Alloc(over) /\ x # Nil /\ x \in ToSet(List)
           /\ Wants(over, x)' <=> Wants(over, x)
<1>1. /\ List \in Seq(Alloc(over) \cup {Nil}) /\ Nil \notin Alloc(over)
      /\ List' \in Seq(Alloc(over)' \cup {Nil})
  BY ListHolds, ListHoldsNext DEF LoopTyped
<1>2. x \in Alloc(over) /\ x # Nil
  BY <1>1, ToSetOfSeq DEF LoopTyped
<1>3. x \in ToSet(List)
  <2>1. CASE BodyKept
    BY <2>1 DEF BodyKept
  <2>2. CASE BodyGrew
    <3>1. PICK y \in Alloc(over)' \ Alloc(over) : List' = Append(List, y)
      BY <2>2 DEF BodyGrew
    <3>2. PICK A : A = Alloc(over) \cup Alloc(over)' \cup {Nil}
      OBVIOUS
    <3>3. List \in Seq(A) /\ y \in A
      <4>1. \A j \in 1..Len(List) : List[j] \in A
        BY <1>1, <3>2, ToSetOfSeq
      <4> QED  BY <1>1, <3>2, <4>1
    <3>4. ToSet(List') = ToSet(List) \cup {y}
      BY <3>1, <3>3, AppendFacts
    <3> QED  BY <1>2, <3>4
  <2>3. CASE BodyLost
    BY <1>2, <2>3 DEF BodyLost, LosesAt
  <2>4. CASE BodySorted
    BY <2>4 DEF BodySorted
  <2>5. CASE BodyGone
    <3>1. Len(List') = 0 /\ \E j \in 1..Len(List') : List'[j] = x
      BY <1>1, <2>5, ToSetOfSeq DEF BodyGone
    <3> QED  BY <3>1
  <2> QED  BY <2>1, <2>2, <2>3, <2>4, <2>5 DEF BodyStep
<1> QED  BY <1>2, <1>3 DEF BodyStep

(* A deletion behind the index lets one pointer slip past the loop.           *)
LEMMA PassedMore ==
    ASSUME GraphInv, GraphInv', LoopTyped, LoopTyped', BodyStep, "sort" \notin did'
    PROVE  \/ Passed' \subseteq Passed /\ behind' >= behind
           \/ Passed' \subseteq Passed \cup {Slot(next)} /\ behind' = behind + 1
<1>1. UNCHANGED <<over, size, next, start, seen>>
  BY DEF BodyStep
<1>2. size \in Nat /\ next \in 1..size + 1 /\ behind \in Nat
  BY DEF LoopTyped
<1>3. \A x \in Passed' :
         /\ x \in ToSet(start) /\ x \in ToSet(List') /\ x \notin ToSet(seen)
         /\ x \in Alloc(over) /\ x # Nil /\ x \in ToSet(List)
         /\ \A j \in next..size : Slot(j)' # x
  BY <1>1, StartIsOld DEF Passed
<1>4. ASSUME NEW x \in Passed', x \notin Passed
      PROVE  \E j \in next..size : Slot(j) = x
  BY <1>3, <1>4 DEF Passed
<1>5. \A j \in next..size : j \in Nat \ {0} /\ j \in 1..size /\ j >= next /\ j <= size
  BY <1>2
<1>6. ASSUME ~(Passed' \subseteq Passed)
      PROVE  BodyLost /\ shared /\ shared'
  <2>1. PICK x \in Passed' : x \notin Passed
    BY <1>6
  <2>2. PICK j \in next..size : Slot(j) = x
    BY <1>4, <2>1
  <2>3. Slot(j)' # Slot(j)
    BY <1>3, <2>1, <2>2
  <2>4. j \in Reach'
    BY <1>1, <1>5 DEF Reach
  <2>5. shared'
    BY <1>5, <2>3, BodyFreezes
  <2>6. ~BodyKept
    BY <2>3, <2>4 DEF BodyKept, Frozen
  <2>7. ~BodyGrew
    <3> SUFFICES ASSUME BodyGrew PROVE FALSE
      OBVIOUS
    <3>1. j = Len(List) + 1 /\ shared
      BY <2>3, <2>4 DEF BodyGrew
    <3>2. Len(List) \in Nat
      BY ListHolds DEF LoopTyped
    <3>3. ~(j <= Len(List))
      BY <3>1, <3>2
    <3>4. Slot(j) = Nil
      BY <3>1, <3>3, SlotIs
    <3> QED  BY <1>3, <2>1, <2>2, <3>4
  <2> QED  BY <2>5, <2>6, <2>7 DEF BodyStep, BodySorted, BodyGone, BodyLost
<1>7. CASE Passed' \subseteq Passed
  <2>1. behind' = behind \/ behind' = behind + 1 \/ behind' = behind + 0
    BY DEF BodyStep, BodyKept, BodyGrew, BodyLost, BodySorted, BodyGone, Uncounted
  <2>2. behind' >= behind
    BY <1>2, <2>1
  <2> QED  BY <1>7, <2>2
<1>8. CASE ~(Passed' \subseteq Passed)
  <2>1. BodyLost /\ shared /\ shared'
    BY <1>6, <1>8
  <2>2. PICK g \in 1..Len(List) :
           /\ LosesAt(List, List', g) /\ behind' = behind + (IF g < next THEN 1 ELSE 0)
           /\ Shifted(g) \/ Cleared(g)
    BY <2>1 DEF BodyLost
  <2>3. g \in Nat /\ Slot(g) \notin ToSet(List')
    <3>1. Len(List) \in Nat /\ g \in Nat /\ g <= Len(List)
      BY ListHolds DEF LoopTyped
    <3> QED  BY <2>1, <2>2, <3>1, SlotIs DEF LosesAt
  <2>4. ASSUME NEW x \in Passed', x \notin Passed
        PROVE  g < next /\ x = Slot(next)
    <3>1. PICK j \in next..size : Slot(j) = x
      BY <1>4, <2>4
    <3>2. j # g
      BY <1>3, <2>3, <2>4, <3>1
    <3>3. j \in Reach /\ Slot(j)' # x /\ Slot(j) = x
      BY <1>3, <1>5, <2>1, <2>4, <3>1 DEF Reach
    <3>4. Shifted(g)
      BY <2>2, <3>2, <3>3 DEF Cleared
    <3>5. ~(j < g)
      BY <3>3, <3>4 DEF Shifted
    <3>6. j \in Nat /\ j > g /\ j >= next /\ j <= size
      BY <1>5, <2>3, <3>2, <3>5
    <3>7. j - 1 \in Nat \ {0} /\ ~(j - 1 < g) /\ (j - 1) + 1 = j
      <4>1. g >= 1
        OBVIOUS
      <4> QED  BY <2>3, <3>6, <4>1
    <3>8. Slot(j - 1)' = Slot((j - 1) + 1)
      BY <2>1, <3>4, <3>7 DEF Shifted, Reach
    <3>9. Slot(j - 1)' = x
      BY <3>1, <3>7, <3>8
    <3>10. ~(j - 1 \in next..size)
      BY <1>3, <2>4, <3>9
    <3>11. j = next
      BY <1>2, <3>6, <3>10
    <3> QED  BY <3>1, <3>6, <3>11
  <2>5. g < next /\ Passed' \subseteq Passed \cup {Slot(next)}
    BY <1>8, <2>4
  <2>6. behind' = behind + 1
    BY <2>2, <2>5
  <2> QED  BY <2>5, <2>6
<1> QED  BY <1>7, <1>8

LEMMA PassedFinite ==
    LoopTyped => IsFiniteSet(Passed) /\ Cardinality(Passed) \in Nat
<1> SUFFICES ASSUME LoopTyped PROVE IsFiniteSet(Passed)
  BY FS_CardinalityType
<1>1. IsFiniteSet(ToSet(start))
  BY ToSetFinite DEF LoopTyped
<1>2. Passed \in SUBSET ToSet(start)
  BY DEF Passed
<1> QED  BY <1>1, <1>2, FS_Subset

LEMMA BodyPassed ==
    ASSUME GraphInv, GraphInv', LoopTyped, LoopTyped', PassedAreCounted, BodyStep
    PROVE  PassedAreCounted'
<1> SUFFICES ASSUME "sort" \notin did' PROVE Cardinality(Passed') <= behind'
  BY DEF PassedAreCounted
<1>1. IsFiniteSet(Passed) /\ Cardinality(Passed) \in Nat
  BY PassedFinite
<1>2. Cardinality(Passed) <= behind /\ behind \in Nat /\ behind' \in Nat
  BY DEF PassedAreCounted, BodyStep, LoopTyped
<1>3. PICK P : P = Passed
  OBVIOUS
<1>4. PICK Q : Q = Passed'
  OBVIOUS
<1>5. CASE Q \subseteq P /\ behind' >= behind
  <2>1. Cardinality(Q) <= Cardinality(P) /\ Cardinality(Q) \in Nat
    BY <1>1, <1>3, <1>5, FS_Subset, FS_CardinalityType
  <2> QED  BY <1>1, <1>2, <1>3, <1>4, <1>5, <2>1
<1>6. CASE Q \subseteq P \cup {Slot(next)} /\ behind' = behind + 1
  <2>1. PICK y : y = Slot(next)
    OBVIOUS
  <2>2. /\ IsFiniteSet(P \cup {y})
        /\ Cardinality(P \cup {y}) = IF y \in P THEN Cardinality(P) ELSE Cardinality(P) + 1
    BY <1>1, <1>3, FS_AddElement
  <2>3. Cardinality(Q) <= Cardinality(P \cup {y}) /\ Cardinality(Q) \in Nat
    BY <1>6, <2>1, <2>2, FS_Subset, FS_CardinalityType
  <2>4. Cardinality(P \cup {y}) <= Cardinality(P) + 1 /\ Cardinality(P \cup {y}) \in Nat
    BY <1>1, <1>3, <2>2
  <2> QED  BY <1>1, <1>2, <1>3, <1>4, <1>6, <2>3, <2>4
<1> QED  BY <1>3, <1>4, <1>5, <1>6, PassedMore

LEMMA BodyWanted ==
    ASSUME GraphInv, GraphInv', LoopTyped, LoopTyped', StartIsWanted, BodyStep
    PROVE  StartIsWanted'
<1>1. start' = start
  BY DEF BodyStep
<1>2. ASSUME NEW x \in ToSet(start) \cap ToSet(List')
      PROVE  Wants(over, x)'
  BY <1>2, StartIsOld DEF StartIsWanted
<1> QED  BY <1>1, <1>2 DEF StartIsWanted

LEMMA BodyNils ==
    ASSUME GraphInv, GraphInv', LoopTyped, LoopTyped', NilsDeleted, LeftHow, BodyStep
    PROVE  NilsDeleted' /\ LeftHow'
<1>1. UNCHANGED <<size, seen>> /\ did \subseteq did' /\ size \in Nat
  BY DEF BodyStep, LoopTyped
<1>2. List \in Seq(Alloc(over) \cup {Nil})
  BY ListHolds DEF LoopTyped
<1>3. ASSUME "delete" \notin did', NEW j \in 1..size
      PROVE  Slot(j)' # Nil /\ Slot(j)' \in ToSet(List')
  <2>1. Slot(j) # Nil /\ Slot(j) \in ToSet(List)
    BY <1>1, <1>3 DEF NilsDeleted
  <2>2. j \in Reach'
    BY <1>1 DEF Reach
  <2>3. CASE BodyKept
    BY <2>1, <2>2, <2>3 DEF BodyKept, Frozen
  <2>4. CASE BodyGrew
    <3>1. PICK y \in Alloc(over)' \ Alloc(over) :
             /\ List' = Append(List, y)
             /\ \A k \in Reach' : Slot(k)' = IF shared' /\ k = Len(List) + 1 THEN y ELSE Slot(k)
      BY <2>4 DEF BodyGrew
    <3>2. PICK A : A = Alloc(over) \cup Alloc(over)' \cup {Nil}
      OBVIOUS
    <3>3. List \in Seq(A) /\ y \in A
      <4>1. \A k \in 1..Len(List) : List[k] \in A
        BY <1>2, <3>2, ToSetOfSeq
      <4> QED  BY <1>2, <3>2, <4>1
    <3>4. ToSet(List') = ToSet(List) \cup {y}
      BY <3>1, <3>3, AppendFacts
    <3>5. y # Nil
      BY ListHoldsNext, <3>1 DEF LoopTyped
    <3> QED  BY <2>1, <2>2, <3>1, <3>4, <3>5
  <2>5. CASE BodySorted
    <3>1. ToSet(List') = ToSet(List) /\ Len(List') = Len(List) /\ shared' = shared
      BY <2>5 DEF BodySorted
    <3>2. CASE ~shared'
      BY <2>1, <3>1, <3>2, BodyFreezes
    <3>3. CASE shared'
      <4>1. j <= Len(List)
        BY <2>1, <3>1, <3>3, SlotIs
      <4>2. Slot(j)' = List'[j]
        BY <3>1, <3>3, <4>1, SlotIs
      <4>3. List' \in Seq(Alloc(over)' \cup {Nil})
        BY ListHoldsNext DEF LoopTyped
      <4>4. j \in 1..Len(List')
        BY <1>1, <1>2, <3>1, <4>1
      <4>5. List'[j] \in ToSet(List')
        BY <4>3, <4>4, ToSetOfSeq
      <4>6. Nil \notin ToSet(List)
        <5>1. \A k \in 1..Len(List) : List[k] # Nil
          <6>1. over.of = "nodes"
            BY <2>5 DEF BodySorted
          <6>2. Holds(over)
            BY ContentHolds DEF LoopTyped
          <6> QED  BY <1>2, <6>1, <6>2, ToSetOfSeq DEF Holds, List
        <5> QED  BY <1>2, <5>1, ToSetOfSeq
      <4> QED  BY <3>1, <4>2, <4>5, <4>6
    <3> QED  BY <3>2, <3>3
  <2>6. ~BodyLost
    BY <1>3 DEF BodyLost
  <2>7. CASE BodyGone
    <3>1. ToSet(List) \subseteq {Nil}
      BY <1>2, <2>7, ToSetOfSeq DEF BodyGone
    <3> QED  BY <2>1, <3>1
  <2> QED  BY <2>3, <2>4, <2>5, <2>6, <2>7 DEF BodyStep
<1>4. NilsDeleted'
  BY <1>1, <1>3 DEF NilsDeleted
<1>5. ASSUME ~shared', "add" \notin did', NEW j \in 1..size
      PROVE  Slot(j)' = Nil
  <2>1. Slot(j)' = Slot(j)
    BY <1>5, BodyFreezes
  <2>2. CASE ~shared
    BY <1>1, <1>5, <2>1, <2>2 DEF LeftHow
  <2>3. CASE shared
    <3>1. BodyGone
      BY <1>5, <2>3 DEF BodyStep, BodyKept, BodyGrew, BodyLost, BodySorted
    <3>2. \A k \in 1..Len(List) : List[k] = Nil
      BY <3>1 DEF BodyGone
    <3>3. j \in 1..Len(List) \/ ~(j <= Len(List))
      BY <1>1, <1>2
    <3> QED  BY <2>1, <2>3, <3>2, <3>3, SlotIs
  <2> QED  BY <2>2, <2>3
<1>6. LeftHow'
  BY <1>1, <1>5 DEF LeftHow
<1> QED  BY <1>4, <1>6

LEMMA BodyFind ==
    ASSUME GraphInv, GraphInv', LoopTyped, LoopTyped', LeftHow, FindWhole, NotGrown,
           FindEmptied, BodyStep
    PROVE  FindWhole' /\ NotGrown' /\ FindEmptied'
<1>1. /\ UNCHANGED <<over, size, next, state>> /\ did \subseteq did' /\ state = "looping"
      /\ size \in Nat /\ next \in 1..size + 1
  BY DEF BodyStep, LoopTyped
<1>2. /\ List \in Seq(Alloc(over) \cup {Nil}) /\ Len(List) \in Nat
      /\ Nil \notin Alloc(over)'
  BY ListHolds, ListHoldsNext DEF LoopTyped
<1>3. \A j \in next..size : j \in 1..size /\ j <= size /\ j >= next /\ next <= size
  BY <1>1
<1>4. \A j \in 1..size : j \in Reach' /\ j \in Reach
  BY <1>1 DEF Reach
<1>5. FindWhole'
  <2> SUFFICES ASSUME over.of = "find", ~emptied', NEW j \in next..size
               PROVE  Slot(j)' # Nil
    BY <1>1 DEF FindWhole
  <2>1. ~BodyLost /\ ~emptied
    <3>1. ~BodyLost
      BY <1>3 DEF BodyLost
    <3> QED
      BY <3>1 DEF BodyStep, BodyKept, BodyGrew, BodySorted, BodyGone, Uncounted
  <2>2. Slot(j) # Nil
    BY <2>1 DEF FindWhole
  <2>3. ~BodySorted
    BY DEF BodySorted
  <2> QED  BY <1>2, <1>3, <1>4, <2>1, <2>2, <2>3 DEF BodyStep, BodyKept, BodyGrew, BodyGone, Frozen
<1>6. NotGrown'
  <2> SUFFICES ASSUME shared', "add" \notin did'
               PROVE  Len(List') <= size
    BY <1>1 DEF NotGrown
  <2>1. shared /\ Len(List) <= size
    BY <1>1 DEF NotGrown, BodyStep, BodyKept, BodyGrew, BodyLost, BodySorted, BodyGone
  <2>2. Len(List') <= Len(List) /\ Len(List') \in Nat
    <3>1. List' \in Seq(Alloc(over)' \cup {Nil})
      BY ListHoldsNext DEF LoopTyped
    <3>2. Len(List') \in Nat
      BY <3>1
    <3>3. Len(List') = Len(List) \/ Len(List') <= Len(List)
      BY DEF BodyStep, BodyKept, BodyGrew, BodyLost, LosesAt, BodySorted, BodyGone
    <3> QED  BY <1>2, <3>2, <3>3
  <2> QED  BY <1>1, <1>2, <2>1, <2>2
<1>7. FindEmptied'
  <2> SUFFICES ASSUME over.of = "find", emptied', "add" \notin did'
               PROVE  next <= size /\ (Slot(size)' = Nil \/ Emptying')
    BY <1>1 DEF FindEmptied
  <2>1. next <= size
    <3>1. emptied => next <= size
      BY <1>1 DEF FindEmptied
    <3>2. emptied' => emptied \/ next <= size
      BY DEF BodyStep, BodyKept, BodyGrew, BodyLost, BodySorted, BodyGone, Uncounted
    <3> QED  BY <3>1, <3>2
  <2>2. PICK n \in 1..size : n = size
    BY <1>1, <2>1
  <2>3. Slot(size)' = Slot(n)' /\ n \in Nat \ {0}
    BY <1>1, <2>2 DEF Slot
  <2>4. ASSUME ~shared
        PROVE  Slot(n)' = Nil
    <3>1. Slot(n) = Nil
      BY <1>1, <2>4 DEF LeftHow
    <3>2. ~shared'
      BY <2>4 DEF BodyStep, BodyKept, BodyGrew, BodyLost, BodySorted, BodyGone
    <3> QED  BY <3>1, <3>2, BodyFreezes
  <2>5. ASSUME shared, BodyLost
        PROVE  Slot(n)' = Nil \/ Emptying'
    <3>1. PICK g \in 1..Len(List) : Shifted(g) \/ Cleared(g)
      BY <2>5 DEF BodyLost
    <3>2. CASE Cleared(g)
      <4>1. pc' = "purgeFrom" /\ cur' = over'.node
        BY <1>1, <3>2 DEF Cleared
      <4> QED  BY <4>1 DEF Emptying
    <3>3. CASE Shifted(g)
      <4>1. Len(List') = Len(List) - 1 /\ Len(List) <= size /\ shared'
        BY <1>1, <2>5, <3>3 DEF Shifted, NotGrown, BodyLost
      <4>2. ~(n <= Len(List'))
        BY <1>1, <1>2, <2>2, <4>1
      <4> QED  BY <4>1, <4>2, SlotIs
    <3> QED  BY <3>1, <3>2, <3>3
  <2>6. ASSUME shared, BodyKept \/ BodyGone
        PROVE  Slot(n)' = Nil
    <3>1. emptied /\ (Slot(n) = Nil \/ Emptying)
      BY <1>1, <2>2, <2>6 DEF FindEmptied, BodyKept, BodyGone, Uncounted
    <3>2. Slot(n)' = Slot(n)
      BY <1>4, <2>6 DEF BodyKept, BodyGone, Frozen
    <3>3. Emptying => \A j \in 1..Len(List) : List[j] = Nil
      BY <2>6 DEF BodyKept, BodyGone, Kept, List, Emptying
    <3>4. n \in 1..Len(List) \/ ~(n <= Len(List))
      BY <1>2, <2>3
    <3>5. Emptying => Slot(n) = Nil
      BY <2>6, <3>3, <3>4, SlotIs
    <3> QED  BY <3>1, <3>2, <3>5
  <2>7. ~BodyGrew /\ ~BodySorted
    BY DEF BodyGrew, BodySorted
  <2> QED  BY <2>1, <2>3, <2>4, <2>5, <2>6, <2>7 DEF BodyStep
<1> QED  BY <1>5, <1>6, <1>7

LEMMA BodyInv ==
    ASSUME IterInv, Body
    PROVE  IterInv'
<1>1. GraphInv /\ LoopInv /\ state = "looping"
  BY DEF IterInv, Body
<1>2. GraphInv'
  <2>1. Next
    BY DEF Body
  <2> QED  BY <1>1, <2>1, NextGraphInv
<1>3. BodyStep /\ Fits' /\ LoopTyped'
  BY <1>1, <1>2, BodyDoes DEF LoopInv
<1>4. state' = "looping" /\ stale' = stale /\ did \subseteq did'
  BY <1>1, <1>3 DEF BodyStep
<1>5. SlotsHold' /\ SlotsDiffer'
  BY <1>1, <1>2, <1>3, BodySlots DEF LoopInv
<1>6. SeenOnce' /\ Undisturbed' /\ PassedAreCounted' /\ StartIsWanted'
  BY <1>1, <1>2, <1>3, BodySeenOnce, BodyUndisturbed, BodyPassed, BodyWanted DEF LoopInv
<1>7. NilsDeleted' /\ LeftHow' /\ FindWhole' /\ NotGrown' /\ FindEmptied'
  BY <1>1, <1>2, <1>3, BodyNils, BodyFind DEF LoopInv
<1>8. EndsAtEnd' /\ StaleHow' /\ PanicHow'
  BY <1>1, <1>4 DEF EndsAtEnd, StaleHow, PanicHow, LoopInv
<1> QED  BY <1>2, <1>3, <1>4, <1>5, <1>6, <1>7, <1>8 DEF IterInv, LoopInv

-----------------------------------------------------------------------------
(* The steps of the loop itself leave the graph alone.                        *)

LEMMA StillSlots ==
    ASSUME UNCHANGED <<vars, over, size, shared, array>>
    PROVE  /\ List' = List /\ Alloc(over)' = Alloc(over) /\ Reach' = Reach
           /\ \A j : Slot(j)' = Slot(j)
           /\ \A x : Wants(over, x)' <=> Wants(over, x)
           /\ \A k : WantedTo(k)' = WantedTo(k)
<1>1. UNCHANGED <<nodes, edges, edgesFrom, edgesTo, id, edgeTyp, to, over, size, shared, array>>
  BY DEF vars, graphVars, nodeVars, edgeVars
<1>2. Content(over)' = Content(over)
  BY <1>1 DEF Content
<1>3. List' = List
  BY <1>2 DEF List
<1>4. Alloc(over)' = Alloc(over)
  BY <1>1 DEF Alloc, NodeExists, EdgeExists
<1>5. Reach' = Reach
  BY <1>1 DEF Reach
<1>6. \A j : Slot(j)' = Slot(j)
  BY <1>1, <1>2 DEF Slot
<1>7. \A x : Wants(over, x)' <=> Wants(over, x)
  BY <1>1 DEF Wants
<1>8. \A k : WantedTo(k)' = WantedTo(k)
  <2> SUFFICES ASSUME NEW k PROVE WantedTo(k)' = WantedTo(k)
    OBVIOUS
  <2>1. \A j : Wants(over, List[j])' <=> Wants(over, List[j])
    BY <1>1, <1>3 DEF Wants
  <2> QED  BY <2>1 DEF WantedTo
<1> QED  BY <1>3, <1>4, <1>5, <1>6, <1>7, <1>8

(* What a change of state alone leaves alone.                                 *)
LEMMA StillParts ==
    ASSUME LoopInv, UNCHANGED <<vars, over, size, next, room, shared, array, history>>,
           state' \in {"looping", "done", "panicked"}
    PROVE  /\ LoopTyped' /\ Fits' /\ SlotsHold' /\ SlotsDiffer' /\ SeenOnce' /\ Undisturbed'
           /\ PassedAreCounted' /\ StartIsWanted' /\ NilsDeleted' /\ LeftHow' /\ StaleHow'
           /\ NotGrown' /\ Stops' = Stops
<1>1. /\ List' = List /\ Alloc(over)' = Alloc(over) /\ Reach' = Reach
      /\ \A j : Slot(j)' = Slot(j)
      /\ \A x : Wants(over, x)' <=> Wants(over, x)
      /\ \A k : WantedTo(k)' = WantedTo(k)
  BY StillSlots
<1>2. UNCHANGED <<over, size, next, room, shared, start, seen, did, behind, emptied, stale>>
  BY DEF history
<1>3. LoopTyped' /\ Fits'
  BY <1>1, <1>2 DEF LoopInv, LoopTyped, Fits
<1>4. SlotsHold' /\ SlotsDiffer'
  BY <1>1, <1>2 DEF LoopInv, SlotsHold, SlotsDiffer
<1>5. SeenOnce'
  BY <1>1, <1>2 DEF LoopInv, SeenOnce
<1>6. Undisturbed'
  <2>1. WantedTo(size)' = WantedTo(size) /\ WantedTo(next - 1)' = WantedTo(next - 1)
    <3>1. PICK k : k = size
      OBVIOUS
    <3>2. PICK m : m = next - 1
      OBVIOUS
    <3>3. WantedTo(size)' = WantedTo(k)' /\ WantedTo(next - 1)' = WantedTo(m)'
      BY <1>2, <3>1, <3>2 DEF WantedTo
    <3> QED  BY <1>1, <3>1, <3>2, <3>3
  <2> QED  BY <1>1, <1>2, <2>1 DEF LoopInv, Undisturbed
<1>7. Passed' = Passed
  BY <1>1, <1>2 DEF Passed
<1>8. PassedAreCounted' /\ StartIsWanted'
  BY <1>1, <1>2, <1>7 DEF LoopInv, PassedAreCounted, StartIsWanted
<1>9. NilsDeleted' /\ LeftHow' /\ StaleHow' /\ NotGrown'
  BY <1>1, <1>2 DEF LoopInv, NilsDeleted, LeftHow, StaleHow, NotGrown
<1>10. Stops' = Stops
  <2>1. \A j : Wants(over, Slot(j))' <=> Wants(over, Slot(j))
    <3> SUFFICES ASSUME NEW j PROVE Wants(over, Slot(j))' <=> Wants(over, Slot(j))
      OBVIOUS
    <3>1. PICK x : x = Slot(j)
      OBVIOUS
    <3>2. Wants(over, Slot(j))' <=> Wants(over, x)'
      BY <1>1, <3>1 DEF Wants
    <3> QED  BY <1>1, <3>1, <3>2
  <2> QED  BY <1>1, <1>2, <2>1 DEF Stops
<1> QED  BY <1>3, <1>4, <1>5, <1>6, <1>8, <1>9, <1>10

LEMMA StutterInv ==
    ASSUME IterInv, UNCHANGED allVars
    PROVE  IterInv'
<1>1. UNCHANGED <<vars, over, size, next, room, shared, array, history, state>>
  BY DEF allVars, loop
<1>2. GraphInv'
  BY <1>1, NextGraphInv DEF IterInv
<1>3. CASE state = "before"
  <2>1. UNCHANGED <<pc, size, next, shared, start, seen, did, behind, emptied, stale>>
    BY <1>1 DEF vars, loopVars, history
  <2> QED  BY <1>1, <1>2, <1>3, <2>1 DEF IterInv, BeforeInv
<1>4. CASE state # "before"
  <2>1. LoopInv
    BY <1>4 DEF IterInv
  <2>2. state' \in {"looping", "done", "panicked"}
    BY <1>1, <2>1 DEF LoopInv, LoopTyped
  <2>3. /\ LoopTyped' /\ Fits' /\ SlotsHold' /\ SlotsDiffer' /\ SeenOnce' /\ Undisturbed'
        /\ PassedAreCounted' /\ StartIsWanted' /\ NilsDeleted' /\ LeftHow' /\ StaleHow'
        /\ NotGrown' /\ Stops' = Stops
    BY <1>1, <2>1, <2>2, StillParts
  <2>4. \A j : Slot(j)' = Slot(j)
    BY <1>1, StillSlots
  <2>5. UNCHANGED <<over, size, next, did, emptied, pc, cur>>
    BY <1>1 DEF vars, loopVars, history
  <2>6. EndsAtEnd' /\ PanicHow'
    BY <1>1, <2>1, <2>3, <2>5 DEF LoopInv, EndsAtEnd, PanicHow
  <2>7. FindWhole' /\ FindEmptied'
    <3>1. Slot(size)' = Slot(size)
      <4>1. PICK n : n = size
        OBVIOUS
      <4>2. Slot(size)' = Slot(n)'
        BY <2>5, <4>1 DEF Slot
      <4> QED  BY <2>4, <4>1, <4>2
    <3>2. Emptying' <=> Emptying
      BY <2>5 DEF Emptying
    <3> QED  BY <1>1, <2>1, <2>4, <2>5, <3>1, <3>2 DEF LoopInv, FindWhole, FindEmptied
  <2>8. LoopInv'
    BY <2>3, <2>6, <2>7 DEF LoopInv
  <2> QED  BY <1>1, <1>2, <1>4, <2>8 DEF IterInv
<1> QED  BY <1>3, <1>4

LEMMA FinishInv ==
    ASSUME IterInv, Finish
    PROVE  IterInv'
<1>1. /\ UNCHANGED <<vars, over, size, next, room, shared, array, history>>
      /\ state = "looping" /\ state' = "done" /\ pc = "idle" /\ Stops = {}
  BY DEF Finish
<1>2. LoopInv
  BY <1>1 DEF IterInv
<1>3. GraphInv'
  BY <1>1, NextGraphInv DEF IterInv
<1>4. /\ LoopTyped' /\ Fits' /\ SlotsHold' /\ SlotsDiffer' /\ SeenOnce' /\ Undisturbed'
      /\ PassedAreCounted' /\ StartIsWanted' /\ NilsDeleted' /\ LeftHow' /\ StaleHow'
      /\ NotGrown' /\ Stops' = Stops
  BY <1>1, <1>2, StillParts
<1>5. EndsAtEnd' /\ PanicHow'
  BY <1>1, <1>4 DEF EndsAtEnd, PanicHow
<1>6. UNCHANGED <<over, size, next, did, emptied>>
  BY <1>1 DEF history
<1>7. FindWhole'
  <2>1. \A j : Slot(j)' = Slot(j)
    BY <1>1, StillSlots
  <2> QED  BY <1>1, <1>2, <1>6, <2>1 DEF LoopInv, FindWhole
<1>8. ~(over.of = "find" /\ emptied /\ "add" \notin did)
  <2> SUFFICES ASSUME over.of = "find", emptied, "add" \notin did PROVE FALSE
    OBVIOUS
  <2>1. next <= size /\ Slot(size) = Nil /\ size \in Nat /\ next \in 1..size + 1
    BY <1>1, <1>2 DEF LoopInv, LoopTyped, FindEmptied, Emptying
  <2>2. size \in next..size
    BY <2>1
  <2> QED  BY <1>1, <2>1, <2>2 DEF Stops
<1>9. FindEmptied'
  BY <1>6, <1>8 DEF FindEmptied
<1> QED  BY <1>1, <1>3, <1>4, <1>5, <1>7, <1>9 DEF IterInv, LoopInv

(* The element at m is the next that the loop comes to; y is what is there.    *)
YieldsAt(m, y) ==
    /\ m \in next..size /\ m \in 1..size /\ m \in Reach /\ y = Slot(m)
    /\ y = Nil \/ Wants(over, y)
    /\ \A j \in next..m - 1 : Slot(j) # Nil /\ ~Wants(over, Slot(j))
    /\ next' = m + 1
    /\ \/ over.of = "find" /\ y = Nil /\ state' = "panicked" /\ UNCHANGED <<seen, stale>>
       \/ /\ ~(over.of = "find" /\ y = Nil) /\ state' = "looping"
          /\ seen' = Append(seen, y)
          /\ stale' = (stale \/ y \notin ToSet(List) \cup {Nil})

LEMMA YieldDoes ==
    ASSUME LoopTyped, Yield
    PROVE  \E m, y : YieldsAt(m, y)
<1>1. /\ state = "looping" /\ Stops # {} /\ size \in Nat /\ next \in 1..size + 1
  BY DEF Yield, LoopTyped
<1>2. PICK m \in Stops : \A j \in Stops : m <= j
  <2>1. Stops \in SUBSET Nat
    BY <1>1 DEF Stops
  <2>2. PICK S : S = Stops
    OBVIOUS
  <2>3. \E n \in S : \A j \in S : n <= j
    BY <1>1, <2>1, <2>2, LeastNatural
  <2> QED  BY <2>2, <2>3
<1>3. Min(Stops) = m
  <2>1. PICK S : S = Stops
    OBVIOUS
  <2>2. S \subseteq Nat /\ m \in S /\ \A j \in S : m <= j
    BY <1>1, <1>2, <2>1 DEF Stops
  <2>3. \A n \in S : (\A j \in S : n <= j) => n = m
    BY <2>2
  <2>4. Min(S) = m
    BY <2>2, <2>3 DEF Min
  <2> QED  BY <2>1, <2>4
<1>4. m \in next..size /\ (Slot(m) = Nil \/ Wants(over, Slot(m)))
  BY <1>2 DEF Stops
<1>5. ASSUME NEW j \in next..m - 1
      PROVE  Slot(j) # Nil /\ ~Wants(over, Slot(j))
  <2>1. j \notin Stops
    BY <1>1, <1>2, <1>4
  <2>2. j \in next..size
    BY <1>1, <1>4
  <2> QED  BY <2>1, <2>2 DEF Stops
<1>6. m \in 1..size /\ m \in Reach
  BY <1>1, <1>4 DEF Reach
<1>7. PICK y : y = Slot(m)
  OBVIOUS
<1>8. /\ next' = m + 1
      /\ IF over.of = "find" /\ y = Nil
         THEN state' = "panicked" /\ UNCHANGED <<seen, stale>>
         ELSE /\ seen' = Append(seen, y)
              /\ stale' = (stale \/ y \notin ToSet(List) \cup {Nil})
              /\ UNCHANGED state
  BY <1>3, <1>7 DEF Yield, List
<1>9. YieldsAt(m, y)
  BY <1>1, <1>4, <1>5, <1>6, <1>7, <1>8 DEF YieldsAt
<1> QED  BY <1>9

LEMMA YieldTyped ==
    ASSUME LoopTyped, SlotsHold, Yield, NEW m, NEW y, YieldsAt(m, y)
    PROVE  LoopTyped'
<1>1. /\ UNCHANGED <<vars, over, size, room, shared, array, start, did, behind, emptied>>
  BY DEF Yield
<1>2. Alloc(over)' = Alloc(over)
  BY <1>1, StillSlots
<1>3. m \in 1..size /\ size \in Nat /\ next' = m + 1
  BY DEF YieldsAt, LoopTyped
<1>4. next' \in 1..size + 1
  BY <1>3
<1>5. y \in Alloc(over) \cup {Nil}
  BY DEF YieldsAt, SlotsHold
<1>6. seen' \in Seq(Alloc(over) \cup {Nil})
  BY <1>5 DEF YieldsAt, LoopTyped
<1>7. stale' \in BOOLEAN /\ state' \in {"looping", "panicked"}
  BY DEF YieldsAt, LoopTyped
<1> QED  BY <1>1, <1>2, <1>4, <1>6, <1>7 DEF LoopTyped

LEMMA YieldSeenOnce ==
    ASSUME LoopTyped, SlotsHold, SlotsDiffer, SeenOnce, Yield,
           NEW m, NEW y, YieldsAt(m, y)
    PROVE  SeenOnce'
<1> SUFFICES ASSUME "sort" \notin did' PROVE SeenOnce'
  BY DEF SeenOnce
<1>1. /\ UNCHANGED <<vars, over, size, shared, array, did>>
  BY DEF Yield
<1>2. Reach' = Reach /\ \A j : Slot(j)' = Slot(j)
  BY <1>1, StillSlots
<1>3. /\ \A j, k \in 1..Len(seen) : seen[j] = seen[k] => j = k \/ seen[j] = Nil
      /\ \A j \in Reach : j >= next /\ Slot(j) # Nil => Slot(j) \notin ToSet(seen)
  BY <1>1 DEF SeenOnce
<1>4. m \in next..size /\ m \in Reach /\ y = Slot(m) /\ next' = m + 1 /\ m >= next
  BY DEF YieldsAt, LoopTyped
<1>5. size \in Nat /\ next \in Nat /\ m \in Nat /\ Reach \subseteq Nat
  BY <1>4 DEF LoopTyped, Reach
<1>6. \A j \in Reach : j >= next' => j >= next /\ j # m
  BY <1>4, <1>5
<1>7. \A j \in Reach : j # m /\ Slot(j) # Nil => Slot(j) # y
  BY <1>4 DEF SlotsDiffer
<1>8. CASE seen' = seen
  BY <1>2, <1>3, <1>6, <1>8 DEF SeenOnce
<1>9. CASE seen' = Append(seen, y)
  <2>1. PICK A : A = Alloc(over) \cup {Nil}
    OBVIOUS
  <2>2. seen \in Seq(A) /\ y \in A
    BY <1>4, <2>1 DEF LoopTyped, SlotsHold
  <2>3. /\ Len(seen') = Len(seen) + 1 /\ ToSet(seen') = ToSet(seen) \cup {y}
        /\ \A j \in 1..Len(seen) : seen'[j] = seen[j] /\ seen[j] \in ToSet(seen)
        /\ seen'[Len(seen) + 1] = y
    BY <1>9, <2>2, AppendFacts, ToSetOfSeq
  <2>4. y # Nil => \A j \in 1..Len(seen) : seen[j] # y
    BY <1>3, <1>4, <2>3
  <2>5. \A j \in 1..Len(seen') : j \in 1..Len(seen) \/ j = Len(seen) + 1
    BY <2>2, <2>3
  <2>6. \A j, k \in 1..Len(seen') : seen'[j] = seen'[k] => j = k \/ seen'[j] = Nil
    BY <1>3, <2>3, <2>4, <2>5
  <2>7. \A j \in Reach : j >= next' /\ Slot(j) # Nil => Slot(j) \notin ToSet(seen')
    BY <1>3, <1>6, <1>7, <2>3
  <2> QED  BY <1>2, <2>6, <2>7 DEF SeenOnce
<1> QED  BY <1>8, <1>9 DEF YieldsAt

LEMMA YieldUndisturbed ==
    ASSUME GraphInv, LoopTyped, Undisturbed, Yield, NEW m, NEW y, YieldsAt(m, y)
    PROVE  Undisturbed'
<1> SUFFICES ASSUME did' \subseteq {"add"} PROVE Undisturbed'
  BY DEF Undisturbed
<1>1. /\ UNCHANGED <<vars, over, size, shared, array, start, did>>
  BY DEF Yield
<1>2. /\ List' = List /\ \A j : Slot(j)' = Slot(j)
      /\ \A k : WantedTo(k)' = WantedTo(k)
  BY <1>1, StillSlots
<1>3. /\ size <= Len(List) /\ \A j \in 1..size : Slot(j) = List[j] /\ List[j] # Nil
      /\ start = KeepAt(List, WantedTo(size)) /\ seen = KeepAt(List, WantedTo(next - 1))
  BY <1>1 DEF Undisturbed
<1>4. PICK C : C = List
  OBVIOUS
<1>5. PICK A : A = Alloc(over) \cup {Nil}
  OBVIOUS
<1>6. C \in Seq(A)
  BY <1>4, <1>5, ListHolds DEF LoopTyped
<1>7. /\ size \in Nat /\ next \in 1..size + 1 /\ m \in next..size /\ m \in 1..size
      /\ m \in 1..Len(C)
  BY <1>3, <1>4, <1>6 DEF LoopTyped, YieldsAt
<1>8. y = C[m] /\ y # Nil /\ Wants(over, C[m])
  BY <1>3, <1>4, <1>7 DEF YieldsAt
<1>9. \A j \in next..m - 1 : ~Wants(over, C[j])
  <2> SUFFICES ASSUME NEW j \in next..m - 1 PROVE ~Wants(over, C[j])
    OBVIOUS
  <2>1. j \in 1..size
    BY <1>7
  <2>2. Slot(j) = C[j]
    BY <1>3, <1>4, <2>1
  <2> QED  BY <2>2 DEF YieldsAt
<1>10. PICK I : I = WantedTo(next - 1)
  OBVIOUS
<1>11. I = {j \in 1..next - 1 : Wants(over, C[j])}
  BY <1>4, <1>10 DEF WantedTo
<1>12. WantedTo(m) = I \cup {m}
  <2>1. WantedTo(m) = {j \in 1..m : Wants(over, C[j])}
    BY <1>4 DEF WantedTo
  <2>2. \A j \in 1..m : j \in 1..next - 1 \/ j \in next..m - 1 \/ j = m
    BY <1>7
  <2>3. \A j \in 1..next - 1 : j \in 1..m
    BY <1>7
  <2>4. m \in 1..m
    BY <1>7
  <2> QED  BY <1>8, <1>9, <1>11, <2>1, <2>2, <2>3, <2>4
<1>13. I \in SUBSET (1..Len(C)) /\ \A j \in I : j < m
  BY <1>7, <1>11
<1>14. KeepAt(C, WantedTo(m)) = Append(KeepAt(C, I), C[m])
  BY <1>6, <1>7, <1>12, <1>13, KeepAtNext
<1>15. seen' = KeepAt(C, WantedTo(m))
  BY <1>3, <1>4, <1>8, <1>10, <1>14 DEF YieldsAt
<1>16. WantedTo(next - 1)' = WantedTo(m)
  <2>1. next' - 1 = m
    BY <1>7 DEF YieldsAt
  <2>2. WantedTo(next - 1)' = WantedTo(m)'
    BY <2>1 DEF WantedTo
  <2> QED  BY <1>2, <2>2
<1>17. WantedTo(size)' = WantedTo(size)
  <2>1. PICK k : k = size
    OBVIOUS
  <2>2. WantedTo(size)' = WantedTo(k)'
    BY <1>1, <2>1 DEF WantedTo
  <2> QED  BY <1>2, <2>1, <2>2
<1> QED  BY <1>1, <1>2, <1>3, <1>4, <1>15, <1>16, <1>17 DEF Undisturbed

LEMMA YieldPassed ==
    ASSUME GraphInv, LoopTyped, PassedAreCounted, StartIsWanted, Yield,
           NEW m, NEW y, YieldsAt(m, y)
    PROVE  PassedAreCounted' /\ StartIsWanted'
<1>1. /\ UNCHANGED <<vars, over, size, shared, array, start, did, behind>>
  BY DEF Yield
<1>2. /\ List' = List /\ (\A j : Slot(j)' = Slot(j))
      /\ \A x : Wants(over, x)' <=> Wants(over, x)
  BY <1>1, StillSlots
<1>3. StartIsWanted'
  BY <1>1, <1>2 DEF StartIsWanted
<1>4. PICK A : A = Alloc(over) \cup {Nil}
  OBVIOUS
<1>5. /\ m \in next..size /\ y = Slot(m) /\ next' = m + 1
      /\ next \in Nat /\ size \in Nat /\ m \in Nat
  BY DEF YieldsAt, LoopTyped
<1>6. \/ y = Nil /\ seen' = seen
      \/ ToSet(seen) \cup {y} = ToSet(seen')
  <2> SUFFICES ASSUME seen' = Append(seen, y) PROVE ToSet(seen) \cup {y} = ToSet(seen')
    BY DEF YieldsAt
  <2>1. PICK B : B = A \cup {y}
    OBVIOUS
  <2>2. seen \in Seq(A)
    BY <1>4 DEF LoopTyped
  <2>3. \A j \in 1..Len(seen) : seen[j] \in B
    BY <2>1, <2>2, ToSetOfSeq
  <2>4. seen \in Seq(B) /\ y \in B
    BY <2>1, <2>2, <2>3
  <2> QED  BY <2>4, AppendFacts
<1>7. ToSet(start) \cap {Nil} = {}
  <2>1. Nil \notin Alloc(over)
    BY ListHolds DEF LoopTyped
  <2>2. ToSet(start) \subseteq Alloc(over)
    BY ToSetOfSeq DEF LoopTyped
  <2> QED  BY <2>1, <2>2
<1>8. ASSUME NEW x \in Passed' PROVE x \in Passed
  <2>1. /\ x \in ToSet(start) \cap ToSet(List) /\ x \notin ToSet(seen')
        /\ \A j \in m + 1..size : Slot(j) # x
    BY <1>1, <1>2, <1>5 DEF Passed
  <2>2. x \notin ToSet(seen) /\ x # y
    BY <1>6, <1>7, <2>1
  <2>3. Wants(over, x)
    BY <2>1 DEF StartIsWanted
  <2>4. \A j \in next..m - 1 : Slot(j) # x
    BY <2>3 DEF YieldsAt
  <2>5. \A j \in next..size : j \in next..m - 1 \/ j = m \/ j \in m + 1..size
    BY <1>5
  <2>6. \A j \in next..size : Slot(j) # x
    BY <1>5, <2>1, <2>2, <2>4, <2>5
  <2> QED  BY <2>1, <2>2, <2>6 DEF Passed
<1>9. ASSUME "sort" \notin did' PROVE Cardinality(Passed') <= behind'
  <2>1. PICK P : P = Passed
    OBVIOUS
  <2>2. PICK Q : Q = Passed'
    OBVIOUS
  <2>3. Q \in SUBSET P
    BY <1>8, <2>1, <2>2
  <2>4. IsFiniteSet(P) /\ Cardinality(P) \in Nat
    BY <2>1, PassedFinite
  <2>5. Cardinality(Q) <= Cardinality(P) /\ Cardinality(Q) \in Nat
    BY <2>3, <2>4, FS_Subset, FS_CardinalityType
  <2>6. Cardinality(P) <= behind /\ behind' = behind /\ behind \in Nat
    BY <1>1, <1>9, <2>1 DEF PassedAreCounted, LoopTyped
  <2> QED  BY <2>2, <2>4, <2>5, <2>6
<1> QED  BY <1>3, <1>9 DEF PassedAreCounted

LEMMA YieldOrigins ==
    ASSUME GraphInv, pc = "idle", LoopTyped, NilsDeleted, LeftHow, StaleHow, Yield,
           NEW m, NEW y, YieldsAt(m, y)
    PROVE  NilsDeleted' /\ LeftHow' /\ StaleHow'
<1>1. /\ UNCHANGED <<vars, over, size, shared, array, did>>
  BY DEF Yield
<1>2. /\ List' = List /\ \A j : Slot(j)' = Slot(j)
  BY <1>1, StillSlots
<1>3. m \in 1..size /\ y = Slot(m) /\ size \in Nat
  BY DEF YieldsAt, LoopTyped
<1>4. LeftHow'
  BY <1>1, <1>2 DEF LeftHow
<1>5. ASSUME "delete" \notin did PROVE Nil \notin ToSet(seen') /\ y \in ToSet(List)
  <2>1. Nil \notin ToSet(seen) /\ y # Nil /\ y \in ToSet(List)
    BY <1>3, <1>5 DEF NilsDeleted
  <2>2. seen' = Append(seen, y)
    BY <2>1 DEF YieldsAt
  <2>3. PICK B : B = Alloc(over) \cup {Nil} \cup {y}
    OBVIOUS
  <2>4. seen \in Seq(Alloc(over) \cup {Nil})
    BY DEF LoopTyped
  <2>5. \A j \in 1..Len(seen) : seen[j] \in B
    BY <2>3, <2>4, ToSetOfSeq
  <2>6. seen \in Seq(B) /\ y \in B
    BY <2>3, <2>4, <2>5
  <2>7. ToSet(seen') = ToSet(seen) \cup {y}
    BY <2>2, <2>6, AppendFacts
  <2> QED  BY <2>1, <2>7
<1>6. NilsDeleted'
  BY <1>1, <1>2, <1>5 DEF NilsDeleted
<1>7. ASSUME y \notin ToSet(List) \cup {Nil}
      PROVE  {"add", "delete"} \subseteq did
  <2>1. "delete" \in did
    BY <1>5, <1>7
  <2>2. ~shared
    <3> SUFFICES ASSUME shared PROVE FALSE
      OBVIOUS
    <3>1. List \in Seq(Alloc(over) \cup {Nil})
      BY ListHolds DEF LoopTyped
    <3>2. m <= Len(List) => m \in 1..Len(List)
      BY <1>3, <3>1
    <3>3. m <= Len(List) => List[m] \in ToSet(List)
      BY <3>1, <3>2, ToSetOfSeq
    <3> QED  BY <1>3, <1>7, <3>3, SlotIs
  <2>3. "add" \in did
    BY <1>3, <1>7, <2>2 DEF LeftHow
  <2> QED  BY <2>1, <2>3
<1>8. StaleHow'
  BY <1>1, <1>7 DEF StaleHow, YieldsAt
<1> QED  BY <1>4, <1>6, <1>8

LEMMA YieldFind ==
    ASSUME pc = "idle", LoopTyped, FindWhole, FindEmptied, NotGrown, Yield,
           NEW m, NEW y, YieldsAt(m, y)
    PROVE  FindWhole' /\ FindEmptied' /\ NotGrown'
<1>1. /\ UNCHANGED <<vars, over, size, shared, array, did, emptied>> /\ state = "looping"
  BY DEF Yield
<1>2. List' = List /\ \A j : Slot(j)' = Slot(j)
  BY <1>1, StillSlots
<1>3. /\ m \in next..size /\ y = Slot(m) /\ size \in Nat /\ next \in Nat /\ m \in Nat
      /\ next' = m + 1
  BY DEF YieldsAt, LoopTyped
<1>4. NotGrown'
  BY <1>1, <1>2 DEF NotGrown
<1>5. ASSUME over.of = "find", ~emptied
      PROVE  state' # "panicked" /\ \A j \in m + 1..size : Slot(j) # Nil
  <2>1. \A j \in next..size : Slot(j) # Nil
    BY <1>5 DEF FindWhole
  <2>2. y # Nil
    BY <1>3, <2>1
  <2>3. \A j \in m + 1..size : j \in next..size
    BY <1>3
  <2> QED  BY <2>1, <2>2, <2>3 DEF YieldsAt
<1>6. FindWhole'
  BY <1>1, <1>2, <1>3, <1>5 DEF FindWhole
<1>7. ASSUME over.of = "find", emptied, "add" \notin did
      PROVE  /\ state' # "done" /\ Slot(size) = Nil
             /\ state' = "looping" => m + 1 <= size
  <2>1. next <= size /\ Slot(size) = Nil
    BY <1>1, <1>7 DEF FindEmptied, Emptying
  <2>2. state' = "looping" => y # Nil
    BY <1>7 DEF YieldsAt
  <2>3. state' = "looping" => m # size
    BY <1>3, <2>1, <2>2
  <2>4. m # size => m + 1 <= size
    BY <1>3
  <2>5. state' # "done"
    BY DEF YieldsAt
  <2> QED  BY <2>1, <2>3, <2>4, <2>5
<1>8. Slot(size)' = Slot(size)
  <2>1. PICK n : n = size
    OBVIOUS
  <2>2. Slot(size)' = Slot(n)'
    BY <1>1, <2>1 DEF Slot
  <2> QED  BY <1>2, <2>1, <2>2
<1>9. FindEmptied'
  BY <1>1, <1>3, <1>7, <1>8 DEF FindEmptied
<1> QED  BY <1>4, <1>6, <1>9

LEMMA YieldInv ==
    ASSUME IterInv, Yield
    PROVE  IterInv'
<1>1. /\ UNCHANGED <<vars, over, size, room, shared, array, start, did, behind, emptied>>
      /\ state = "looping" /\ pc = "idle"
  BY DEF Yield
<1>2. GraphInv /\ LoopInv
  BY <1>1 DEF IterInv
<1>3. GraphInv'
  BY <1>1, <1>2, NextGraphInv
<1>4. PICK m, y : YieldsAt(m, y)
  BY <1>2, YieldDoes DEF LoopInv
<1>5. LoopTyped' /\ SeenOnce' /\ Undisturbed'
  BY <1>2, <1>4, YieldTyped, YieldSeenOnce, YieldUndisturbed DEF LoopInv
<1>6. PassedAreCounted' /\ StartIsWanted' /\ NilsDeleted' /\ LeftHow' /\ StaleHow'
  BY <1>1, <1>2, <1>4, YieldPassed, YieldOrigins DEF LoopInv
<1>7. FindWhole' /\ FindEmptied' /\ NotGrown'
  BY <1>1, <1>2, <1>4, YieldFind DEF LoopInv
<1>8. /\ List' = List /\ Alloc(over)' = Alloc(over) /\ Reach' = Reach
      /\ \A j : Slot(j)' = Slot(j)
  BY <1>1, StillSlots
<1>9. Fits' /\ SlotsHold' /\ SlotsDiffer'
  BY <1>1, <1>2, <1>8 DEF LoopInv, Fits, SlotsHold, SlotsDiffer
<1>10. state' \in {"looping", "panicked"}
  BY <1>4 DEF YieldsAt
<1>11. EndsAtEnd' /\ PanicHow'
  <2>1. EndsAtEnd'
    BY <1>10 DEF EndsAtEnd
  <2>2. ASSUME state' = "panicked" PROVE over.of = "find" /\ "delete" \in did
    BY <1>2, <1>4, <2>2 DEF YieldsAt, LoopInv, NilsDeleted
  <2> QED  BY <1>1, <2>1, <2>2 DEF PanicHow
<1> QED  BY <1>3, <1>5, <1>6, <1>7, <1>9, <1>10, <1>11 DEF IterInv, LoopInv

(* A loop that begins is at the first element of a slice that holds no nil.   *)
LEMMA BeginStarts ==
    ASSUME GraphInv, BeforeInv, NEW s \in Slices, Begin(s)
    PROVE  /\ GraphInv' /\ pc' = "idle" /\ over' = s /\ s \in Slices
           /\ List' = Content(s) /\ Alloc(over)' = Alloc(s) /\ size' = Len(List') /\ next' = 1
           /\ List' \in Seq(Alloc(s)) /\ Nil \notin Alloc(s)
           /\ shared' /\ room' \in Nat /\ Len(List') <= room' /\ state' = "looping"
           /\ seen' = << >> /\ did' = {} /\ behind' = 0 /\ emptied' = FALSE /\ stale' = FALSE
           /\ start' = KeepAt(List', WantedTo(size)')
           /\ \A j \in 1..size' : Slot(j)' = List'[j] /\ List'[j] \in Alloc(s)
<1>1. /\ UNCHANGED <<vars, next, shared, seen, did, behind, emptied, stale>>
      /\ over' = s /\ size' = Len(Content(s)) /\ state' = "looping"
      /\ room' \in Len(Content(s))..Len(Content(s)) + MaxRoom
      /\ start' = KeepAt(Content(s), {j \in 1..Len(Content(s)) : Wants(s, Content(s)[j])})
  BY DEF Begin
<1>2. UNCHANGED <<nodes, edges, edgesFrom, edgesTo, id, edgeTyp, to, pc>>
  BY <1>1 DEF vars, graphVars, nodeVars, edgeVars, loopVars
<1>3. GraphInv'
  BY <1>1, NextGraphInv
<1>4. List' = Content(s) /\ Alloc(over)' = Alloc(s)
  <2>1. Content(over)' = Content(s)
    BY <1>1, <1>2 DEF Content
  <2>2. Alloc(over)' = Alloc(s)
    BY <1>1, <1>2 DEF Alloc, NodeExists, EdgeExists
  <2> QED  BY <2>1, <2>2 DEF List
<1>5. PICK C : C = Content(s)
  OBVIOUS
<1>6. C \in Seq(Alloc(s)) /\ Nil \notin Alloc(s)
  <2>1. Holds(s) /\ pc = "idle"
    BY ContentHolds DEF BeforeInv
  <2>2. C \in Seq(Alloc(s) \cup {Nil}) /\ Nil \notin Alloc(s) /\ Nil \notin ToSet(C)
    BY <1>5, <2>1 DEF Holds
  <2>3. \A j \in 1..Len(C) : C[j] \in Alloc(s)
    BY <2>2, ToSetOfSeq
  <2> QED  BY <2>2, <2>3
<1>7. Len(C) \in Nat /\ MaxRoom \in Nat
  BY <1>6, StartAssumption
<1>8. room' \in Nat /\ Len(C) <= room'
  BY <1>1, <1>5, <1>7
<1>9. start' = KeepAt(List', WantedTo(size)')
  <2>1. WantedTo(size)' = {j \in 1..Len(C) : Wants(over, C[j])'}
    BY <1>1, <1>4, <1>5 DEF WantedTo
  <2>2. \A j : Wants(over, C[j])' <=> Wants(s, C[j])
    BY <1>1, <1>2, <1>5 DEF Wants
  <2>3. WantedTo(size)' = {j \in 1..Len(C) : Wants(s, C[j])}
    BY <2>1, <2>2
  <2> QED  BY <1>1, <1>4, <1>5, <2>3
<1>10. shared'
  BY <1>1 DEF BeforeInv
<1>11. ASSUME NEW j \in 1..Len(C)
       PROVE  Slot(j)' = C[j] /\ C[j] \in Alloc(s)
  <2>1. j <= Len(C) /\ C[j] \in Alloc(s)
    BY <1>6, <1>7
  <2> QED  BY <1>4, <1>5, <1>10, <2>1, SlotIs
<1>12. /\ next' = 1 /\ seen' = << >> /\ did' = {} /\ behind' = 0 /\ emptied' = FALSE
       /\ stale' = FALSE /\ pc' = "idle"
  BY <1>1, <1>2 DEF BeforeInv
<1> QED  BY <1>1, <1>3, <1>4, <1>5, <1>6, <1>8, <1>9, <1>10, <1>11, <1>12

(* What a loop was to yield are the elements of the slice that it wants.      *)
LEMMA WantedKept ==
    ASSUME NEW A, NEW C \in Seq(A), NEW I \in SUBSET (1..Len(C))
    PROVE  /\ KeepAt(C, I) \in Seq(A)
           /\ \A x \in ToSet(KeepAt(C, I)) : \E j \in I : C[j] = x
           /\ \A j \in I : C[j] \in ToSet(KeepAt(C, I))
<1>1. PICK k : k = KeepAt(C, I)
  OBVIOUS
<1>2. k \in Seq(A) /\ Len(k) = Cardinality(I)
  BY <1>1, KeepAtPlaces
<1>3. /\ \A g \in I : CountTo(I, g) \in 1..Len(k) /\ k[CountTo(I, g)] = C[g]
      /\ \A n \in 1..Len(k) : \E g \in I : CountTo(I, g) = n
  BY <1>1, <1>2, KeepAtPlaces
<1>4. ASSUME NEW x \in ToSet(k) PROVE \E j \in I : C[j] = x
  <2>1. PICK n \in 1..Len(k) : k[n] = x
    BY <1>2, ToSetOfSeq
  <2> QED  BY <1>3, <2>1
<1>5. ASSUME NEW j \in I PROVE C[j] \in ToSet(k)
  <2>1. PICK n \in 1..Len(k) : k[n] = C[j]
    BY <1>3
  <2> QED  BY <1>2, <2>1, ToSetOfSeq
<1> QED  BY <1>1, <1>2, <1>4, <1>5

LEMMA BeginInv ==
    ASSUME IterInv, NEW s \in Slices, Begin(s)
    PROVE  IterInv'
<1>1. GraphInv /\ BeforeInv
  BY DEF IterInv, Begin
<1>2. PICK C : C = Content(s)
  OBVIOUS
<1>3. PICK A : A = Alloc(s)
  OBVIOUS
<1>4. /\ GraphInv' /\ pc' = "idle" /\ over' = s
      /\ List' = C /\ Alloc(over)' = A /\ size' = Len(C) /\ next' = 1
      /\ C \in Seq(A) /\ Nil \notin A
      /\ shared' /\ room' \in Nat /\ Len(C) <= room' /\ state' = "looping"
      /\ seen' = << >> /\ did' = {} /\ behind' = 0 /\ emptied' = FALSE /\ stale' = FALSE
      /\ start' = KeepAt(C, WantedTo(size)')
      /\ \A j \in 1..size' : Slot(j)' = C[j] /\ C[j] \in A
  BY <1>1, <1>2, <1>3, BeginStarts
<1>5. shared' \in BOOLEAN
  BY <1>1 DEF Begin, BeforeInv
<1>6. PICK I : I = WantedTo(size)'
  OBVIOUS
<1>7. I = {j \in 1..Len(C) : Wants(over, C[j])'}
  BY <1>4, <1>6 DEF WantedTo
<1>8. /\ start' \in Seq(A)
      /\ \A x \in ToSet(start') : \E j \in I : C[j] = x
  BY <1>4, <1>6, <1>7, WantedKept
<1>9. Len(C) \in Nat
  BY <1>4
<1>10. LoopTyped'
  <2>1. seen' \in Seq(A \cup {Nil})
    BY <1>4
  <2>2. next' \in 1..size' + 1
    BY <1>4, <1>9
  <2>3. over' \in Slices /\ did' \subseteq Kinds /\ behind' \in Nat
    BY <1>4
  <2> QED  BY <1>4, <1>5, <1>8, <1>9, <2>1, <2>2, <2>3 DEF LoopTyped
<1>11. SlotsHold' /\ SlotsDiffer'
  BY <1>4, <1>10, SharedSlotsNext
<1>12. Fits' /\ NotGrown' /\ EndsAtEnd' /\ LeftHow' /\ StaleHow' /\ PanicHow'
  BY <1>4, <1>9 DEF Fits, NotGrown, EndsAtEnd, LeftHow, StaleHow, PanicHow
<1>13. ToSet(seen') = {} /\ Len(seen') = 0
  BY <1>4 DEF ToSet
<1>14. SeenOnce'
  <2>1. \A j \in 1..Len(seen') : FALSE
    BY <1>13
  <2> QED  BY <1>13, <2>1 DEF SeenOnce
<1>15. \A j \in 1..size' : Slot(j)' # Nil /\ C[j] # Nil /\ Slot(j)' \in ToSet(C)
  <2>1. \A j \in 1..size' : C[j] \in ToSet(C) /\ C[j] \in A
    BY <1>4, ToSetOfSeq
  <2>2. \A j \in 1..size' : Slot(j)' = C[j]
    BY <1>4
  <2> QED  BY <1>4, <2>1, <2>2
<1>16. Undisturbed'
  <2>1. WantedTo(next - 1)' = {}
    <3>1. next' - 1 = 0
      BY <1>4
    <3>2. WantedTo(next - 1)' = {j \in 1..0 : Wants(over, C[j])'}
      BY <1>4, <3>1 DEF WantedTo
    <3> QED  BY <3>2
  <2>2. KeepAt(C, {}) = << >>
    <3>1. Cardinality({}) = 0
      BY FS_EmptySet
    <3>2. KeepAt(C, {}) \in Seq(A) /\ Len(KeepAt(C, {})) = 0
      BY <1>4, <3>1, KeepAtPlaces
    <3> QED  BY <3>2
  <2> QED  BY <1>4, <1>9, <1>15, <2>1, <2>2 DEF Undisturbed
<1>17. NilsDeleted'
  <2>1. List' = C
    BY <1>4
  <2> QED  BY <1>13, <1>15, <2>1 DEF NilsDeleted
<1>18. StartIsWanted'
  <2>1. ASSUME NEW x \in ToSet(start') PROVE Wants(over, x)'
    <3>1. PICK j \in I : C[j] = x
      BY <1>8
    <3>2. Wants(over, x)' <=> Wants(over, C[j])'
      BY <3>1 DEF Wants
    <3> QED  BY <1>7, <3>2
  <2> QED  BY <2>1 DEF StartIsWanted
<1>19. PassedAreCounted'
  <2>1. ASSUME NEW x \in ToSet(start') PROVE \E j \in 1..size' : Slot(j)' = x
    <3>1. PICK j \in I : C[j] = x
      BY <1>8
    <3>2. j \in 1..size'
      BY <1>4, <1>7
    <3> QED  BY <1>4, <3>1, <3>2
  <2>2. Passed' = {}
    BY <1>4, <2>1 DEF Passed
  <2>3. Cardinality(Passed') = 0
    BY <2>2, FS_EmptySet
  <2> QED  BY <1>4, <2>3 DEF PassedAreCounted
<1>20. FindWhole' /\ FindEmptied'
  BY <1>4, <1>15 DEF FindWhole, FindEmptied
<1> QED
  BY <1>4, <1>10, <1>11, <1>12, <1>14, <1>16, <1>17, <1>18, <1>19, <1>20
     DEF IterInv, LoopInv

LEMMA InitInv == IterInit => IterInv
<1> SUFFICES ASSUME IterInit PROVE IterInv
  OBVIOUS
<1>1. PICK es \in StartEdges : StartGraph(es)
  BY DEF IterInit
<1>2. pc = "idle" /\ ret \in Answer
  BY <1>1 DEF StartGraph, Answer
<1>3. GraphInv
  BY <1>1, <1>2, StartGraphInv
<1>4. BeforeInv /\ state = "before"
  BY <1>2 DEF IterInit, BeforeInv
<1> QED  BY <1>3, <1>4 DEF IterInv

-----------------------------------------------------------------------------
(* The theorems.                                                             *)

(* Whatever the body of a loop calls, the graph stays as it must be, and the  *)
(* loop's array, index and yields stay as LoopInv says.                       *)
THEOREM LoopsKeepInvariant == IterSpec => []IterInv
<1>1. IterInv /\ [IterNext]_allVars => IterInv'
  <2> SUFFICES ASSUME IterInv, [IterNext]_allVars PROVE IterInv'
    OBVIOUS
  <2>1. CASE \E s \in Slices : Begin(s)
    BY <2>1, BeginInv
  <2>2. CASE Yield
    BY <2>2, YieldInv
  <2>3. CASE Finish
    BY <2>3, FinishInv
  <2>4. CASE Body
    BY <2>4, BodyInv
  <2>5. CASE UNCHANGED allVars
    BY <2>5, StutterInv
  <2> QED  BY <2>1, <2>2, <2>3, <2>4, <2>5 DEF IterNext
<1> QED  BY <1>1, InitInv, PTL DEF IterSpec

(* A loop whose body only adds to the graph yields what there was when it     *)
(* began, in order, and comes to its end.                                    *)
THEOREM LoopsDoNotSeeAdds == IterSpec => []AddsAreUnseen
<1>1. IterInv => AddsAreUnseen
  <2> SUFFICES ASSUME IterInv, did \subseteq {"add"}
               PROVE  /\ IsPrefix(seen, start)
                      /\ Ended => state = "done" /\ seen = start
    BY DEF AddsAreUnseen
  <2>1. CASE state = "before"
    BY <2>1 DEF IterInv, BeforeInv, IsPrefix, Ended
  <2>2. CASE state # "before"
    <3>1. GraphInv /\ LoopInv
      BY <2>2 DEF IterInv
    <3>2. /\ size <= Len(List) /\ \A j \in 1..size : Slot(j) = List[j] /\ List[j] # Nil
          /\ start = KeepAt(List, WantedTo(size)) /\ seen = KeepAt(List, WantedTo(next - 1))
      BY <3>1 DEF LoopInv, Undisturbed
    <3>3. PICK C : C = List
      OBVIOUS
    <3>4. PICK A : A = Alloc(over) \cup {Nil}
      OBVIOUS
    <3>5. C \in Seq(A) /\ size \in Nat /\ next \in 1..size + 1
      BY <3>1, <3>3, <3>4, ListHolds DEF LoopInv, LoopTyped
    <3>6. PICK I : I = WantedTo(next - 1)
      OBVIOUS
    <3>7. PICK J : J = WantedTo(size)
      OBVIOUS
    <3>8. /\ I = {j \in 1..next - 1 : Wants(over, C[j])}
          /\ J = {j \in 1..size : Wants(over, C[j])}
      BY <3>3, <3>6, <3>7 DEF WantedTo
    <3>9. I \in SUBSET (1..Len(C)) /\ J \in SUBSET (1..Len(C)) /\ I \subseteq J
      BY <3>2, <3>3, <3>5, <3>8
    <3>10. \A g \in I, j \in J : j <= g => j \in I
      BY <3>5, <3>8
    <3>11. /\ Len(seen) <= Len(start)
           /\ \A k \in 1..Len(seen) : seen[k] = start[k]
      <4>1. /\ Len(KeepAt(C, I)) <= Len(KeepAt(C, J))
            /\ \A k \in 1..Len(KeepAt(C, I)) : KeepAt(C, I)[k] = KeepAt(C, J)[k]
        BY <3>5, <3>9, <3>10, KeepAtPrefix
      <4> QED  BY <3>2, <3>3, <3>6, <3>7, <4>1
    <3>12. seen \in Seq(A) /\ start \in Seq(A)
      BY <3>2, <3>3, <3>5, <3>6, <3>7, <3>9, KeepAtPlaces
    <3>13. IsPrefix(seen, start)
      <4>1. PICK m \in Nat : m = Len(seen) /\ m <= Len(start) /\ m <= Len(seen)
        BY <3>11, <3>12
      <4>2. \A k \in 1..m : seen[k] = start[k]
        BY <3>11, <4>1
      <4>3. SubSeq(seen, 1, m) = SubSeq(start, 1, m)
        BY <3>12, <4>1, <4>2
      <4> QED  BY <3>11, <4>1, <4>3 DEF IsPrefix
    <3>14. state # "panicked"
      BY <3>1 DEF LoopInv, PanicHow
    <3>15. ASSUME state = "done" PROVE I = J
      <4>1. ASSUME NEW j \in J PROVE ~(j >= next)
        <5>1. j \in 1..size /\ Wants(over, Slot(j))
          BY <3>2, <3>3, <3>8
        <5>2. j \notin Stops
          BY <3>1, <3>15 DEF LoopInv, EndsAtEnd
        <5> QED  BY <3>5, <5>1, <5>2 DEF Stops
      <4>2. \A j \in J : j \in I
        BY <3>5, <3>8, <4>1
      <4> QED  BY <3>9, <4>2
    <3> QED  BY <3>2, <3>6, <3>7, <3>13, <3>14, <3>15 DEF Ended
  <2> QED  BY <2>1, <2>2
<1> QED  BY <1>1, LoopsKeepInvariant, PTL

(* However much a loop's body adds and deletes, the loop comes to nothing     *)
(* twice.                                                                    *)
THEOREM LoopsDoNotRepeat == IterSpec => []NoRepeats
<1>1. IterInv => NoRepeats
  <2> SUFFICES ASSUME IterInv, "sort" \notin did
               PROVE  \A j, k \in 1..Len(seen) : seen[j] = seen[k] => j = k \/ seen[j] = Nil
    BY DEF NoRepeats
  <2>1. CASE state = "before"
    <3>1. Len(seen) = 0
      BY <2>1 DEF IterInv, BeforeInv
    <3> QED  BY <3>1
  <2>2. CASE state # "before"
    BY <2>2 DEF IterInv, LoopInv, SeenOnce
  <2> QED  BY <2>1, <2>2
<1> QED  BY <1>1, LoopsKeepInvariant, PTL

(* A loop passes over no more of what stays than its body has deleted behind  *)
(* its index.                                                                *)
THEOREM LoopsMissFew == IterSpec => []MissedAreCounted
<1>1. IterInv => MissedAreCounted
  <2> SUFFICES ASSUME IterInv, state = "done", "sort" \notin did
               PROVE  Cardinality(Missed) <= behind
    BY DEF MissedAreCounted
  <2>1. LoopInv
    BY DEF IterInv
  <2>2. ASSUME NEW x \in Missed PROVE x \in Passed
    <3>1. x \in (ToSet(start) \cap ToSet(List)) \ ToSet(seen)
      BY DEF Missed, List
    <3>2. Wants(over, x)
      BY <2>1, <3>1 DEF LoopInv, StartIsWanted
    <3>3. \A j \in next..size : Slot(j) # x
      BY <2>1, <3>2 DEF LoopInv, EndsAtEnd, Stops
    <3> QED  BY <3>1, <3>3 DEF Passed
  <2>3. IsFiniteSet(Passed) /\ Cardinality(Passed) \in Nat
    BY <2>1, PassedFinite DEF LoopInv
  <2>4. Missed \in SUBSET Passed
    BY <2>2
  <2>5. Cardinality(Missed) <= Cardinality(Passed) /\ Cardinality(Missed) \in Nat
    <3>1. PICK P : P = Passed
      OBVIOUS
    <3>2. PICK M : M = Missed
      OBVIOUS
    <3>3. Cardinality(M) <= Cardinality(P) /\ Cardinality(M) \in Nat
      BY <2>3, <2>4, <3>1, <3>2, FS_Subset, FS_CardinalityType
    <3> QED  BY <3>1, <3>2, <3>3
  <2>6. Cardinality(Passed) <= behind /\ behind \in Nat
    BY <2>1 DEF LoopInv, PassedAreCounted, LoopTyped
  <2> QED  BY <2>3, <2>5, <2>6
<1> QED  BY <1>1, LoopsKeepInvariant, PTL

(* What a loop yields although it is not in the slice, its body has deleted.   *)
THEOREM LoopsYieldKnown == IterSpec => []YieldsExplained
<1>1. IterInv => YieldsExplained
  <2> SUFFICES ASSUME IterInv PROVE YieldsExplained
    OBVIOUS
  <2>1. CASE state = "before"
    <3>1. stale = FALSE /\ ToSet(seen) = {}
      BY <2>1 DEF IterInv, BeforeInv, ToSet
    <3> QED  BY <3>1 DEF YieldsExplained
  <2>2. CASE state # "before"
    BY <2>2 DEF IterInv, LoopInv, NilsDeleted, StaleHow, YieldsExplained
  <2> QED  BY <2>1, <2>2
<1> QED  BY <1>1, LoopsKeepInvariant, PTL

(* A loop over FindEdges panics if its body has deleted an edge at its node,  *)
(* unless the loop was at its end or an added edge has taken the place, and   *)
(* for no other reason.                                                      *)
THEOREM FindLoopsPanic == IterSpec => []FindEdgesPanics
<1>1. IterInv => FindEdgesPanics
  BY DEF IterInv, LoopInv, FindWhole, FindEmptied, FindEdgesPanics
<1> QED  BY <1>1, LoopsKeepInvariant, PTL
=============================================================================
