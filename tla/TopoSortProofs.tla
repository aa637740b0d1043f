--------------------------- MODULE TopoSortProofs ---------------------------
(***************************************************************************)
(* Proofs about TopoSort, for every finite set of vertices and every graph  *)
(* over them.  Inv is inductive; from it follow the safety properties that  *)
(* the runs check: an error is never reported without its reason, and a     *)
(* sort that succeeds has computed the ranks that module Ranks defines and  *)
(* put the nodes in their order, once and for all.                          *)
(***************************************************************************)
EXTENDS TopoSort, OperatorProofs

-----------------------------------------------------------------------------
(* The inductive invariant.                                                  *)

N == Cardinality(Vertex)
Reached(d) == Level(Apex, targets, d)

(* What seenApex and err say of the loop over nodes.                         *)
LoopInv ==
    /\ err = "walking" => nodes # << >>
    /\ seenApex => Apex # {}
    /\ ~seenApex => \A j \in 1..k - 1 : nodes[j] \notin Apex
    /\ err \in {"nil", "noApex"} => stack = << >> /\ k = Len(nodes) + 1
    /\ err = "noApex" => ~seenApex /\ nodes # << >>
    /\ err = "nil" /\ nodes # << >> => seenApex

(* An apex leads into a cycle when walkDf has found a node on its own path.  *)
Endless(S) == S # {} /\ \A n \in S : targets[n] \cap S # {}
SeenInv ==
    err = "seen" =>
        /\ nodes # << >>
        /\ \E S \in SUBSET Vertex : Endless(S) /\ \E j \in Nat : Reached(j) \cap S # {}

(* A rank is the length of a path from an apex, and shorter than the graph.  *)
RankInv ==
    \A n \in Vertex : /\ ranks[n] < N
                      /\ ranks[n] > 0 => n \in Reached(ranks[n])

(* The nodes that walkDf has been called for.                                *)
Visited == {n \in Vertex : \/ ranks[n] > 0
                           \/ n \in Apex /\ \E j \in 1..k - 1 : nodes[j] = n}

(* Of a visited node n either all edges have been followed since n got its   *)
(* rank, or the call that gave it the rank is active and has followed those  *)
(* before next.                                                              *)
Settled(n)  == \A e \in 1..Len(out[n]) : ranks[out[n][e]] >= ranks[n] + 1
Underway(n) == \E d \in 1..Len(stack) :
                   /\ stack[d].node = n /\ ranks[n] = d - 1
                   /\ \A e \in 1..Len(out[n]) :
                          e < stack[d].next => ranks[out[n][e]] >= d
SettledInv == err # "seen" => \A n \in Visited : Underway(n) \/ Settled(n)

(* The order of the nodes after the first sort.                              *)
SortedInv ==
    /\ err = "nil" => NonDecreasing(nodes, ranks)
    /\ sorts > 1 => NonDecreasing(nodes, Rank(Vertex, Apex, targets))

Inv == WalkInv /\ LoopInv /\ SeenInv /\ RankInv /\ SettledInv /\ SortedInv

-----------------------------------------------------------------------------
(* The steps, without the operators on sequences.                            *)

LEMMA MaxOfTwo ==
    \A a, b \in Int : Max({a, b}) \in {a, b} /\ Max({a, b}) >= a /\ Max({a, b}) >= b
<1> TAKE a, b \in Int
<1>1. CASE a >= b
  <2>1. \A y \in {a, b} : a >= y
    BY <1>1
  <2> QED  BY <2>1 DEF Max
<1>2. CASE b >= a
  <2>1. \A y \in {a, b} : b >= y
    BY <1>2
  <2> QED  BY <2>1 DEF Max
<1> QED  BY <1>1, <1>2

(* A step that keeps the edges and the set of nodes keeps apexes and edges.  *)
LEMMA SameGraph ==
    ASSUME out' = out, ToSet(nodes') = ToSet(nodes)
    PROVE  Apex' = Apex /\ targets' = targets
BY DEF Apex, targets

LEMMA GraphFacts ==
    ASSUME TypeOK
    PROVE  /\ Apex \subseteq Vertex /\ Apex \subseteq ToSet(nodes)
           /\ \A i \in 1..Len(nodes) : nodes[i] \in Vertex
           /\ \A x \in ToSet(nodes) : \E i \in 1..Len(nodes) : nodes[i] = x
           /\ \A n \in Vertex : /\ Len(out[n]) \in Nat
                                /\ \A e \in 1..Len(out[n]) : out[n][e] \in targets[n]
                                /\ \A m \in targets[n] : \E e \in 1..Len(out[n]) : out[n][e] = m
                                /\ targets[n] \subseteq Vertex \ Apex
<1>1. /\ nodes \in Seq(Vertex) /\ \A n \in Vertex : out[n] \in Seq(Vertex)
      /\ targets = [n \in Vertex |-> ToSet(out[n])]
  BY DEF TypeOK, targets
<1>2. /\ \A i \in 1..Len(nodes) : nodes[i] \in Vertex
      /\ \A x \in ToSet(nodes) : \E i \in 1..Len(nodes) : nodes[i] = x
      /\ ToSet(nodes) \subseteq Vertex
  BY <1>1, ToSetOfSeq
<1>3. ASSUME NEW n \in Vertex
      PROVE  /\ Len(out[n]) \in Nat
             /\ \A e \in 1..Len(out[n]) : out[n][e] \in targets[n]
             /\ \A m \in targets[n] : \E e \in 1..Len(out[n]) : out[n][e] = m
             /\ targets[n] \subseteq Vertex \ Apex
  <2>1. out[n] \in Seq(Vertex) /\ targets[n] = ToSet(out[n])
    BY <1>1
  <2>2. /\ \A e \in 1..Len(out[n]) : out[n][e] \in ToSet(out[n])
        /\ \A m \in ToSet(out[n]) : \E e \in 1..Len(out[n]) : out[n][e] = m
        /\ ToSet(out[n]) \subseteq Vertex
    BY <2>1, ToSetOfSeq
  <2>3. ToSet(out[n]) \cap Apex = {}
    BY DEF Apex
  <2> QED  BY <2>1, <2>2, <2>3
<1>4. Apex \subseteq ToSet(nodes)
  BY DEF Apex
<1> QED  BY <1>2, <1>3, <1>4

(* Walk: a call for an apex, whose rank it does not change.                  *)
LEMMA WalkEffect ==
    ASSUME WalkInv, Walk
    PROVE  /\ k \in 1..Len(nodes) /\ nodes[k] \in Apex /\ nodes[k] \in Vertex
           /\ k' = k + 1 /\ seenApex' = TRUE /\ path' = {nodes[k]}
           /\ ranks' = ranks /\ err' = err /\ err = "walking" /\ stack = << >>
           /\ stack' \in Seq(Frame) /\ Len(stack') = 1
           /\ stack'[1] = [node |-> nodes[k], rank |-> 0, next |-> 1]
<1>1. k \in 1..Len(nodes) /\ nodes[k] \in Apex /\ nodes[k] \in Vertex
  BY GraphFacts DEF Walk, WalkInv, TypeOK
<1> DEFINE n == nodes[k]
<1>2. ranks \in [Vertex -> Nat]
  BY DEF WalkInv, TypeOK
<1>3. Max({ranks[n], 0}) = ranks[n]
  <2>1. ranks[n] \in Int /\ 0 \in Int /\ ranks[n] >= 0
    BY <1>1, <1>2
  <2>2. Max({ranks[n], 0}) \in {ranks[n], 0} /\ Max({ranks[n], 0}) >= ranks[n]
    BY <2>1, MaxOfTwo, Zenon
  <2> QED  BY <2>1, <2>2
<1>4. /\ path' = {n} /\ err' = err
      /\ ranks' = [ranks EXCEPT ![n] = Max({ranks[n], 0})]
      /\ stack' = Append(<< >>, [node |-> n, rank |-> 0, next |-> 1])
  BY DEF Walk, Call
<1>5. ranks' = ranks
  BY <1>1, <1>2, <1>3, <1>4
<1>6. [node |-> n, rank |-> 0, next |-> 1] \in Frame
  BY <1>1 DEF Frame
<1>7. stack' \in Seq(Frame) /\ Len(stack') = 1 /\ stack'[1] = [node |-> n, rank |-> 0, next |-> 1]
  BY <1>4, <1>6
<1> QED  BY <1>1, <1>4, <1>5, <1>7 DEF Walk

(* The call that Descend goes on from, and the node it comes to.             *)
LEMMA TopFacts ==
    ASSUME TypeOK, stack # << >>
    PROVE  /\ Len(stack) \in Nat \ {0} /\ stack[Len(stack)] \in Frame
           /\ Top = stack[Len(stack)] /\ Top.node \in Vertex
           /\ Top.rank \in Nat /\ Top.next \in Nat \ {0}
<1>1. stack \in Seq(Frame) /\ stack # << >>
  BY DEF TypeOK
<1>2. Len(stack) \in Nat \ {0} /\ stack[Len(stack)] \in Frame
  BY <1>1
<1> QED  BY <1>2 DEF Top, Frame

(* Descend: the loop of the innermost call moves on by an edge, and walkDf   *)
(* either finds the edge's end m on the path or enters it.                   *)
LEMMA DescendEffect ==
    ASSUME WalkInv, Descend,
           NEW m, m = out[Top.node][Top.next]
    PROVE  /\ err = "walking" /\ Len(stack) \in Nat \ {0} /\ m \in Vertex
           /\ Top.node \in Vertex /\ Top.next \in 1..Len(out[Top.node])
           /\ stack' \in Seq(Frame)
           /\ \A d \in 1..Len(stack) :
                 /\ d \in 1..Len(stack')
                 /\ stack'[d].node = stack[d].node /\ stack'[d].rank = stack[d].rank
                 /\ stack'[d].next = IF d = Len(stack) THEN Top.next + 1 ELSE stack[d].next
           /\ \/ /\ m \in path /\ err' = "seen" /\ path' = path /\ ranks' = ranks
                 /\ Len(stack') = Len(stack)
              \/ /\ m \notin path /\ err' = err /\ path' = path \cup {m}
                 /\ ranks' \in [Vertex -> Nat]
                 /\ \A n \in Vertex : n # m => ranks'[n] = ranks[n]
                 /\ ranks'[m] \in {ranks[m], Len(stack)}
                 /\ ranks'[m] >= ranks[m] /\ ranks'[m] >= Len(stack)
                 /\ Len(stack') = Len(stack) + 1
                 /\ stack'[Len(stack) + 1] = [node |-> m, rank |-> Len(stack), next |-> 1]
<1> DEFINE L == Len(stack)
           callers == [stack EXCEPT ![L].next = @ + 1]
           frame == [node |-> m, rank |-> L, next |-> 1]
<1>1. /\ stack \in Seq(Frame) /\ ranks \in [Vertex -> Nat]
      /\ stack # << >> /\ err = "walking"
  BY DEF WalkInv, TypeOK, Descend
<1>2. L \in Nat \ {0} /\ Top = stack[L] /\ Top \in Frame /\ Top.node \in Vertex /\ Top.next \in Nat \ {0}
  BY <1>1, TopFacts DEF WalkInv
<1>3. Top.next \in 1..Len(out[Top.node]) /\ m \in Vertex
  <2>1. /\ Len(out[Top.node]) \in Nat
        /\ \A e \in 1..Len(out[Top.node]) : out[Top.node][e] \in Vertex
    BY <1>2, GraphFacts DEF WalkInv
  <2>2. Top.next <= Len(out[Top.node])
    BY DEF Descend
  <2>3. Top.next \in 1..Len(out[Top.node])
    BY <1>2, <2>1, <2>2
  <2> QED  BY <2>1, <2>3
<1>4. Top.rank + 1 = L
  <2>1. stack[L].rank = L - 1
    BY <1>2 DEF WalkInv, StackIsWalk
  <2> QED  BY <1>2, <2>1
<1>5. /\ callers \in Seq(Frame) /\ Len(callers) = L
      /\ \A d \in 1..L :
            /\ callers[d].node = stack[d].node /\ callers[d].rank = stack[d].rank
            /\ callers[d].next = IF d = L THEN Top.next + 1 ELSE stack[d].next
  <2>1. stack \in [1..L -> Frame]
    BY <1>1
  <2>2. callers = [d \in 1..L |-> IF d = L THEN [Top EXCEPT !.next = @ + 1] ELSE stack[d]]
    BY <1>2, <2>1
  <2>3. \A d \in 1..L : stack[d] \in Frame
    BY <2>1
  <2>4. [Top EXCEPT !.next = @ + 1] = [node |-> Top.node, rank |-> Top.rank, next |-> Top.next + 1]
    BY <1>2 DEF Frame
  <2>5. [Top EXCEPT !.next = @ + 1] \in Frame
    BY <1>2, <2>4 DEF Frame
  <2> HIDE DEF callers
  <2>6. callers \in [1..L -> Frame]
    BY <2>2, <2>3, <2>5
  <2>7. callers \in Seq(Frame) /\ Len(callers) = L
    BY <1>2, <2>6
  <2> QED  BY <1>2, <2>2, <2>4, <2>7
<1> HIDE DEF callers
<1>6. Call(m, L, callers, path)
  BY <1>1, <1>4 DEF Descend, callers
<1>7. CASE m \in path
  <2>1. err' = "seen" /\ path' = path /\ stack' = callers /\ ranks' = ranks
    BY <1>6, <1>7 DEF Call
  <2> QED  BY <1>1, <1>2, <1>3, <1>5, <1>7, <2>1
<1>8. CASE m \notin path
  <2>1. /\ path' = path \cup {m} /\ err' = err
        /\ ranks' = [ranks EXCEPT ![m] = Max({ranks[m], L})]
        /\ stack' = Append(callers, frame)
    BY <1>6, <1>8 DEF Call
  <2>2. ranks[m] \in Nat
    BY <1>1, <1>3
  <2>3. /\ Max({ranks[m], L}) \in {ranks[m], L}
        /\ Max({ranks[m], L}) >= ranks[m] /\ Max({ranks[m], L}) >= L
    <3>1. ranks[m] \in Int /\ L \in Int
      BY <1>2, <2>2
    <3> QED  BY <3>1, MaxOfTwo, Zenon
  <2>4. /\ ranks' \in [Vertex -> Nat] /\ ranks'[m] = Max({ranks[m], L})
        /\ \A n \in Vertex : n # m => ranks'[n] = ranks[n]
    BY <1>1, <1>2, <1>3, <2>1, <2>2, <2>3
  <2>5. frame \in Frame
    BY <1>2, <1>3 DEF Frame
  <2> HIDE DEF frame
  <2>6. /\ stack' \in Seq(Frame) /\ Len(stack') = L + 1
        /\ \A d \in 1..L : stack'[d] = callers[d]
        /\ stack'[L + 1] = frame
    BY <1>5, <2>1, <2>5, AppendFacts
  <2>7. \A d \in 1..L : d \in 1..Len(stack')
    BY <1>2, <2>6
  <2>8. \A d \in 1..L :
            /\ stack'[d].node = stack[d].node /\ stack'[d].rank = stack[d].rank
            /\ stack'[d].next = IF d = L THEN Top.next + 1 ELSE stack[d].next
    BY <1>5, <2>6
  <2> QED  BY <1>1, <1>2, <1>3, <1>8, <2>1, <2>3, <2>4, <2>6, <2>7, <2>8 DEF frame
<1> QED  BY <1>7, <1>8

(* Return: the innermost call ends.                                          *)
LEMMA ReturnEffect ==
    ASSUME WalkInv, Return
    PROVE  /\ err = "walking" /\ Len(stack) \in Nat \ {0} /\ Top.node \in Vertex
           /\ Top.next > Len(out[Top.node]) /\ path' = path \ {Top.node}
           /\ stack' \in Seq(Frame) /\ Len(stack') = Len(stack) - 1
           /\ \A d \in 1..Len(stack) - 1 : stack'[d] = stack[d]
<1>1. stack \in Seq(Frame) /\ stack # << >> /\ stack' = Front(stack)
  BY DEF WalkInv, TypeOK, Return
<1>2. /\ stack' \in Seq(Frame) /\ Len(stack') = Len(stack) - 1
      /\ \A d \in 1..Len(stack) - 1 : stack'[d] = stack[d]
  <2>1. Len(stack) \in Nat \ {0}
    BY <1>1
  <2> QED  BY <1>1, <2>1, FrontFacts
<1> QED  BY <1>1, <1>2, TopFacts DEF WalkInv, Return

(* Finish: the nodes are permuted, if there was an apex.                     *)
LEMMA FinishEffect ==
    ASSUME WalkInv, Finish
    PROVE  /\ nodes' \in Seq(Vertex) /\ IsInjective(nodes')
           /\ Len(nodes') = Len(nodes) /\ ToSet(nodes') = ToSet(nodes)
           /\ Apex' = Apex /\ targets' = targets
           /\ stack = << >> /\ k = Len(nodes) + 1 /\ err = "walking"
<1>1. /\ nodes \in Seq(Vertex) /\ IsInjective(nodes) /\ ranks \in [Vertex -> Nat]
      /\ k \in 1..Len(nodes) + 1
  BY DEF WalkInv, TypeOK
<1>2. ranks \in [Vertex -> Int]
  BY <1>1
<1>3. /\ nodes' \in Seq(Vertex) /\ IsInjective(nodes')
      /\ Len(nodes') = Len(nodes) /\ ToSet(nodes') = ToSet(nodes)
  <2>1. CASE nodes' = nodes
    BY <1>1, <2>1
  <2>2. CASE nodes' = StableSort(nodes, ranks)
    BY <1>1, <1>2, <2>2, StableSortProperties
  <2> QED  BY <2>1, <2>2 DEF Finish
<1>4. k = Len(nodes) + 1
  <2>1. Len(nodes) \in Nat
    BY <1>1
  <2> QED  BY <1>1, <2>1 DEF Finish
<1> QED  BY <1>3, <1>4, SameGraph DEF Finish

-----------------------------------------------------------------------------
(* WalkInv is inductive by itself.                                           *)

LEMMA InitWalkInv == Init => WalkInv
<1> SUFFICES ASSUME Init PROVE WalkInv
  OBVIOUS
<1>1. nodes \in Seq(Vertex) /\ IsInjective(nodes) /\ out \in [Vertex -> Seq(Vertex)]
  BY TopoAssumption DEF Init
<1>2. k \in 1..Len(nodes) + 1
  <2>1. Len(nodes) \in Nat
    BY <1>1
  <2> QED  BY <2>1 DEF Init
<1>3. stack = << >> /\ path = {} /\ Len(stack) = 0 /\ stack \in Seq(Frame)
  BY DEF Init
<1>4. TypeOK
  BY <1>1, <1>2, <1>3 DEF Init, TypeOK
<1>5. 1..Len(stack) = {}
  BY <1>3
<1>6. PathIsStack /\ StackIsWalk
  BY <1>3, <1>5 DEF PathIsStack, StackIsWalk
<1> QED  BY <1>4, <1>6 DEF WalkInv

(* With no active calls there is only TypeOK to show.                         *)
LEMMA EmptyStackWalkInv ==
    ASSUME stack = << >>, path = {}, TypeOK
    PROVE  WalkInv
<1>1. 1..Len(stack) = {}
  OBVIOUS
<1> QED  BY <1>1 DEF WalkInv, PathIsStack, StackIsWalk

LEMMA PathEmpty == WalkInv /\ stack = << >> => path = {}
<1>1. stack = << >> => 1..Len(stack) = {}
  OBVIOUS
<1> QED  BY <1>1 DEF WalkInv, PathIsStack

LEMMA WalkWalkInv ==
    ASSUME WalkInv, Walk
    PROVE  WalkInv'
<1> DEFINE n == nodes[k]
<1>1. /\ k \in 1..Len(nodes) /\ n \in Apex /\ n \in Vertex
      /\ k' = k + 1 /\ seenApex' = TRUE /\ path' = {n}
      /\ ranks' = ranks /\ err' = err
      /\ stack' \in Seq(Frame) /\ Len(stack') = 1
      /\ stack'[1] = [node |-> n, rank |-> 0, next |-> 1]
  BY WalkEffect
<1>2. nodes' = nodes /\ out' = out /\ sorts' = sorts
  BY DEF Walk, graph
<1>3. Apex' = Apex
  BY <1>2, SameGraph
<1>4. TypeOK'
  <2>1. k' \in 1..Len(nodes) + 1
    <3>1. Len(nodes) \in Nat
      BY DEF WalkInv, TypeOK
    <3> QED  BY <1>1, <3>1
  <2> QED  BY <1>1, <1>2, <2>1 DEF WalkInv, TypeOK
<1>5. 1..Len(stack') = {1}
  BY <1>1
<1>6. PathIsStack'
  BY <1>1, <1>5 DEF PathIsStack
<1>7. StackIsWalk'
  <2>1. ranks[n] >= 0
    BY <1>1 DEF WalkInv, TypeOK
  <2> HIDE DEF n
  <2> QED  BY <1>1, <1>3, <1>5, <2>1 DEF StackIsWalk
<1> QED  BY <1>4, <1>6, <1>7 DEF WalkInv

LEMMA DescendWalkInv ==
    ASSUME WalkInv, Descend
    PROVE  WalkInv'
<1> DEFINE m == out[Top.node][Top.next]
           L == Len(stack)
<1>1. /\ err = "walking" /\ L \in Nat \ {0} /\ m \in Vertex
      /\ Top.node \in Vertex /\ Top.next \in 1..Len(out[Top.node])
      /\ stack' \in Seq(Frame)
  BY DescendEffect
<1>2. \A d \in 1..L :
         /\ d \in 1..Len(stack')
         /\ stack'[d].node = stack[d].node /\ stack'[d].rank = stack[d].rank
         /\ stack'[d].next = IF d = L THEN Top.next + 1 ELSE stack[d].next
  BY DescendEffect
<1>3. \/ /\ m \in path /\ err' = "seen" /\ path' = path /\ ranks' = ranks
         /\ Len(stack') = L
      \/ /\ m \notin path /\ err' = err /\ path' = path \cup {m}
         /\ ranks' \in [Vertex -> Nat]
         /\ \A n \in Vertex : n # m => ranks'[n] = ranks[n]
         /\ ranks'[m] \in {ranks[m], L}
         /\ ranks'[m] >= ranks[m] /\ ranks'[m] >= L
         /\ Len(stack') = L + 1
         /\ stack'[L + 1] = [node |-> m, rank |-> L, next |-> 1]
  BY DescendEffect
<1>4. nodes' = nodes /\ out' = out /\ sorts' = sorts /\ k' = k /\ seenApex' = seenApex
  BY DEF Descend, graph
<1>5. Apex' = Apex
  BY <1>4, SameGraph
<1>6. Top = stack[L]
  BY DEF Top
<1>7. /\ ranks \in [Vertex -> Nat] /\ path \subseteq Vertex
      /\ path = {stack[d].node : d \in 1..L}
      /\ \A c, d \in 1..L : stack[c].node = stack[d].node => c = d
      /\ \A d \in 1..L : stack[d].node \in Vertex
  <2>1. stack \in Seq(Frame)
    BY DEF WalkInv, TypeOK
  <2>2. \A d \in 1..L : stack[d].node \in Vertex
    <3>1. \A d \in 1..L : stack[d] \in Frame
      BY <2>1
    <3> QED  BY <3>1 DEF Frame
  <2> QED  BY <2>2 DEF WalkInv, TypeOK, PathIsStack
<1> HIDE DEF m, L
<1>8. TypeOK'
  BY <1>1, <1>3, <1>4, <1>7 DEF WalkInv, TypeOK
<1>9. \A d \in 1..Len(stack') : d \in 1..L \/ (d = L + 1 /\ m \notin path)
  <2>1. Len(stack') = L \/ (Len(stack') = L + 1 /\ m \notin path)
    BY <1>3
  <2> QED  BY <1>1, <2>1
<1>10. PathIsStack'
  <2>1. path' = {stack'[d].node : d \in 1..Len(stack')}
    <3>1. ASSUME NEW x \in path'
          PROVE  \E d \in 1..Len(stack') : x = stack'[d].node
      <4>1. CASE x \in path
        <5>1. PICK d \in 1..L : x = stack[d].node
          BY <4>1, <1>7
        <5> QED  BY <5>1, <1>2
      <4>2. CASE x \notin path
        <5>1. x = m /\ Len(stack') = L + 1 /\ stack'[L + 1].node = m
          BY <3>1, <4>2, <1>3
        <5>2. L + 1 \in 1..Len(stack')
          BY <1>1, <5>1
        <5> QED  BY <5>1, <5>2
      <4> QED  BY <4>1, <4>2
    <3>2. ASSUME NEW d \in 1..Len(stack')
          PROVE  stack'[d].node \in path'
      <4>1. CASE d \in 1..L
        <5>1. stack'[d].node \in path
          BY <4>1, <1>2, <1>7
        <5> QED  BY <5>1, <1>3
      <4>2. CASE d = L + 1 /\ m \notin path
        BY <4>2, <1>3
      <4> QED  BY <4>1, <4>2, <1>9
    <3> QED  BY <3>1, <3>2
  <2>2. ASSUME NEW c \in 1..Len(stack'), NEW d \in 1..Len(stack'),
               stack'[c].node = stack'[d].node
        PROVE  c = d
    <3>1. CASE c \in 1..L /\ d \in 1..L
      BY <2>2, <3>1, <1>2, <1>7
    <3>2. CASE c \in 1..L /\ d = L + 1 /\ m \notin path
      BY <2>2, <3>2, <1>2, <1>3, <1>7
    <3>3. CASE c = L + 1 /\ d \in 1..L /\ m \notin path
      BY <2>2, <3>3, <1>2, <1>3, <1>7
    <3> QED  BY <3>1, <3>2, <3>3, <1>9
  <2> QED  BY <2>1, <2>2 DEF PathIsStack
<1>11. StackIsWalk'
  <2>1. \A d \in 1..L :
           /\ stack[d].rank = d - 1 /\ ranks[stack[d].node] >= d - 1
           /\ IF d = 1 THEN stack[d].node \in Apex
              ELSE LET caller == stack[d - 1] IN
                   /\ caller.next - 1 \in 1..Len(out[caller.node])
                   /\ out[caller.node][caller.next - 1] = stack[d].node
    BY DEF WalkInv, StackIsWalk, L
  <2>2. \A n \in Vertex : ranks'[n] >= ranks[n] /\ ranks'[n] \in Nat /\ ranks[n] \in Nat
    <3> TAKE n \in Vertex
    <3>1. ranks[n] \in Nat
      BY <1>7
    <3>2. ranks' = ranks \/ ranks' \in [Vertex -> Nat]
      BY <1>3
    <3>3. ranks'[n] = ranks[n] \/ (n = m /\ ranks'[m] >= ranks[m])
      BY <1>3
    <3> QED  BY <1>7, <3>1, <3>2, <3>3
  <2>3. ASSUME NEW d \in 1..L
        PROVE  /\ stack'[d].rank = d - 1 /\ ranks'[stack'[d].node] >= d - 1
               /\ d = 1 => stack'[d].node \in Apex
               /\ d # 1 => LET caller == stack'[d - 1] IN
                           /\ caller.next - 1 \in 1..Len(out[caller.node])
                           /\ out[caller.node][caller.next - 1] = stack'[d].node
    <3>1. stack'[d].rank = d - 1
      BY <1>2, <2>1
    <3>2. ranks'[stack'[d].node] >= d - 1
      <4>1. stack'[d].node = stack[d].node /\ stack[d].node \in Vertex
        BY <1>2, <1>7
      <4>2. ranks[stack[d].node] >= d - 1
        BY <2>1
      <4> QED  BY <1>1, <2>2, <4>1, <4>2
    <3>3. d = 1 => stack'[d].node \in Apex
      BY <1>2, <2>1
    <3>4. ASSUME d # 1
          PROVE  LET caller == stack'[d - 1] IN
                 /\ caller.next - 1 \in 1..Len(out[caller.node])
                 /\ out[caller.node][caller.next - 1] = stack'[d].node
      <4>1. d - 1 \in 1..L /\ d - 1 # L
        BY <1>1, <3>4
      <4>2. stack'[d - 1].node = stack[d - 1].node /\ stack'[d - 1].next = stack[d - 1].next
        BY <1>2, <4>1
      <4>3. /\ stack[d - 1].next - 1 \in 1..Len(out[stack[d - 1].node])
            /\ out[stack[d - 1].node][stack[d - 1].next - 1] = stack[d].node
        BY <2>1, <3>4
      <4>4. stack'[d].node = stack[d].node
        BY <1>2
      <4> QED  BY <4>2, <4>3, <4>4
    <3> QED  BY <3>1, <3>2, <3>3, <3>4
  <2>4. ASSUME m \notin path
        PROVE  /\ stack'[L + 1].rank = L /\ ranks'[stack'[L + 1].node] >= L
               /\ LET caller == stack'[L] IN
                  /\ caller.next - 1 \in 1..Len(out[caller.node])
                  /\ out[caller.node][caller.next - 1] = stack'[L + 1].node
    <3>1. stack'[L + 1] = [node |-> m, rank |-> L, next |-> 1] /\ ranks'[m] >= L
      BY <1>3, <2>4
    <3>2. stack'[L].node = Top.node /\ stack'[L].next = Top.next + 1
      <4>1. L \in 1..L
        BY <1>1
      <4> QED  BY <1>2, <1>6, <4>1
    <3>3. stack'[L].next - 1 = Top.next
      BY <1>1, <3>2
    <3> QED  BY <1>1, <3>1, <3>2, <3>3 DEF m
  <2>5. ASSUME NEW d \in 1..Len(stack')
        PROVE  /\ stack'[d].rank = d - 1 /\ ranks'[stack'[d].node] >= d - 1
               /\ IF d = 1 THEN stack'[d].node \in Apex
                  ELSE LET caller == stack'[d - 1] IN
                       /\ caller.next - 1 \in 1..Len(out[caller.node])
                       /\ out[caller.node][caller.next - 1] = stack'[d].node
    <3>1. CASE d \in 1..L
      BY <2>3, <3>1
    <3>2. CASE d = L + 1 /\ m \notin path
      <4>1. d # 1 /\ d - 1 = L
        BY <1>1, <3>2
      <4> QED  BY <2>4, <3>2, <4>1
    <3> QED  BY <3>1, <3>2, <1>9
  <2> QED  BY <1>4, <1>5, <2>5 DEF StackIsWalk
<1> QED  BY <1>8, <1>10, <1>11 DEF WalkInv

LEMMA ReturnWalkInv ==
    ASSUME WalkInv, Return
    PROVE  WalkInv'
<1> DEFINE L == Len(stack)
<1>1. /\ L \in Nat \ {0} /\ path' = path \ {Top.node}
      /\ stack' \in Seq(Frame) /\ Len(stack') = L - 1
      /\ \A d \in 1..L - 1 : stack'[d] = stack[d]
  BY ReturnEffect
<1>2. UNCHANGED <<nodes, out, k, seenApex, ranks, err, sorts>>
  BY DEF Return, graph
<1>3. Apex' = Apex
  BY <1>2, SameGraph
<1>4. Top = stack[L]
  BY DEF Top
<1>5. TypeOK'
  BY <1>1, <1>2 DEF WalkInv, TypeOK
<1>6. /\ path = {stack[d].node : d \in 1..L}
      /\ \A c, d \in 1..L : stack[c].node = stack[d].node => c = d
  BY DEF WalkInv, PathIsStack
<1>7. \A d \in 1..L : /\ stack[d].rank = d - 1 /\ ranks[stack[d].node] >= d - 1
                      /\ IF d = 1 THEN stack[d].node \in Apex
                         ELSE LET caller == stack[d - 1] IN
                              /\ caller.next - 1 \in 1..Len(out[caller.node])
                              /\ out[caller.node][caller.next - 1] = stack[d].node
  BY DEF WalkInv, StackIsWalk
<1> HIDE DEF L
<1>8. \A d \in 1..Len(stack') : d \in 1..L /\ d # L /\ stack'[d] = stack[d]
  BY <1>1
<1>9. \A d \in 1..L : d # L => d \in 1..Len(stack')
  BY <1>1
<1>10. PathIsStack'
  <2>1. path' = {stack'[d].node : d \in 1..Len(stack')}
    <3>1. ASSUME NEW x \in path'
          PROVE  \E d \in 1..Len(stack') : x = stack'[d].node
      <4>1. PICK d \in 1..L : x = stack[d].node
        BY <3>1, <1>1, <1>6
      <4>2. d # L
        BY <3>1, <4>1, <1>1, <1>4
      <4>3. d \in 1..Len(stack') /\ stack'[d] = stack[d]
        BY <4>2, <1>8, <1>9
      <4> QED  BY <4>1, <4>3
    <3>2. ASSUME NEW d \in 1..Len(stack')
          PROVE  stack'[d].node \in path'
      <4>1. d \in 1..L /\ L \in 1..L /\ d # L /\ stack'[d] = stack[d]
        BY <1>1, <1>8
      <4>2. stack[d].node # Top.node
        BY <4>1, <1>4, <1>6
      <4> QED  BY <4>1, <4>2, <1>1, <1>6
    <3> QED  BY <3>1, <3>2
  <2>2. \A c, d \in 1..Len(stack') : stack'[c].node = stack'[d].node => c = d
    BY <1>6, <1>8
  <2> QED  BY <2>1, <2>2 DEF PathIsStack
<1>11. StackIsWalk'
  <2>1. ASSUME NEW d \in 1..Len(stack')
        PROVE  /\ stack'[d].rank = d - 1 /\ ranks[stack'[d].node] >= d - 1
               /\ IF d = 1 THEN stack'[d].node \in Apex
                  ELSE LET caller == stack'[d - 1] IN
                       /\ caller.next - 1 \in 1..Len(out[caller.node])
                       /\ out[caller.node][caller.next - 1] = stack'[d].node
    <3>1. d \in 1..L /\ stack'[d] = stack[d]
      BY <1>8
    <3>2. ASSUME d # 1
          PROVE  stack'[d - 1] = stack[d - 1]
      <4>1. d - 1 \in 1..Len(stack')
        BY <1>1, <3>2
      <4> QED  BY <4>1, <1>8
    <3> QED  BY <1>7, <3>1, <3>2
  <2> QED  BY <1>2, <1>3, <2>1 DEF StackIsWalk
<1> QED  BY <1>5, <1>10, <1>11 DEF WalkInv

LEMMA NextWalkInv == WalkInv /\ [Next]_vars => WalkInv'
<1> SUFFICES ASSUME WalkInv, [Next]_vars
             PROVE  WalkInv'
  OBVIOUS
<1>1. CASE Skip
  <2>1. /\ UNCHANGED <<nodes, out, seenApex, stack, path, ranks, err, sorts>>
        /\ k' = k + 1 /\ k <= Len(nodes) /\ stack = << >>
    BY <1>1 DEF Skip, graph
  <2>2. k' \in 1..Len(nodes) + 1
    <3>1. Len(nodes) \in Nat /\ k \in Nat \ {0}
      BY DEF WalkInv, TypeOK
    <3> QED  BY <2>1, <3>1
  <2>3. TypeOK'
    BY <2>1, <2>2 DEF WalkInv, TypeOK
  <2>4. (stack = << >> /\ path = {})'
    BY <2>1, PathEmpty
  <2>5. (stack = << >> /\ path = {} /\ TypeOK => WalkInv)'
    BY EmptyStackWalkInv, PTL
  <2> QED  BY <2>3, <2>4, <2>5
<1>2. CASE Walk
  BY <1>2, WalkWalkInv
<1>3. CASE Descend
  BY <1>3, DescendWalkInv
<1>4. CASE Return
  BY <1>4, ReturnWalkInv
<1>5. CASE Finish
  <2>1. /\ nodes' \in Seq(Vertex) /\ IsInjective(nodes') /\ Len(nodes') = Len(nodes)
        /\ stack = << >>
    BY <1>5, FinishEffect
  <2>2. /\ UNCHANGED <<out, k, seenApex, stack, path, ranks, sorts>>
        /\ err' \in {"nil", "noApex"}
    BY <1>5 DEF Finish
  <2>3. TypeOK'
    BY <2>1, <2>2 DEF WalkInv, TypeOK
  <2>4. (stack = << >> /\ path = {})'
    BY <2>1, <2>2, PathEmpty
  <2>5. (stack = << >> /\ path = {} /\ TypeOK => WalkInv)'
    BY EmptyStackWalkInv, PTL
  <2> QED  BY <2>3, <2>4, <2>5
<1>6. CASE SortAgain
  <2>1. /\ nodes' = nodes /\ out' = out /\ k' = 1 /\ seenApex' = FALSE
        /\ stack' = << >> /\ path' = {} /\ ranks' = [n \in Vertex |-> 0]
        /\ err' = "walking" /\ sorts' = sorts + 1
    BY <1>6 DEF SortAgain, graph
  <2>2. 1 \in 1..Len(nodes) + 1 /\ stack' \in Seq(Frame) /\ sorts + 1 \in Nat
    <3>1. Len(nodes) \in Nat /\ sorts \in Nat
      BY DEF WalkInv, TypeOK
    <3> QED  BY <2>1, <3>1
  <2>3. TypeOK'
    BY <2>1, <2>2 DEF WalkInv, TypeOK
  <2>5. (stack = << >> /\ path = {} /\ TypeOK => WalkInv)'
    BY EmptyStackWalkInv, PTL
  <2> QED  BY <2>1, <2>3, <2>5
<1>7. CASE UNCHANGED vars
  <2>1. UNCHANGED <<nodes, out, k, seenApex, stack, path, ranks, err, sorts>>
    BY <1>7 DEF vars
  <2>2. Apex' = Apex
    BY <2>1, SameGraph
  <2> QED  BY <2>1, <2>2 DEF WalkInv, TypeOK, PathIsStack, StackIsWalk
<1> QED  BY <1>1, <1>2, <1>3, <1>4, <1>5, <1>6, <1>7 DEF Next

(* What walkDf relies on at every call, edge and return: path is the set of   *)
(* the nodes of the active calls, which follow a path of edges from an apex.  *)
THEOREM PathFollowsEdges == Spec => []WalkInv
<1>1. Init => WalkInv
  BY InitWalkInv
<1>2. WalkInv /\ [Next]_vars => WalkInv'
  BY NextWalkInv
<1> QED  BY <1>1, <1>2, PTL DEF Spec

-----------------------------------------------------------------------------
(* The active calls and the levels.                                          *)

LEMMA NIsNat == N \in Nat
BY TopoAssumption, FS_CardinalityType DEF N

LEMMA ReachedStep ==
    /\ Reached(0) = Apex
    /\ \A i \in Nat : Reached(i + 1) = UNION {targets[n] : n \in Reached(i)}
<1> DEFINE A == Apex
           succ == targets
<1> HIDE DEF A, succ
<1>1. /\ Level(A, succ, 0) = A
      /\ \A i \in Nat : Level(A, succ, i + 1) = UNION {succ[n] : n \in Level(A, succ, i)}
  BY LevelStep
<1> QED  BY <1>1, Zenon DEF A, succ, Reached

(* The node of the d-th active call is d-1 edges from an apex.               *)
LEMMA StackOnLevels ==
    ASSUME WalkInv
    PROVE  \A d \in 1..Len(stack) : stack[d].node \in Vertex /\ stack[d].node \in Reached(d - 1)
<1> DEFINE T == {i \in Nat : i + 1 \in 1..Len(stack) => stack[i + 1].node \in Reached(i)}
<1>1. /\ Len(stack) \in Nat
      /\ \A d \in 1..Len(stack) : stack[d] \in Frame
  BY DEF WalkInv, TypeOK
<1>2. \A d \in 1..Len(stack) :
         IF d = 1 THEN stack[d].node \in Apex
         ELSE LET caller == stack[d - 1] IN
              /\ caller.next - 1 \in 1..Len(out[caller.node])
              /\ out[caller.node][caller.next - 1] = stack[d].node
  BY DEF WalkInv, StackIsWalk
<1>3. /\ Reached(0) = Apex
      /\ \A i \in Nat : Reached(i + 1) = UNION {targets[n] : n \in Reached(i)}
  BY ReachedStep
<1>4. 0 \in T
  <2>1. 0 \in Nat /\ 0 + 1 = 1
    OBVIOUS
  <2>2. 1 \in 1..Len(stack) => stack[1].node \in Reached(0)
    BY <1>2, <1>3
  <2> QED  BY <2>1, <2>2
<1>5. ASSUME NEW i \in Nat, i \in T
      PROVE  i + 1 \in T
  <2> SUFFICES ASSUME (i + 1) + 1 \in 1..Len(stack)
               PROVE  stack[(i + 1) + 1].node \in Reached(i + 1)
    OBVIOUS
  <2> DEFINE d == (i + 1) + 1
             caller == stack[d - 1]
  <2>1. d \in 1..Len(stack) /\ d # 1 /\ d - 1 = i + 1 /\ i + 1 \in 1..Len(stack)
    BY <1>1
  <2>2. /\ caller.next - 1 \in 1..Len(out[caller.node])
        /\ out[caller.node][caller.next - 1] = stack[d].node
    BY <1>2, <2>1
  <2>3. caller.node \in Reached(i) /\ caller.node \in Vertex
    <3>1. caller = stack[i + 1]
      BY <2>1
    <3> QED  BY <1>1, <1>5, <2>1, <3>1 DEF Frame
  <2> HIDE DEF caller, d
  <2>4. stack[d].node \in targets[caller.node]
    BY <2>2, <2>3, GraphFacts DEF WalkInv
  <2>5. stack[d].node \in Reached(i + 1)
    BY <1>3, <2>3, <2>4
  <2> QED  BY <2>5 DEF d
<1>6. \A i \in Nat : i \in T
  <2> HIDE DEF T
  <2> QED  BY <1>4, <1>5, NaturalsReached
<1>7. ASSUME NEW d \in 1..Len(stack)
      PROVE  stack[d].node \in Vertex /\ stack[d].node \in Reached(d - 1)
  <2>1. d - 1 \in Nat /\ (d - 1) + 1 = d
    BY <1>1
  <2>2. stack[(d - 1) + 1].node \in Reached(d - 1)
    BY <1>6, <2>1
  <2> QED  BY <1>1, <2>1, <2>2 DEF Frame
<1> QED  BY <1>7

(* There are no more active calls than vertices.                             *)
LEMMA StackIsShort ==
    ASSUME WalkInv
    PROVE  Len(stack) <= N
<1> DEFINE L == Len(stack)
           f == [d \in 1..L |-> stack[d].node]
<1>1. L \in Nat /\ \A d \in 1..L : stack[d].node \in Vertex
  BY StackOnLevels DEF WalkInv, TypeOK
<1>2. \A c, d \in 1..L : stack[c].node = stack[d].node => c = d
  BY DEF WalkInv, PathIsStack
<1> HIDE DEF L
<1>3. f \in [1..L -> Vertex] /\ \A c, d \in 1..L : f[c] = f[d] => c = d
  BY <1>1, <1>2
<1> HIDE DEF f
<1>4. f \in Injection(1..L, Vertex)
  BY <1>3, Fun_IsInj
<1>5. Cardinality(1..L) <= Cardinality(Vertex)
  BY <1>4, TopoAssumption, FS_Injection
<1>6. Cardinality(1..L) = L
  BY <1>1, FS_Interval
<1> QED  BY <1>5, <1>6 DEF L, N

-----------------------------------------------------------------------------
(* The steps keep each of the other parts of the invariant.                  *)

(* Skip and SortAgain, likewise.                                             *)
LEMMA SkipEffect ==
    ASSUME WalkInv, Skip
    PROVE  /\ UNCHANGED <<nodes, out, seenApex, stack, path, ranks, err, sorts>>
           /\ k \in 1..Len(nodes) /\ k' = k + 1 /\ nodes[k] \notin Apex
           /\ stack = << >> /\ err = "walking"
<1>1. Len(nodes) \in Nat /\ k \in Nat \ {0}
  BY DEF WalkInv, TypeOK
<1> QED  BY <1>1 DEF Skip, graph

LEMMA SortAgainEffect ==
    ASSUME SortAgain
    PROVE  /\ nodes' = nodes /\ out' = out /\ k' = 1 /\ seenApex' = FALSE
           /\ stack' = << >> /\ path' = {} /\ ranks' = [n \in Vertex |-> 0]
           /\ err = "nil" /\ err' = "walking" /\ nodes # << >> /\ sorts' = sorts + 1
           /\ Apex' = Apex /\ targets' = targets
BY SameGraph DEF SortAgain, graph

(* No step changes the edges or the set of nodes.                            *)
LEMMA GraphStays ==
    ASSUME WalkInv, [Next]_vars
    PROVE  /\ Apex' = Apex /\ targets' = targets
           /\ \A d : Reached(d)' = Reached(d)
<1>1. out' = out
  BY DEF Next, Skip, Walk, Descend, Return, Finish, SortAgain, vars, graph
<1>2. ToSet(nodes') = ToSet(nodes)
  <2>1. CASE Finish
    BY <2>1, FinishEffect
  <2>2. CASE ~ Finish
    <3>1. nodes' = nodes
      BY <2>2 DEF Next, Skip, Walk, Descend, Return, SortAgain, vars, graph
    <3> QED  BY <3>1
  <2> QED  BY <2>1, <2>2
<1>3. Apex' = Apex /\ targets' = targets
  BY <1>1, <1>2, SameGraph
<1> QED  BY <1>3 DEF Reached

LEMMA NextLoopInv ==
    ASSUME WalkInv, LoopInv, [Next]_vars
    PROVE  LoopInv'
<1>0. Apex' = Apex /\ Len(nodes) \in Nat /\ k \in Nat \ {0}
  BY GraphStays DEF WalkInv, TypeOK
<1>1. CASE Skip
  <2>1. /\ UNCHANGED <<nodes, seenApex, err>> /\ err = "walking"
        /\ k' = k + 1 /\ nodes[k] \notin Apex
    BY <1>1, SkipEffect
  <2>2. ASSUME ~ seenApex, NEW j \in 1..k' - 1
        PROVE  nodes[j] \notin Apex
    <3>1. j \in 1..k - 1 \/ j = k
      BY <1>0, <2>1
    <3> QED  BY <2>1, <2>2, <3>1 DEF LoopInv
  <2> QED  BY <1>0, <2>1, <2>2 DEF LoopInv
<1>2. CASE Walk
  <2>1. /\ nodes' = nodes /\ seenApex' = TRUE /\ err' = "walking" /\ err = "walking"
        /\ Apex # {}
    BY <1>2, WalkEffect DEF Walk, graph
  <2> QED  BY <1>0, <2>1 DEF LoopInv
<1>3. CASE Descend
  <2>1. UNCHANGED <<nodes, seenApex, k>>
    BY <1>3 DEF Descend, graph
  <2>2. err = "walking" /\ err' \in {"walking", "seen"}
    BY <1>3, DescendEffect
  <2> QED  BY <1>0, <2>1, <2>2 DEF LoopInv
<1>4. CASE Return
  <2>1. UNCHANGED <<nodes, seenApex, k, err>> /\ err = "walking"
    BY <1>4 DEF Return, graph
  <2> QED  BY <1>0, <2>1 DEF LoopInv
<1>5. CASE Finish
  <2>1. /\ Len(nodes') = Len(nodes) /\ stack = << >> /\ k = Len(nodes) + 1
        /\ err = "walking"
    BY <1>5, FinishEffect
  <2>2. UNCHANGED <<seenApex, k, stack>> /\ nodes # << >>
    BY <1>5, <2>1 DEF Finish, LoopInv
  <2>3. CASE seenApex
    <3>1. err' = "nil"
      BY <1>5, <2>3 DEF Finish
    <3> QED  BY <1>0, <2>1, <2>2, <2>3, <3>1 DEF LoopInv
  <2>4. CASE ~ seenApex
    <3>1. err' = "noApex" /\ nodes' = nodes
      BY <1>5, <2>4 DEF Finish
    <3> QED  BY <1>0, <2>1, <2>2, <2>4, <3>1 DEF LoopInv
  <2> QED  BY <2>3, <2>4
<1>6. CASE SortAgain
  <2>1. nodes' = nodes /\ k' = 1 /\ seenApex' = FALSE /\ err' = "walking" /\ nodes # << >>
    BY <1>6, SortAgainEffect
  <2>2. 1..k' - 1 = {}
    BY <2>1
  <2> QED  BY <2>1, <2>2 DEF LoopInv
<1>7. CASE UNCHANGED vars
  <2>1. UNCHANGED <<nodes, seenApex, k, err, stack>>
    BY <1>7 DEF vars
  <2> QED  BY <1>0, <2>1 DEF LoopInv
<1> QED  BY <1>1, <1>2, <1>3, <1>4, <1>5, <1>6, <1>7 DEF Next

(* A node found on the path: the calls from its own on are a cycle.          *)
LEMMA DescendSees ==
    ASSUME WalkInv, LoopInv, Descend, err' = "seen"
    PROVE  /\ nodes # << >>
           /\ \E S \in SUBSET Vertex : Endless(S) /\ \E j \in Nat : Reached(j) \cap S # {}
<1> DEFINE m == out[Top.node][Top.next]
           L == Len(stack)
<1>1. /\ L \in Nat \ {0} /\ m \in path /\ Top.node \in Vertex
      /\ Top.next \in 1..Len(out[Top.node]) /\ err = "walking"
  BY DescendEffect
<1>2. PICK c \in 1..L : stack[c].node = m
  BY <1>1 DEF WalkInv, PathIsStack
<1> DEFINE S == {stack[d].node : d \in c..L}
<1>3. \A d \in 1..L : stack[d].node \in Vertex /\ stack[d].node \in Reached(d - 1)
  BY StackOnLevels
<1>4. \A d \in c..L : d \in 1..L
  BY <1>1
<1>5. S \in SUBSET Vertex /\ m \in S /\ Reached(c - 1) \cap S # {} /\ c - 1 \in Nat
  <2>1. c \in c..L /\ c - 1 \in Nat
    BY <1>1
  <2>2. m \in S /\ m \in Reached(c - 1)
    BY <1>2, <1>3, <2>1
  <2> QED  BY <1>3, <1>4, <2>1, <2>2
<1>6. ASSUME NEW d \in c..L
      PROVE  targets[stack[d].node] \cap S # {}
  <2>1. d \in 1..L /\ stack[d].node \in Vertex
    BY <1>3, <1>4
  <2>2. CASE d = L
    <3>1. stack[d].node = Top.node
      BY <2>2 DEF Top
    <3>2. m \in targets[Top.node]
      BY <1>1, GraphFacts DEF WalkInv
    <3> QED  BY <1>5, <3>1, <3>2
  <2>3. CASE d # L
    <3>1. d + 1 \in 1..L /\ d + 1 \in c..L /\ d + 1 # 1 /\ (d + 1) - 1 = d
      BY <1>1, <2>1, <2>3
    <3>2. LET caller == stack[(d + 1) - 1] IN
             /\ caller.next - 1 \in 1..Len(out[caller.node])
             /\ out[caller.node][caller.next - 1] = stack[d + 1].node
      BY <3>1 DEF WalkInv, StackIsWalk
    <3>3. /\ stack[d].next - 1 \in 1..Len(out[stack[d].node])
          /\ out[stack[d].node][stack[d].next - 1] = stack[d + 1].node
      BY <3>1, <3>2
    <3>4. stack[d + 1].node \in targets[stack[d].node]
      BY <2>1, <3>3, GraphFacts DEF WalkInv
    <3>5. stack[d + 1].node \in S
      BY <3>1
    <3> QED  BY <3>4, <3>5
  <2> QED  BY <2>2, <2>3
<1>7. Endless(S)
  <2>1. \A n \in S : targets[n] \cap S # {}
    <3> TAKE n \in S
    <3>1. PICK d \in c..L : n = stack[d].node
      OBVIOUS
    <3> HIDE DEF S
    <3> QED  BY <1>6, <3>1
  <2> HIDE DEF S
  <2> QED  BY <1>5, <2>1 DEF Endless
<1>8. nodes # << >>
  BY <1>1 DEF LoopInv
<1> HIDE DEF S
<1> QED  BY <1>5, <1>7, <1>8

LEMMA NextSeenInv ==
    ASSUME WalkInv, LoopInv, SeenInv, [Next]_vars
    PROVE  SeenInv'
<1>0. targets' = targets /\ \A d : Reached(d)' = Reached(d)
  BY GraphStays
<1>1. CASE Descend /\ err' = "seen"
  <2>1. /\ nodes # << >>
        /\ \E S \in SUBSET Vertex : Endless(S) /\ \E j \in Nat : Reached(j) \cap S # {}
    BY <1>1, DescendSees
  <2>2. nodes' = nodes
    BY <1>1 DEF Descend, graph
  <2> QED  BY <1>0, <2>1, <2>2 DEF SeenInv, Endless
<1>2. CASE UNCHANGED vars
  <2>1. nodes' = nodes /\ err' = err
    BY <1>2 DEF vars
  <2> QED  BY <1>0, <2>1 DEF SeenInv, Endless
<1>3. CASE Skip \/ Walk \/ Return \/ Finish \/ SortAgain \/ (Descend /\ err' # "seen")
  <2>1. err' # "seen"
    <3>1. CASE Walk
      BY <3>1, WalkEffect
    <3>2. CASE ~ Walk
      BY <1>3, <3>2 DEF Skip, Return, Finish, SortAgain
    <3> QED  BY <3>1, <3>2
  <2> QED  BY <2>1 DEF SeenInv
<1> QED  BY <1>1, <1>2, <1>3 DEF Next

LEMMA NextRankInv ==
    ASSUME WalkInv, RankInv, [Next]_vars
    PROVE  RankInv'
<1>0. \A d : Reached(d)' = Reached(d)
  BY GraphStays
<1>1. CASE ranks' = ranks
  BY <1>0, <1>1 DEF RankInv
<1>2. CASE SortAgain
  <2>1. ranks' = [n \in Vertex |-> 0]
    BY <1>2, SortAgainEffect
  <2>2. ASSUME NEW n \in Vertex
        PROVE  0 < N
    <3>1. ranks[n] \in Nat /\ ranks[n] < N
      BY DEF WalkInv, TypeOK, RankInv
    <3> QED  BY <3>1, NIsNat
  <2> QED  BY <2>1, <2>2 DEF RankInv
<1>3. CASE Descend /\ ranks' # ranks
  <2> DEFINE m == out[Top.node][Top.next]
             L == Len(stack)
  <2>1. /\ L \in Nat \ {0} /\ Top.node \in Vertex /\ Top.next \in 1..Len(out[Top.node])
        /\ m \in Vertex /\ m \notin path
        /\ \A n \in Vertex : n # m => ranks'[n] = ranks[n]
        /\ ranks'[m] \in {ranks[m], L}
        /\ Len(stack') = L + 1
    BY <1>3, DescendEffect
  <2>2. L < N
    <3>1. (WalkInv => Len(stack) <= N)'
      BY StackIsShort, PTL
    <3>2. Len(stack') <= N
      BY <1>3, <3>1, DescendWalkInv DEF N
    <3> QED  BY <2>1, <3>2, NIsNat
  <2>3. m \in Reached(L)
    <3>1. L \in 1..L /\ stack[L].node = Top.node
      BY <2>1 DEF Top
    <3>2. Top.node \in Reached(L - 1)
      BY <3>1, StackOnLevels
    <3>3. m \in targets[Top.node]
      BY <2>1, GraphFacts DEF WalkInv
    <3>4. L - 1 \in Nat /\ (L - 1) + 1 = L
      BY <2>1
    <3>5. Reached((L - 1) + 1) = UNION {targets[n] : n \in Reached(L - 1)}
      BY <3>4, ReachedStep
    <3> HIDE DEF m, L
    <3> QED  BY <3>2, <3>3, <3>4, <3>5
  <2> HIDE DEF m, L
  <2>4. ASSUME NEW n \in Vertex
        PROVE  ranks'[n] < N /\ (ranks'[n] > 0 => n \in Reached(ranks'[n]))
    <3>1. CASE ranks'[n] = ranks[n]
      BY <3>1 DEF RankInv
    <3>2. CASE n = m /\ ranks'[n] = L
      BY <2>2, <2>3, <3>2
    <3> QED  BY <2>1, <3>1, <3>2
  <2> QED  BY <1>0, <2>4 DEF RankInv, N, Reached
<1>4. CASE Skip \/ Walk \/ Return \/ Finish \/ UNCHANGED vars
  <2>1. ranks' = ranks
    <3>1. CASE Walk
      BY <3>1, WalkEffect
    <3>2. CASE ~ Walk
      BY <1>4, <3>2 DEF Skip, Return, Finish, vars
    <3> QED  BY <3>1, <3>2
  <2> QED  BY <1>1, <2>1
<1> QED  BY <1>1, <1>2, <1>3, <1>4 DEF Next

LEMMA DescendSettledInv ==
    ASSUME WalkInv, SettledInv, Descend
    PROVE  SettledInv'
<1> SUFFICES ASSUME err' # "seen", NEW n \in Vertex, n \in Visited'
             PROVE  Underway(n)' \/ Settled(n)'
  BY DEF SettledInv, Visited
<1> DEFINE m == out[Top.node][Top.next]
           L == Len(stack)
<1>1. /\ err = "walking" /\ L \in Nat \ {0} /\ m \in Vertex /\ m \notin path
      /\ Top.node \in Vertex /\ Top.next \in 1..Len(out[Top.node])
      /\ \A x \in Vertex : x # m => ranks'[x] = ranks[x]
      /\ ranks'[m] \in {ranks[m], L}
      /\ ranks'[m] >= ranks[m] /\ ranks'[m] >= L
      /\ ranks' \in [Vertex -> Nat]
      /\ Len(stack') = L + 1
      /\ stack'[L + 1] = [node |-> m, rank |-> L, next |-> 1]
  BY DescendEffect
<1>2. \A d \in 1..L :
         /\ d \in 1..Len(stack') /\ stack'[d].node = stack[d].node
         /\ stack'[d].next = IF d = L THEN Top.next + 1 ELSE stack[d].next
  BY DescendEffect
<1>3. UNCHANGED <<nodes, out, k>> /\ Apex' = Apex
  BY SameGraph DEF Descend, graph
<1>4. ranks \in [Vertex -> Nat] /\ \A x \in Vertex : \A e \in 1..Len(out[x]) : out[x][e] \in Vertex
  BY GraphFacts DEF WalkInv, TypeOK
<1>5. Top = stack[L]
  BY DEF Top
<1>6. \A d \in 1..L : stack[d].node \in path
  BY DEF WalkInv, PathIsStack
<1>7. \A x \in Visited : Underway(x) \/ Settled(x)
  BY <1>1 DEF SettledInv
<1> DEFINE target == Top.node
           edge == Top.next
<1>8. m = out[target][edge]
  OBVIOUS
<1> HIDE DEF m, L
<1>9. \A x \in Vertex : ranks'[x] >= ranks[x] /\ ranks[x] \in Nat /\ ranks'[x] \in Nat
  BY <1>1, <1>4
<1>10. CASE n = m /\ ranks'[m] = L
  <2> DEFINE d == L + 1
  <2>1. d \in 1..Len(stack') /\ stack'[d].node = n /\ ranks'[n] = d - 1 /\ stack'[d].next = 1
    BY <1>1, <1>10
  <2>2. \A e \in 1..Len(out[n]) : ~ (e < stack'[d].next)
    BY <2>1
  <2> HIDE DEF d
  <2> QED  BY <1>3, <2>1, <2>2 DEF Underway
<1>11. CASE ranks'[n] = ranks[n] /\ n \in Visited /\ Settled(n)
  <2>1. ASSUME NEW e \in 1..Len(out[n])
        PROVE  ranks'[out[n][e]] >= ranks'[n] + 1
    <3>1. out[n][e] \in Vertex /\ ranks[out[n][e]] >= ranks[n] + 1
      BY <1>4, <1>11 DEF Settled
    <3>2. ranks'[out[n][e]] >= ranks[out[n][e]] /\ ranks[out[n][e]] \in Nat
          /\ ranks'[out[n][e]] \in Nat
      BY <1>9, <3>1
    <3>3. ranks'[n] = ranks[n] /\ ranks[n] \in Nat
      BY <1>9, <1>11
    <3> QED  BY <3>1, <3>2, <3>3
  <2> QED  BY <1>3, <2>1 DEF Settled
<1>12. CASE n # m /\ Underway(n)
  <2>1. PICK d \in 1..L : /\ stack[d].node = n /\ ranks[n] = d - 1
                          /\ \A e \in 1..Len(out[n]) :
                                 e < stack[d].next => ranks[out[n][e]] >= d
    BY <1>12 DEF Underway, L
  <2>2. d \in 1..Len(stack') /\ stack'[d].node = n /\ ranks'[n] = d - 1
    BY <1>1, <1>2, <1>12, <2>1
  <2>3. ASSUME NEW e \in 1..Len(out[n]), e < stack'[d].next
        PROVE  ranks'[out[n][e]] >= d
    <3>1. out[n][e] \in Vertex
      BY <1>4
    <3>2. ranks'[out[n][e]] >= ranks[out[n][e]] /\ ranks[out[n][e]] \in Nat
          /\ ranks'[out[n][e]] \in Nat
      BY <1>9, <3>1
    <3>3. CASE e < stack[d].next
      <4>1. ranks[out[n][e]] >= d
        BY <2>1, <3>3
      <4>2. d \in Nat
        BY <1>1, <2>1
      <4> QED  BY <3>2, <4>1, <4>2
    <3>4. CASE ~ (e < stack[d].next)
      <4>1. d = L
        BY <1>2, <2>3, <3>4
      <4>2. n = Top.node /\ stack[d].next = Top.next /\ stack'[d].next = Top.next + 1
        BY <1>2, <1>5, <2>1, <4>1
      <4>3. e = Top.next
        BY <1>1, <2>3, <3>4, <4>2
      <4>4. out[n][e] = m
        BY <1>8, <4>2, <4>3
      <4> QED  BY <1>1, <4>1, <4>4
    <3> QED  BY <3>3, <3>4
  <2> QED  BY <1>3, <2>2, <2>3 DEF Underway
<1>13. n # m => n \in Visited /\ ranks'[n] = ranks[n]
  BY <1>1, <1>3 DEF Visited
<1>14. n = m /\ ranks'[m] # L => ranks'[n] = ranks[n] /\ n \in Visited /\ Settled(n)
  <2> SUFFICES ASSUME n = m, ranks'[m] # L
               PROVE  ranks'[n] = ranks[n] /\ n \in Visited /\ Settled(n)
    OBVIOUS
  <2>1. ranks'[m] = ranks[m] /\ ranks[m] > 0
    <3>1. ranks'[m] = ranks[m]
      BY <1>1
    <3> QED  BY <1>1, <1>9, <3>1
  <2>2. n \in Visited
    BY <2>1 DEF Visited
  <2>3. ~ Underway(n)
    BY <1>1, <1>6 DEF Underway, L
  <2> QED  BY <1>7, <2>1, <2>2, <2>3
<1> QED  BY <1>7, <1>10, <1>11, <1>12, <1>13, <1>14

LEMMA ReturnSettledInv ==
    ASSUME WalkInv, SettledInv, Return
    PROVE  SettledInv'
<1> DEFINE L == Len(stack)
<1>1. /\ L \in Nat \ {0} /\ Top.next > Len(out[Top.node]) /\ err = "walking"
      /\ Len(stack') = L - 1
      /\ \A d \in 1..L - 1 : stack'[d] = stack[d]
  BY ReturnEffect
<1>2. UNCHANGED <<nodes, out, k, ranks, err>> /\ Apex' = Apex
  BY SameGraph DEF Return, graph
<1>3. Top = stack[L]
  BY DEF Top
<1>4. \A n \in Vertex : Len(out[n]) \in Nat
  BY GraphFacts DEF WalkInv
<1>5. Top.next \in Nat
  BY TopFacts DEF WalkInv, Return
<1> SUFFICES ASSUME NEW n \in Vertex, n \in Visited'
             PROVE  Underway(n)' \/ Settled(n)'
  BY DEF SettledInv, Visited
<1>6. n \in Visited /\ (Underway(n) \/ Settled(n))
  BY <1>1, <1>2 DEF SettledInv, Visited
<1> HIDE DEF L
<1>7. CASE Settled(n)
  BY <1>2, <1>7 DEF Settled
<1>8. CASE Underway(n)
  <2>1. PICK d \in 1..L : /\ stack[d].node = n /\ ranks[n] = d - 1
                          /\ \A e \in 1..Len(out[n]) :
                                 e < stack[d].next => ranks[out[n][e]] >= d
    BY <1>8 DEF Underway, L
  <2>2. CASE d = L
    <3>1. \A e \in 1..Len(out[n]) : e < stack[d].next
      BY <1>1, <1>3, <1>4, <1>5, <2>1, <2>2
    <3>2. \A e \in 1..Len(out[n]) : ranks[out[n][e]] >= ranks[n] + 1
      <4>1. ranks[n] + 1 = d
        BY <1>1, <2>1
      <4> QED  BY <2>1, <3>1, <4>1
    <3> QED  BY <1>2, <3>2 DEF Settled
  <2>3. CASE d # L
    <3>1. d \in 1..Len(stack') /\ stack'[d] = stack[d]
      BY <1>1, <2>3
    <3> QED  BY <1>2, <2>1, <3>1 DEF Underway
  <2> QED  BY <2>2, <2>3
<1> QED  BY <1>6, <1>7, <1>8

LEMMA NextSettledInv ==
    ASSUME WalkInv, SettledInv, [Next]_vars
    PROVE  SettledInv'
<1>0. Apex' = Apex /\ Len(nodes) \in Nat /\ k \in Nat \ {0} /\ ranks \in [Vertex -> Nat]
  BY GraphStays DEF WalkInv, TypeOK
<1>1. CASE Skip
  <2>1. /\ UNCHANGED <<nodes, out, stack, ranks, err>> /\ k' = k + 1 /\ nodes[k] \notin Apex
    BY <1>1, SkipEffect
  <2>2. Visited' \subseteq Visited
    <3> SUFFICES ASSUME NEW n \in Vertex, n \in Apex, NEW j \in 1..k' - 1, nodes[j] = n
                 PROVE  \E i \in 1..k - 1 : nodes[i] = n
      BY <1>0, <2>1 DEF Visited
    <3>1. j \in 1..k - 1 \/ j = k
      BY <1>0, <2>1
    <3> QED  BY <2>1, <3>1
  <2> QED  BY <2>1, <2>2 DEF SettledInv, Underway, Settled
<1>2. CASE Walk
  <2> DEFINE n == nodes[k]
  <2>1. /\ ranks' = ranks /\ err' = err /\ err = "walking" /\ stack = << >> /\ k' = k + 1
        /\ Len(stack') = 1 /\ stack'[1] = [node |-> n, rank |-> 0, next |-> 1]
        /\ n \in Vertex
    BY <1>2, WalkEffect
  <2>2. nodes' = nodes /\ out' = out
    BY <1>2 DEF Walk, graph
  <2>3. \A x \in Visited : Settled(x)
    <3>1. \A x : ~ Underway(x)
      <4>1. 1..Len(stack) = {}
        BY <2>1
      <4> QED  BY <4>1 DEF Underway
    <3> QED  BY <2>1, <3>1 DEF SettledInv
  <2>4. \A x \in Visited' : x \in Visited \/ (x = n /\ ranks[n] = 0)
    <3> TAKE x \in Visited'
    <3>1. CASE ranks[x] > 0
      BY <3>1 DEF Visited
    <3>2. CASE x \in Apex /\ ranks[x] = 0
      <4>1. PICK j \in 1..k' - 1 : nodes[j] = x
        BY <1>0, <2>1, <2>2, <3>2 DEF Visited
      <4>2. j \in 1..k - 1 \/ j = k
        BY <1>0, <2>1
      <4> QED  BY <3>2, <4>1, <4>2 DEF Visited
    <3>3. x \in Vertex /\ ranks[x] \in Nat /\ (ranks[x] > 0 \/ x \in Apex)
      BY <1>0, <2>1, <2>2 DEF Visited
    <3> QED  BY <3>1, <3>2, <3>3
  <2>5. ASSUME NEW x, x = n, ranks[n] = 0
        PROVE  Underway(x)'
    <3>1. 1 \in 1..Len(stack') /\ stack'[1].node = x /\ ranks'[x] = 1 - 1 /\ stack'[1].next = 1
      BY <2>1, <2>5
    <3>2. \A e \in 1..Len(out[x]) : ~ (e < stack'[1].next)
      BY <3>1
    <3> QED  BY <2>2, <3>1, <3>2 DEF Underway
  <2>6. \A x : Settled(x)' <=> Settled(x)
    BY <2>1, <2>2 DEF Settled
  <2>7. \A x \in Visited' : Underway(x)' \/ Settled(x)'
    <3> TAKE x \in Visited'
    <3>1. CASE x \in Visited
      BY <2>3, <2>6, <3>1
    <3>2. CASE x = n /\ ranks[n] = 0
      BY <2>5, <3>2
    <3> QED  BY <2>4, <3>1, <3>2
  <2> QED  BY <2>7 DEF SettledInv
<1>3. CASE Descend
  BY <1>3, DescendSettledInv
<1>4. CASE Return
  BY <1>4, ReturnSettledInv
<1>5. CASE Finish
  <2>1. k = Len(nodes) + 1 /\ err = "walking"
    BY <1>5, FinishEffect
  <2>2. UNCHANGED <<out, k, stack, ranks>>
    BY <1>5 DEF Finish
  <2>3. Visited' \subseteq Visited
    <3> SUFFICES ASSUME NEW n \in Vertex, n \in Apex
                 PROVE  \E j \in 1..k - 1 : nodes[j] = n
      BY <1>0, <2>2 DEF Visited
    <3>1. PICK j \in 1..Len(nodes) : nodes[j] = n
      BY GraphFacts DEF WalkInv
    <3>2. j \in 1..k - 1
      BY <1>0, <2>1
    <3> QED  BY <3>1, <3>2
  <2> QED  BY <2>1, <2>2, <2>3 DEF SettledInv, Underway, Settled
<1>6. CASE SortAgain
  <2>1. k' = 1 /\ ranks' = [n \in Vertex |-> 0]
    BY <1>6, SortAgainEffect
  <2>2. 1..k' - 1 = {} /\ \A n \in Vertex : ~ (ranks'[n] > 0)
    BY <2>1
  <2>3. Visited' = {}
    BY <2>2 DEF Visited
  <2> QED  BY <2>3 DEF SettledInv
<1>7. CASE UNCHANGED vars
  <2>1. UNCHANGED <<nodes, out, k, stack, ranks, err>>
    BY <1>7 DEF vars
  <2> QED  BY <1>0, <2>1 DEF SettledInv, Underway, Settled, Visited
<1> QED  BY <1>1, <1>2, <1>3, <1>4, <1>5, <1>6, <1>7 DEF Next

-----------------------------------------------------------------------------
(* What the walks have computed when the loop over nodes ends.               *)

Walked == stack = << >> /\ k = Len(nodes) + 1 /\ err # "seen"

(* A node at the end of a path of d edges from an apex has been visited, has *)
(* rank d or more, and a lower rank than the nodes its edges lead to.        *)
LEMMA WalkedLevels ==
    ASSUME WalkInv, SettledInv, Walked
    PROVE  \A d \in Nat : \A n \in Reached(d) :
               n \in Vertex /\ ranks[n] >= d /\ Settled(n)
<1> DEFINE Good(d) == \A n \in Reached(d) : n \in Vertex /\ n \in Visited /\ ranks[n] >= d
           T == {d \in Nat : Good(d)}
<1>1. /\ ranks \in [Vertex -> Nat] /\ Len(nodes) \in Nat /\ k = Len(nodes) + 1
  BY DEF WalkInv, TypeOK, Walked
<1>2. \A n \in Visited : Settled(n)
  <2>1. 1..Len(stack) = {}
    BY DEF Walked
  <2> QED  BY <2>1 DEF SettledInv, Underway, Walked
<1>3. /\ Reached(0) = Apex
      /\ \A i \in Nat : Reached(i + 1) = UNION {targets[n] : n \in Reached(i)}
  BY ReachedStep
<1>4. Good(0)
  <2> SUFFICES ASSUME NEW n \in Apex
               PROVE  n \in Vertex /\ n \in Visited /\ ranks[n] >= 0
    BY <1>3
  <2>1. n \in Vertex /\ \E j \in 1..Len(nodes) : nodes[j] = n
    BY GraphFacts DEF WalkInv
  <2>2. \E j \in 1..k - 1 : nodes[j] = n
    BY <1>1, <2>1
  <2>3. ranks[n] >= 0
    BY <1>1, <2>1
  <2> QED  BY <2>1, <2>2, <2>3 DEF Visited
<1>5. ASSUME NEW d \in Nat, Good(d)
      PROVE  Good(d + 1)
  <2> SUFFICES ASSUME NEW m \in Reached(d + 1)
               PROVE  m \in Vertex /\ m \in Visited /\ ranks[m] >= d + 1
    OBVIOUS
  <2>1. PICK n : n \in Reached(d) /\ m \in targets[n]
    BY <1>3
  <2>2. n \in Vertex /\ n \in Visited /\ ranks[n] >= d /\ Settled(n)
    BY <1>2, <1>5, <2>1
  <2>3. m \in Vertex /\ \E e \in 1..Len(out[n]) : out[n][e] = m
    BY <2>1, <2>2, GraphFacts DEF WalkInv
  <2>4. ranks[m] >= ranks[n] + 1
    BY <2>2, <2>3 DEF Settled
  <2>5. ranks[n] \in Nat /\ ranks[m] \in Nat
    BY <1>1, <2>2, <2>3
  <2>6. ranks[m] >= d + 1 /\ ranks[m] > 0
    BY <2>2, <2>4, <2>5
  <2> QED  BY <2>3, <2>6 DEF Visited
<1>6. \A d \in Nat : d \in T
  <2>1. 0 \in T
    BY <1>4
  <2>2. \A d \in Nat : d \in T => d + 1 \in T
    BY <1>5
  <2> HIDE DEF T
  <2> QED  BY <2>1, <2>2, NaturalsReached
<1> QED  BY <1>2, <1>6

(* So no path is as long as the graph, and the ranks are those of Rank.      *)
LEMMA WalkedRanks ==
    ASSUME WalkInv, RankInv, SettledInv, Walked
    PROVE  ~ WalkRepeats(Vertex, Apex, targets) /\ ranks = Rank(Vertex, Apex, targets)
<1>1. \A d \in Nat : \A n \in Reached(d) : n \in Vertex /\ ranks[n] >= d
  BY WalkedLevels
<1>2. \A n \in Vertex : ranks[n] < N /\ (ranks[n] > 0 => n \in Reached(ranks[n]))
  BY DEF RankInv
<1>3. ranks \in [Vertex -> Nat]
  BY DEF WalkInv, TypeOK
<1>4. Reached(N) = {}
  <2> SUFFICES ASSUME NEW n \in Reached(N)
               PROVE  FALSE
    OBVIOUS
  <2>1. n \in Vertex /\ ranks[n] >= N
    BY <1>1, NIsNat
  <2> QED  BY <1>2, <1>3, <2>1, NIsNat
<1>5. ASSUME NEW n \in Vertex
      PROVE  LET K == 1..N IN
             Cardinality({i \in K : \E m \in K : m >= i /\ n \in Reached(m)}) = ranks[n]
  <2>1. ranks[n] \in Nat /\ ranks[n] < N /\ (ranks[n] > 0 => n \in Reached(ranks[n]))
    BY <1>2, <1>3
  <2>2. \A m \in 1..N : n \in Reached(m) => m <= ranks[n]
    BY <1>1, NIsNat
  <2>3. {i \in 1..N : \E m \in 1..N : m >= i /\ n \in Reached(m)} = 1..ranks[n]
    <3>1. ASSUME NEW i \in 1..N, NEW m \in 1..N, m >= i, n \in Reached(m)
          PROVE  i \in 1..ranks[n]
      BY <2>1, <2>2, <3>1, NIsNat
    <3>2. ASSUME NEW i \in 1..ranks[n]
          PROVE  i \in 1..N /\ \E m \in 1..N : m >= i /\ n \in Reached(m)
      <4>1. ranks[n] \in 1..N /\ ranks[n] >= i /\ n \in Reached(ranks[n]) /\ i \in 1..N
        BY <2>1, NIsNat
      <4> QED  BY <4>1
    <3> QED  BY <3>1, <3>2
  <2>4. Cardinality(1..ranks[n]) = ranks[n]
    BY <2>1, FS_Interval
  <2> QED  BY <2>3, <2>4
<1>6. Rank(Vertex, Apex, targets) = [n \in Vertex |-> ranks[n]]
  BY <1>5 DEF Rank, N, Reached
<1>7. ranks = [n \in Vertex |-> ranks[n]]
  BY <1>3
<1>8. ~ WalkRepeats(Vertex, Apex, targets)
  BY <1>4 DEF WalkRepeats, N, Reached
<1> QED  BY <1>6, <1>7, <1>8

LEMMA NextSortedInv ==
    ASSUME WalkInv, LoopInv, RankInv, SettledInv, SortedInv, [Next]_vars
    PROVE  SortedInv'
<1>0. Rank(Vertex, Apex, targets)' = Rank(Vertex, Apex, targets)
  BY GraphStays
<1>1. CASE Finish
  <2>1. stack = << >> /\ k = Len(nodes) + 1 /\ err = "walking"
    BY <1>1, FinishEffect
  <2>2. ranks = Rank(Vertex, Apex, targets)
    BY <2>1, WalkedRanks DEF Walked
  <2>3. ranks' = ranks /\ sorts' = sorts
    BY <1>1 DEF Finish
  <2>4. nodes \in Seq(Vertex) /\ ranks \in [Vertex -> Int]
    BY DEF WalkInv, TypeOK
  <2>5. CASE seenApex
    <3>1. nodes' = StableSort(nodes, ranks)
      BY <1>1, <2>5 DEF Finish
    <3>2. NonDecreasing(nodes', ranks)
      BY <2>4, <3>1, StableSortProperties
    <3> QED  BY <1>0, <2>2, <2>3, <3>2 DEF SortedInv, NonDecreasing
  <2>6. CASE ~ seenApex
    <3>1. err' = "noApex" /\ nodes' = nodes
      BY <1>1, <2>6 DEF Finish
    <3> QED  BY <1>0, <2>3, <3>1 DEF SortedInv, NonDecreasing
  <2> QED  BY <2>5, <2>6
<1>2. CASE SortAgain
  <2>1. err = "nil" /\ err' = "walking" /\ nodes' = nodes /\ nodes # << >>
    BY <1>2, SortAgainEffect
  <2>2. Walked
    BY <2>1 DEF LoopInv, Walked
  <2>3. ranks = Rank(Vertex, Apex, targets)
    BY <2>2, WalkedRanks
  <2>4. NonDecreasing(nodes, Rank(Vertex, Apex, targets))
    BY <2>1, <2>3 DEF SortedInv
  <2> QED  BY <1>0, <2>1, <2>4 DEF SortedInv, NonDecreasing
<1>3. CASE Skip \/ Walk \/ Descend \/ Return
  <2>1. nodes' = nodes /\ sorts' = sorts
    BY <1>3 DEF Skip, Walk, Descend, Return, graph
  <2>2. err' # "nil"
    BY <1>3, SkipEffect, WalkEffect, DescendEffect DEF Return
  <2> QED  BY <1>0, <2>1, <2>2 DEF SortedInv, NonDecreasing
<1>4. CASE UNCHANGED vars
  <2>1. UNCHANGED <<nodes, ranks, err, sorts>>
    BY <1>4 DEF vars
  <2> QED  BY <1>0, <2>1 DEF SortedInv, NonDecreasing
<1> QED  BY <1>1, <1>2, <1>3, <1>4 DEF Next

-----------------------------------------------------------------------------
(* The theorems.                                                             *)

LEMMA InitInv == Init => Inv
<1> SUFFICES ASSUME Init PROVE Inv
  OBVIOUS
<1>1. WalkInv
  BY InitWalkInv
<1>2. /\ nodes \in Seq(Vertex) /\ k = 1 /\ seenApex = FALSE /\ stack = << >>
      /\ ranks = [n \in Vertex |-> 0] /\ sorts = 1
      /\ err = IF nodes = << >> THEN "nil" ELSE "walking"
  BY <1>1 DEF Init, WalkInv, TypeOK
<1>3. 1..k - 1 = {}
  BY <1>2
<1>4. LoopInv
  <2>1. nodes = << >> => Len(nodes) = 0
    OBVIOUS
  <2> QED  BY <1>2, <1>3, <2>1 DEF LoopInv
<1>5. SeenInv
  BY <1>2 DEF SeenInv
<1>6. RankInv
  <2>1. ASSUME NEW n \in Vertex
        PROVE  0 < N
    <3>1. N # 0
      BY TopoAssumption, FS_EmptySet DEF N
    <3> QED  BY <3>1, NIsNat
  <2> QED  BY <1>2, <2>1 DEF RankInv
<1>7. SettledInv
  <2>1. Visited = {}
    BY <1>2, <1>3 DEF Visited
  <2> QED  BY <2>1 DEF SettledInv
<1>8. SortedInv
  <2>1. err = "nil" => 1..Len(nodes) = {}
    BY <1>2
  <2> QED  BY <1>2, <2>1 DEF SortedInv, NonDecreasing
<1> QED  BY <1>1, <1>4, <1>5, <1>6, <1>7, <1>8 DEF Inv

LEMMA NextInv == Inv /\ [Next]_vars => Inv'
BY NextWalkInv, NextLoopInv, NextSeenInv, NextRankInv, NextSettledInv, NextSortedInv DEF Inv

THEOREM Invariance == Spec => []Inv
<1>1. Init => Inv
  BY InitInv
<1>2. Inv /\ [Next]_vars => Inv'
  BY NextInv
<1> QED  BY <1>1, <1>2, PTL DEF Spec

(* A loop that ends without seenApex has passed over every node.             *)
LEMMA LoopHasNoApex ==
    ASSUME Inv, err = "noApex"
    PROVE  Apex = {}
<1>1. ~ seenApex /\ k = Len(nodes) + 1 /\ Len(nodes) \in Nat
  BY DEF Inv, LoopInv, WalkInv, TypeOK
<1>2. \A j \in 1..Len(nodes) : nodes[j] \notin Apex
  BY <1>1 DEF Inv, LoopInv
<1>3. \A n \in Apex : \E j \in 1..Len(nodes) : nodes[j] = n
  BY GraphFacts DEF Inv, WalkInv
<1> QED  BY <1>2, <1>3

(* Every node with an edge into it, in a graph without an apex: following    *)
(* the edges backwards comes round, or leaves by a deleted node.             *)
LEMMA NoApexIsCyclic ==
    ASSUME TypeOK, nodes # << >>, Apex = {}
    PROVE  Cyclic(Vertex) \/ \E n \in Vertex \ ToSet(nodes) : out[n] # << >>
<1> SUFFICES ASSUME \A n \in Vertex \ ToSet(nodes) : out[n] = << >>
             PROVE  Cyclic(Vertex)
  OBVIOUS
<1> DEFINE S == ToSet(nodes)
<1>1. S \subseteq Vertex /\ S # {}
  <2>1. nodes \in Seq(Vertex)
    BY DEF TypeOK
  <2>2. 1 \in 1..Len(nodes)
    BY <2>1
  <2> QED  BY <2>1, <2>2, ToSetOfSeq
<1>2. \A n \in S : \E m \in S : n \in targets[m]
  <2> TAKE n \in S
  <2>1. PICK m \in Vertex : n \in ToSet(out[m])
    BY DEF Apex
  <2>2. n \in targets[m]
    BY <2>1 DEF targets
  <2>3. PICK e \in 1..Len(out[m]) : out[m][e] = n
    BY <2>2, GraphFacts
  <2>4. out[m] # << >>
    BY <2>3
  <2> QED  BY <2>2, <2>4
<1>3. IsFiniteSet(S)
  BY <1>1, TopoAssumption, FS_Subset
<1> HIDE DEF S
<1>4. \E C \in SUBSET S : C # {} /\ \A n \in C : targets[n] \cap C # {}
  BY <1>1, <1>2, <1>3, BackwardsIsCyclic
<1> QED  BY <1>1, <1>4 DEF Cyclic

(* SortTopo never reports a cycle in a graph that has none and no deleted    *)
(* node with edges.                                                          *)
THEOREM CyclesAreReal == Spec => []CycleIsReal
<1>1. Inv => CycleIsReal
  <2> SUFFICES ASSUME Inv PROVE CycleIsReal
    OBVIOUS
  <2>1. ASSUME err = "seen"
        PROVE  Cyclic(Vertex)
    BY <2>1 DEF Inv, SeenInv, Endless, Cyclic
  <2>2. ASSUME err = "noApex"
        PROVE  Cyclic(Vertex) \/ \E n \in Vertex \ ToSet(nodes) : out[n] # << >>
    <3>1. TypeOK /\ nodes # << >>
      BY <2>2 DEF Inv, WalkInv, LoopInv
    <3>2. Apex = {}
      BY <2>2, LoopHasNoApex
    <3> QED  BY <3>1, <3>2, NoApexIsCyclic
  <2> QED  BY <2>1, <2>2 DEF CycleIsReal
<1> QED  BY <1>1, Invariance, PTL

(* A node that can be reached from an apex comes before its targets.         *)
THEOREM SortedDownstream == Spec => []Downstream
<1>1. Inv => Downstream
  <2> SUFFICES ASSUME Inv, err = "nil",
                      NEW i \in 1..Len(nodes), NEW j \in 1..Len(nodes),
                      nodes[i] \in Reachable, nodes[j] \in targets[nodes[i]]
               PROVE  i < j
    BY DEF Downstream
  <2>1. Walked
    BY DEF Inv, LoopInv, Walked
  <2>2. PICK d \in 0..N : nodes[i] \in Reached(d)
    BY DEF Reachable, N, Reached
  <2>3. d \in Nat
    BY NIsNat
  <2>4. nodes[i] \in Vertex /\ Settled(nodes[i])
    BY <2>1, <2>2, <2>3, WalkedLevels DEF Inv
  <2>5. nodes[j] \in Vertex /\ \E e \in 1..Len(out[nodes[i]]) : out[nodes[i]][e] = nodes[j]
    BY <2>4, GraphFacts DEF Inv, WalkInv
  <2>6. ranks[nodes[j]] >= ranks[nodes[i]] + 1
    BY <2>4, <2>5 DEF Settled
  <2>7. ranks[nodes[j]] \in Nat /\ ranks[nodes[i]] \in Nat
    BY <2>4, <2>5 DEF Inv, WalkInv, TypeOK
  <2>8. j < i => ranks[nodes[j]] <= ranks[nodes[i]]
    BY DEF Inv, SortedInv, NonDecreasing
  <2>9. i # j
    BY <2>6, <2>7
  <2> QED  BY <2>6, <2>7, <2>8, <2>9
<1> QED  BY <1>1, Invariance, PTL

(* The walk fails exactly when Ranks says that it must, and computes the     *)
(* ranks that Ranks defines.                                                 *)
THEOREM WalkComputesRanks == Spec => []Agrees
<1>1. Inv => Agrees
  <2> SUFFICES ASSUME Inv PROVE Agrees
    OBVIOUS
  <2> DEFINE fails == nodes # << >> /\ (Apex = {} \/ WalkRepeats(Vertex, Apex, targets))
  <2>1. ASSUME err = "seen"
        PROVE  fails
    <3>1. nodes # << >>
      BY <2>1 DEF Inv, SeenInv
    <3>2. PICK S \in SUBSET Vertex : Endless(S) /\ \E j \in Nat : Reached(j) \cap S # {}
      BY <2>1 DEF Inv, SeenInv
    <3>3. PICK j \in Nat : Reached(j) \cap S # {}
      BY <3>2
    <3>4. \A i \in Nat : Level(Apex, targets, i) # {}
      <4> DEFINE A == Apex
                 succ == targets
      <4>1. \A n \in S : succ[n] \cap S # {}
        BY <3>2 DEF Endless
      <4>2. Level(A, succ, j) \cap S # {}
        BY <3>3 DEF Reached
      <4> HIDE DEF A, succ
      <4>3. \A i \in Nat : Level(A, succ, i) # {}
        BY <4>1, <4>2, EndlessWalk
      <4> QED  BY <4>3, Zenon DEF A, succ
    <3>5. WalkRepeats(Vertex, Apex, targets)
      BY <3>4, NIsNat DEF WalkRepeats, N
    <3> QED  BY <3>1, <3>5
  <2>2. ASSUME err = "noApex"
        PROVE  fails
    BY <2>2, LoopHasNoApex DEF Inv, LoopInv
  <2>3. ASSUME err = "nil"
        PROVE  ~ fails /\ (nodes # << >> => ranks = Rank(Vertex, Apex, targets))
    <3>1. Walked
      BY <2>3 DEF Inv, LoopInv, Walked
    <3>2. ~ WalkRepeats(Vertex, Apex, targets) /\ ranks = Rank(Vertex, Apex, targets)
      BY <3>1, WalkedRanks DEF Inv
    <3>3. nodes # << >> => Apex # {}
      BY <2>3 DEF Inv, LoopInv
    <3> QED  BY <3>2, <3>3
  <2> QED  BY <2>1, <2>2, <2>3 DEF Agrees
<1> QED  BY <1>1, Invariance, PTL

(* Once sorted the nodes stay as they are, however often SortTopo is called. *)
THEOREM SortIsIdempotent == Spec => Idempotent
<1>1. Inv /\ Inv' /\ [Next]_vars => [sorts > 1 => nodes' = nodes]_vars
  <2> SUFFICES ASSUME Inv, [Next]_vars, sorts > 1
               PROVE  nodes' = nodes
    OBVIOUS
  <2>1. CASE Finish /\ seenApex
    <3>1. stack = << >> /\ k = Len(nodes) + 1 /\ err = "walking"
      BY <2>1, FinishEffect DEF Inv
    <3>2. ranks = Rank(Vertex, Apex, targets)
      BY <3>1, WalkedRanks DEF Inv, Walked
    <3>3. NonDecreasing(nodes, ranks)
      BY <3>2 DEF Inv, SortedInv
    <3>4. nodes \in Seq(Vertex) /\ ranks \in [Vertex -> Int]
      BY DEF Inv, WalkInv, TypeOK
    <3>5. StableSort(nodes, ranks) = nodes
      BY <3>3, <3>4, StableSortProperties
    <3>6. nodes' = StableSort(nodes, ranks)
      BY <2>1 DEF Finish
    <3> QED  BY <3>5, <3>6
  <2>2. CASE ~ (Finish /\ seenApex)
    BY <2>2 DEF Next, Skip, Walk, Descend, Return, Finish, SortAgain, vars, graph
  <2> QED  BY <2>1, <2>2
<1> QED  BY <1>1, Invariance, PTL DEF Spec, Idempotent
=============================================================================
