------------------------------ MODULE TopoSort ------------------------------
(***************************************************************************)
(* lexicalTopoSort, step by step: the loop over g.nodes, and the recursive  *)
(* closure walkDf that it calls from every apex, with its stack of calls,   *)
(* the set path of the nodes on the current path and the map ranks.  The    *)
(* walk only reads the graph: out has the far ends of each edgesFrom list,  *)
(* in order.  A vertex that is not in nodes is a node that has been deleted *)
(* but that AddEdge has given edges since.                                  *)
(***************************************************************************)
EXTENDS GoSlices, Ranks

CONSTANTS Vertex,    \* the nodes that there may be
          Outs,      \* the lists of far ends that a vertex may have
          NodeLists, \* the contents g.nodes may have
          MaxSorts   \* bound: how often the caller calls SortTopo

ASSUME TopoAssumption == /\ IsFiniteSet(Vertex)
                         /\ Outs \subseteq Seq(Vertex)
                         /\ NodeLists \subseteq {s \in Seq(Vertex) : IsInjective(s)}

VARIABLES
    nodes, out,                  \* the graph
    k, seenApex,                 \* the loop over nodes, and its local
    stack, path, ranks,          \* the active calls of walkDf, their maps
    err,                         \* "walking", or how the last call returned
    sorts                        \* how often SortTopo has been called

graph == <<nodes, out>>
vars  == <<nodes, out, k, seenApex, stack, path, ranks, err, sorts>>

Apex    == {n \in ToSet(nodes) : \A m \in Vertex : n \notin ToSet(out[m])}
targets == [n \in Vertex |-> ToSet(out[n])]

(* One active call of walkDf: its n and currRank, and the edge of n that its *)
(* loop comes to next.                                                       *)
Frame == [node : Vertex, rank : Nat, next : Nat \ {0}]
Top   == stack[Len(stack)]

Init ==
    /\ nodes \in NodeLists
    /\ out \in [Vertex -> Outs] /\ \A n \in Vertex : n \notin ToSet(out[n])
    /\ k = 1 /\ seenApex = FALSE
    /\ stack = << >> /\ path = {} /\ ranks = [n \in Vertex |-> 0]
    /\ err = IF nodes = << >> THEN "nil" ELSE "walking"
    /\ sorts = 1

(* Mutant: a later, shorter path to n lowers its rank.                       *)
CallLastRank(n, rank, callers, onPath) ==
    IF n \in onPath
    THEN err' = "seen" /\ path' = onPath /\ stack' = callers /\ UNCHANGED ranks
    ELSE /\ path' = onPath \cup {n}
         /\ ranks' = [ranks EXCEPT ![n] = rank]
         /\ stack' = Append(callers, [node |-> n, rank |-> rank, next |-> 1])
         /\ UNCHANGED err

(* walkDf(s, n, rank, path) up to its loop.                                  *)
Call(n, rank, callers, onPath) ==
    IF n \in onPath
    THEN err' = "seen" /\ path' = onPath /\ stack' = callers /\ UNCHANGED ranks
    ELSE /\ path' = onPath \cup {n}
         /\ ranks' = [ranks EXCEPT ![n] = Max({@, rank})]
         /\ stack' = Append(callers, [node |-> n, rank |-> rank, next |-> 1])
         /\ UNCHANGED err

(* The loop of lexicalTopoSort: a node with incoming edges is passed over,   *)
(* an apex is walked from, with a path of its own.                           *)
Skip ==
    /\ err = "walking" /\ stack = << >> /\ k <= Len(nodes)
    /\ nodes[k] \notin Apex
    /\ k' = k + 1
    /\ UNCHANGED <<graph, seenApex, stack, path, ranks, err, sorts>>

Walk ==
    /\ err = "walking" /\ stack = << >> /\ k <= Len(nodes)
    /\ nodes[k] \in Apex
    /\ k' = k + 1 /\ seenApex' = TRUE
    /\ Call(nodes[k], 0, << >>, {})
    /\ UNCHANGED <<graph, sorts>>

(* Mutant: the loop of walkDf does not move on to the next edge.             *)
DescendAgain ==
    /\ err = "walking" /\ stack # << >> /\ Top.next <= Len(out[Top.node])
    /\ Call(out[Top.node][Top.next], Top.rank + 1, stack, path)
    /\ UNCHANGED <<graph, k, seenApex, sorts>>

(* The loop of walkDf: a recursive call for the next edge of n, and the      *)
(* return when there is none.                                                *)
Descend ==
    /\ err = "walking" /\ stack # << >> /\ Top.next <= Len(out[Top.node])
    /\ Call(out[Top.node][Top.next], Top.rank + 1,
            [stack EXCEPT ![Len(stack)].next = @ + 1], path)
    /\ UNCHANGED <<graph, k, seenApex, sorts>>

(* Mutant: walkDf returns without delete(path, n).                           *)
ReturnKeepsPath ==
    /\ err = "walking" /\ stack # << >> /\ Top.next > Len(out[Top.node])
    /\ stack' = Front(stack)
    /\ UNCHANGED <<graph, k, seenApex, path, ranks, err, sorts>>

Return ==
    /\ err = "walking" /\ stack # << >> /\ Top.next > Len(out[Top.node])
    /\ path' = path \ {Top.node}
    /\ stack' = Front(stack)
    /\ UNCHANGED <<graph, k, seenApex, ranks, err, sorts>>

(* Mutant: the sort does not keep the order of nodes with the same rank.     *)
FinishUnstable ==
    /\ err = "walking" /\ stack = << >> /\ k > Len(nodes)
    /\ IF seenApex
       THEN err' = "nil" /\ nodes' = StableSortReversing(nodes, ranks)
       ELSE err' = "noApex" /\ UNCHANGED nodes
    /\ UNCHANGED <<out, k, seenApex, stack, path, ranks, sorts>>

Finish ==
    /\ err = "walking" /\ stack = << >> /\ k > Len(nodes)
    /\ IF seenApex
       THEN err' = "nil" /\ nodes' = StableSort(nodes, ranks)
       ELSE err' = "noApex" /\ UNCHANGED nodes
    /\ UNCHANGED <<out, k, seenApex, stack, path, ranks, sorts>>

(* The caller sorts the sorted graph again.                                  *)
SortAgain ==
    /\ err = "nil" /\ nodes # << >> /\ sorts < MaxSorts
    /\ k' = 1 /\ seenApex' = FALSE
    /\ stack' = << >> /\ path' = {} /\ ranks' = [n \in Vertex |-> 0]
    /\ err' = "walking" /\ sorts' = sorts + 1
    /\ UNCHANGED graph

Next == Skip \/ Walk \/ Descend \/ Return \/ Finish \/ SortAgain

(* A call that has begun runs to its end; the caller need not call again.    *)
Spec == Init /\ [][Next]_vars /\ WF_vars(Skip \/ Walk \/ Descend \/ Return \/ Finish)

-----------------------------------------------------------------------------
TypeOK ==
    /\ nodes \in Seq(Vertex) /\ IsInjective(nodes)
    /\ out \in [Vertex -> Seq(Vertex)]
    /\ k \in 1..Len(nodes) + 1 /\ seenApex \in BOOLEAN
    /\ stack \in Seq(Frame) /\ path \subseteq Vertex
    /\ ranks \in [Vertex -> Nat]
    /\ err \in {"walking", "seen", "noApex", "nil"} /\ sorts \in Nat

(* The map path has the nodes of the active calls, each once, so that        *)
(* finding n in it means that a path of edges leads from n back to n.        *)
PathIsStack ==
    /\ path = {stack[d].node : d \in 1..Len(stack)}
    /\ \A c, d \in 1..Len(stack) : stack[c].node = stack[d].node => c = d

(* The active calls follow edges of the graph, each one deeper than its      *)
(* caller and by the edge that the caller's loop has come to; the outermost  *)
(* starts from an apex with rank 0.                                          *)
StackIsWalk ==
    \A d \in 1..Len(stack) :
        /\ stack[d].rank = d - 1
        /\ ranks[stack[d].node] >= d - 1
        /\ IF d = 1 THEN stack[d].node \in Apex
           ELSE LET caller == stack[d - 1] IN
                /\ caller.next - 1 \in 1..Len(out[caller.node])
                /\ out[caller.node][caller.next - 1] = stack[d].node

(* What the walk relies on at every call, edge and return: the invariant     *)
(* under which a node found in path is a cycle and a rank is the length of a *)
(* path that the walk has come along.                                        *)
WalkInv == TypeOK /\ PathIsStack /\ StackIsWalk

(* A set of vertices each of which has an edge into the set.                 *)
Cyclic(V) == \E S \in SUBSET V : S # {} /\ \A n \in S : targets[n] \cap S # {}

(* SortTopo reports a cycle only if there is one: always when it has seen a  *)
(* node twice, and when it has seen no apex unless a deleted node that still *)
(* has edges is what the graph's nodes hang from.                            *)
CycleIsReal ==
    /\ err = "seen" => Cyclic(Vertex)
    /\ err = "noApex" =>
          Cyclic(Vertex) \/ \E n \in Vertex \ ToSet(nodes) : out[n] # << >>

(* After a sort that succeeds, a node comes before the nodes its edges lead  *)
(* to, if it can be reached from an apex.                                    *)
Reachable ==
    {n \in Vertex : \E d \in 0..Cardinality(Vertex) : n \in Level(Apex, targets, d)}

Downstream ==
    err = "nil" =>
        \A i, j \in 1..Len(nodes) :
            nodes[i] \in Reachable /\ nodes[j] \in targets[nodes[i]] => i < j

(* The walk computes what LilGraph takes SortTopo to compute in one step.    *)
Agrees ==
    LET fails == nodes # << >> /\ (Apex = {} \/ WalkRepeats(Vertex, Apex, targets)) IN
    /\ err \in {"seen", "noApex"} => fails
    /\ err = "nil" => ~fails /\ (nodes # << >> => ranks = Rank(Vertex, Apex, targets))

(* SortTopo is idempotent: no step of a second sort changes the order.       *)
Idempotent == [][sorts > 1 => nodes' = nodes]_vars

(* Every call of SortTopo returns, however the edges of the graph run.       *)
Returns == err = "walking" ~> err # "walking"

(* What the error's text, "graph is cyclic", and the test TestCycleDetection *)
(* suggest: a graph with a cycle is not sorted.  The walk does not find a    *)
(* cycle that no apex leads to.                                              *)
EveryCycleFound == err = "nil" => ~Cyclic(ToSet(nodes))
=============================================================================
