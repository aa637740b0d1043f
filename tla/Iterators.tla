----------------------------- MODULE Iterators -----------------------------
(***************************************************************************)
(* Loops over Nodes(), Edges(), EdgesFrom(), EdgesTo() and FindEdges()      *)
(* whose body calls the methods of the graph.                               *)
(*                                                                         *)
(* range keeps the header of the slice it was given: an array and a length. *)
(* The calls go on working on the same array: slices.Delete, DeleteFunc and *)
(* SortStableFunc in place, append as long as there is room in it.  Behind   *)
(* the length of the slice the array holds nil, because arrays are made     *)
(* zeroed and the slices package clears what it vacates; so a slice and the  *)
(* room of its array say all about the array, until append moves to a new    *)
(* array, or DeleteNode drops the slice, and leaves the loop the old one.    *)
(***************************************************************************)
EXTENDS LilGraph

CONSTANTS
    StartNodes,   \* g.nodes when the loop begins, as a sequence of <<ptr, id>>
    StartEdges,   \* contents g.edges may have then: sequences of
                  \*   <<ptr, from, to, type>>
    MaxCalls,     \* bound: how many calls the loop body makes altogether
    MaxRoom       \* bound: how much longer than the slice an array is

StartPtrs == {StartNodes[j][1] : j \in 1..Len(StartNodes)}

(* Nodes with different ids, and edges that differ in an endpoint or the      *)
(* type and join two of these nodes: what AddNode and AddEdge make.          *)
ASSUME StartAssumption ==
    /\ StartNodes \in Seq(NodePtr \X ValidId)
    /\ \A j, k \in 1..Len(StartNodes) :
          StartNodes[j][1] = StartNodes[k][1] \/ StartNodes[j][2] = StartNodes[k][2] => j = k
    /\ StartEdges \subseteq Seq(EdgePtr \X StartPtrs \X StartPtrs \X Type)
    /\ \A es \in StartEdges : \A j, k \in 1..Len(es) :
          /\ es[j][2] # es[j][3]
          /\ \/ es[j][1] = es[k][1]
             \/ es[j][2] = es[k][2] /\ es[j][3] = es[k][3] /\ es[j][4] = es[k][4]
             => j = k
    /\ MaxCalls \in Nat /\ MaxRoom \in Nat

VARIABLES
    over,         \* the slice the loop is over
    size, next,   \* the length in the loop's header, and its index
    room,         \* the length of the array
    shared,       \* whether the graph's slice is still in that array
    array,        \* the array if it is not
    state,        \* "before", "looping", "done", or "panicked"
    calls,        \* how many calls the body has made
    start,        \* history: what the loop was to yield when it began,
    seen,         \*   what the loop has yielded,
    did,          \*   what kinds of things the body has done to the slice,
    behind,       \*   how many elements it has deleted behind the index,
    emptied,      \*   whether it has deleted any before the loop was at its end,
    stale         \*   whether something was yielded after its deletion

loop    == <<over, size, next, room, shared, array, state>>
history == <<start, seen, did, behind, emptied, stale>>
allVars == <<vars, loop, calls, history>>

(* The slices that the iterators of the API range over.  FindEdges(f, t)     *)
(* ranges over f.edgesFrom and passes over the edges to other nodes.         *)
Slices == [of : {"nodes", "edges"}] \cup [of : {"out", "in"}, node : NodePtr]
              \cup [of : {"find"}, node : NodePtr, goal : NodePtr]

Content(s) == CASE s.of = "nodes" -> nodes
                [] s.of = "edges" -> edges
                [] s.of \in {"out", "find"} -> edgesFrom[s.node]
                [] s.of = "in" -> edgesTo[s.node]

(* What FindEdges passes on, of what it finds in its slice.                  *)
Wants(s, x) == s.of = "find" => to[x] = s.goal

(* What is in the array that the loop has, at index j.                       *)
Slot(j) == IF ~shared THEN array[j]
           ELSE IF j <= Len(Content(over)) THEN Content(over)[j] ELSE Nil

-----------------------------------------------------------------------------
IdOf(n)   == StartNodes[CHOOSE j \in 1..Len(StartNodes) : StartNodes[j][1] = n][2]
PtrsOf(es)   == [j \in 1..Len(es) |-> es[j][1]]
At(es, n, k) == KeepAt(PtrsOf(es), {j \in 1..Len(es) : es[j][k] = n})
End(es, e, k) == IF \E j \in 1..Len(es) : es[j][1] = e
                 THEN es[CHOOSE j \in 1..Len(es) : es[j][1] = e][k] ELSE Nil

(* A graph as AddNode and AddEdge have made it.                              *)
StartGraph(es) ==
    /\ nodes = [j \in 1..Len(StartNodes) |-> StartNodes[j][1]]
    /\ edges = PtrsOf(es)
    /\ id = [n \in NodePtr |-> IF n \in StartPtrs THEN IdOf(n) ELSE Nil]
    /\ typ = [n \in NodePtr |-> Untyped]
    /\ nodesById = [x \in Id |-> IF \E n \in StartPtrs : id[n] = x
                                 THEN CHOOSE n \in StartPtrs : id[n] = x ELSE Nil]
    /\ from = [e \in EdgePtr |-> End(es, e, 2)]
    /\ to = [e \in EdgePtr |-> End(es, e, 3)]
    /\ edgeTyp = [e \in EdgePtr |-> End(es, e, 4)]
    /\ edgesById = [k \in EdgeIdentity |->
                       IF \E e \in ToSet(edges) : k = <<from[e], to[e], edgeTyp[e]>>
                       THEN CHOOSE e \in ToSet(edges) : k = <<from[e], to[e], edgeTyp[e]>>
                       ELSE Nil]
    /\ edgesFrom = [n \in NodePtr |-> At(es, n, 2)]
    /\ edgesTo = [n \in NodePtr |-> At(es, n, 3)]
    /\ pc = "idle" /\ cur = Nil /\ i = 1 /\ ret = "none"

IterInit ==
    /\ \E es \in StartEdges : StartGraph(es)
    /\ over = [of |-> "nodes"] /\ size = 0 /\ next = 1 /\ room = 0
    /\ shared = TRUE /\ array = << >> /\ state = "before" /\ calls = 0
    /\ start = << >> /\ seen = << >> /\ did = {} /\ behind = 0
    /\ emptied = FALSE /\ stale = FALSE

(* The call of Nodes() or its like; FindEdges' slice is taken by its loop.    *)
(* How long an array is, is for append to decide.                           *)
Begin(s) ==
    /\ state = "before" /\ state' = "looping"
    /\ over' = s /\ size' = Len(Content(s))
    /\ room' \in Len(Content(s))..Len(Content(s)) + MaxRoom
    /\ start' = KeepAt(Content(s), {j \in 1..Len(Content(s)) : Wants(s, Content(s)[j])})
    /\ UNCHANGED <<vars, next, shared, array, calls, seen, did, behind, emptied, stale>>

(* Mutant: FindEdges passes over nils.                                       *)
StopsNilSafe == {j \in next..size : IF Slot(j) = Nil THEN over.of # "find"
                                    ELSE Wants(over, Slot(j))}

(* Mutant: a loop that looks at the length of the slice each time.           *)
StopsLive == {j \in next..(IF shared THEN Len(Content(over)) ELSE size) :
                 Slot(j) = Nil \/ Wants(over, Slot(j))}

(* Where the loop stops next: at every element, a nil too; but FindEdges      *)
(* looks at the end of each edge first.                                      *)
Stops == {j \in next..size : Slot(j) = Nil \/ Wants(over, Slot(j))}

(* The loop goes on to its next element, and the body gets it.               *)
Yield ==
    /\ state = "looping" /\ pc = "idle" /\ Stops # {}
    /\ LET x == Slot(Min(Stops)) IN
          /\ next' = Min(Stops) + 1
          /\ IF over.of = "find" /\ x = Nil
             THEN state' = "panicked" /\ UNCHANGED <<seen, stale>>
             ELSE /\ seen' = Append(seen, x)
                  /\ stale' = (stale \/ x \notin ToSet(Content(over)) \cup {Nil})
                  /\ UNCHANGED state
    /\ UNCHANGED <<vars, over, size, room, shared, array, calls, start, did,
                   behind, emptied>>

Finish ==
    /\ state = "looping" /\ pc = "idle" /\ Stops = {}
    /\ state' = "done"
    /\ UNCHANGED <<vars, over, size, next, room, shared, array, calls, history>>

(* The graph's slice leaves the array that the loop has: append finds no      *)
(* room, or DeleteNode ends with n.edgesFrom = nil and n.edgesTo = nil.       *)
Dropped == /\ pc = "purgeTo" /\ pc' = "idle"
           /\ over.of \in {"out", "in", "find"} /\ over.node = cur
Outgrown == Len(Content(over)') > room

(* Mutant: elements are deleted by making a new slice of the others.          *)
LeavesOnDelete == Dropped \/ Len(Content(over)') # Len(Content(over))

Leaves == Dropped \/ Outgrown

Removed == {j \in 1..Len(Content(over)) :
               Content(over)[j] # Nil /\ Content(over)[j] \notin ToSet(Content(over)')}

(* What a step of a method that the body calls does to the array and counts   *)
(* as.                                                                       *)
Happens ==
    /\ shared' = (shared /\ ~Leaves)
    /\ array' = IF shared /\ Leaves THEN [j \in 1..size |-> Slot(j)] ELSE array
    /\ did' = did
          \cup {k \in {"add"} : Len(Content(over)') > Len(Content(over))}
          \cup {k \in {"delete"} : Removed # {}}
          \cup {k \in {"sort"} : ret' = "sorted" /\ over.of = "nodes"}
    /\ behind' = behind + Cardinality({j \in Removed : j < next})
    /\ emptied' = (emptied \/ (Removed # {} /\ next <= size))

(* The body calls a method; DeleteNode takes several steps.                   *)
Body ==
    /\ state = "looping" /\ (over.of = "find" => seen # << >>)
    /\ IF pc = "idle" THEN calls < MaxCalls /\ calls' = calls + 1 ELSE UNCHANGED calls
    /\ UNCHANGED <<over, size, next, room, state, start, seen, stale>>
    /\ Next
    /\ Happens

IterNext == (\E s \in Slices : Begin(s)) \/ Yield \/ Finish \/ Body
IterSpec == IterInit /\ [][IterNext]_allVars

-----------------------------------------------------------------------------
Ended == state \in {"done", "panicked"}

(* A body that only adds to the graph does not change the loop: it goes over  *)
(* what there was when it began, once, in order, and comes to its end.       *)
AddsAreUnseen ==
    did \subseteq {"add"} =>
        /\ IsPrefix(seen, start)
        /\ Ended => state = "done" /\ seen = start

(* Without a sort in its body, no loop comes to an element twice, whatever    *)
(* else the body deletes and adds.                                           *)
NoRepeats ==
    "sort" \notin did =>
        \A j, k \in 1..Len(seen) : seen[j] = seen[k] => j = k \/ seen[j] = Nil

(* A loop without a sort in its body passes over an element that stays in the *)
(* graph only if the body has deleted one that the loop had left behind       *)
(* (usually the one it was given), and over no more than these.              *)
Missed == (ToSet(start) \cap ToSet(Content(over))) \ ToSet(seen)
MissedAreCounted ==
    state = "done" /\ "sort" \notin did => Cardinality(Missed) <= behind

(* The body is given a nil only if it has deleted something, and a deleted    *)
(* element only if it has both added and deleted something: as long as append *)
(* does not move the slice, what is deleted cannot turn up.                  *)
YieldsExplained ==
    /\ Nil \in ToSet(seen) => "delete" \in did
    /\ stale => {"add", "delete"} \subseteq did

(* FindEdges does not look whether an edge is nil.  A loop over it whose body *)
(* deletes an edge at its node must stop there, or it panics, unless an added *)
(* edge has taken the place; and it panics for no other reason.               *)
FindEdgesPanics ==
    over.of = "find" =>
        /\ state = "panicked" => emptied
        /\ state = "done" /\ "add" \notin did => ~emptied
=============================================================================
