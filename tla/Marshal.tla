------------------------------ MODULE Marshal -------------------------------
(***************************************************************************)
(* MarshalText, in the life of a graph: it is built from a document, edited *)
(* through its methods, written out as text and parsed again.  Text is the  *)
(* document that it reads back as, one item for each line that marshalText  *)
(* writes; that a line does read back as its item is the part of Pipeline.   *)
(* Callers may keep pointers to nodes that they have deleted, and AddEdge    *)
(* takes these like any others: the line of such an edge has the ids that    *)
(* its ends had, and perhaps the graph has a new node with this id.          *)
(***************************************************************************)
EXTENDS Build

CONSTANTS EditedDocs,  \* bound: the documents whose graphs are edited
          MaxEdits,    \* bound: how many edits before the text is written
          NodeItems,   \* the AddNode calls of the editing caller, as items
          EdgeKeys,    \* the AddEdge calls, with nodes of the graph and deleted ones
          NoText

ASSUME MarshalAssumption ==
    /\ MaxEdits \in Nat /\ IsFiniteSet(Id)
    /\ \A n \in NodeItems : n \in AstNode /\ ~NamesType(n.attrs)
    /\ EdgeKeys \subseteq EdgeKey

VARIABLES
    edits,     \* how many edits since the last text
    text,      \* what MarshalText has returned, NoText before the first call
    written,   \* the graph it was called on
    dead,      \* the pointers to deleted nodes that the caller has kept
    stale      \* the keys that DeleteNode has left in edgesById

keptVars == <<dead, stale>>
allVars  == <<vars, edits, text, written, keptVars>>
doneVars == <<item, step, source, err>>

EditedTo(h) == /\ err = "nil" /\ edits < MaxEdits /\ doc \in EditedDocs
               /\ g' = h /\ edits' = edits + 1
               /\ UNCHANGED <<doc, doneVars, text, written>>
Edited(h)   == EditedTo(h) /\ UNCHANGED keptVars

(* AddNode, then SetAttr on the node it returned.                            *)
EditAddNode(n) ==
    /\ ~RetypesNode(g, n.id, n.type)
    /\ Edited([g EXCEPT !.nodes = IF HasNode(g, n.id) THEN @ ELSE Append(@, n.id),
                        !.typ[n.id] = IF n.type = Untyped THEN @ ELSE n.type,
                        !.attrs[n.id] = UpdateAttrs(@, n.attrs)])

(* AddEdge between any two nodes that the caller has pointers to, then        *)
(* SetAttr.  Behind a stale key is an edge that is not in the graph.         *)
EditAddEdge(k, attrs) ==
    /\ {k[1], k[2]} \subseteq ToSet(g.nodes) \cup dead /\ k[1] # k[2]
    /\ Edited(IF k \in stale THEN g
              ELSE [Link(g, k, NoPos) EXCEPT !.edgeAttrs[k] = UpdateAttrs(@, attrs)])

(* What is left of g without some of its edges.                              *)
Without(h, gone) ==
    [h EXCEPT !.edges = KeepAt(@, {j \in 1..Len(@) : @[j] \notin gone}),
              !.edgePos = [k \in EdgeKey |-> IF k \in gone THEN NoPos ELSE @[k]],
              !.edgeAttrs = [k \in EdgeKey |-> IF k \in gone THEN << >> ELSE @[k]]]

EditDeleteEdge(k) == HasEdge(g, k) /\ Edited(Without(g, {k}))

(* Where keys of edges at node x are after x has become d.                    *)
Renamed(k, x, d) ==
    <<IF k[1] = x THEN d ELSE k[1], IF k[2] = x THEN d ELSE k[2], k[3]>>

(* The caller keeps a pointer to the node, or lets go of it.  The keys of its  *)
(* edges stay in edgesById, but without the pointer nobody can ask for them.  *)
EditDeleteNode(x, keep) ==
    LET mine == {k \in ToSet(g.edges) : x \in {k[1], k[2]}}
        left == stale \cup mine
    IN  /\ HasNode(g, x)
        /\ EditedTo([Without(g, mine)
                       EXCEPT !.nodes = DeleteFirst(@, x), !.typ[x] = Untyped,
                              !.attrs[x] = << >>,
                              !.declPos[x] = NoPos, !.typeFromPos[x] = NoPos])
        /\ keep \subseteq {d \in Gone \ dead : d[1] = x} /\ dead' = dead \cup keep
        /\ stale' = {k \in left : x \notin {k[1], k[2]}}
                        \cup {Renamed(k, x, d) : k \in left, d \in keep}

(* DeleteAttr on a node.                                                     *)
EditDeleteAttr(x, key) ==
    /\ HasNode(g, x) /\ Places(g.attrs[x], key) # {}
    /\ Edited([g EXCEPT !.attrs[x] = DeleteFirst(@, @[FirstPlace(@, key)])])

(* SortTopo reorders g.nodes; here it may do so in any way.                  *)
EditSort == \E s \in SetToSeqs(ToSet(g.nodes)) : Edited([g EXCEPT !.nodes = s])

-----------------------------------------------------------------------------
(* inPrintOrder.  A node whose declaration would say nothing is left out.     *)
Linked(h, x) == \E k \in ToSet(h.edges) : x \in {k[1], k[2]}

(* Mutant: inPrintOrder leaves out nodes that nothing else mentions.          *)
ImpliedEvenAlone(h, x) ==
    h.attrs[x] = << >> /\ h.typ[x] = Untyped /\ h.declPos[x] = NoPos

Implied(h, x) ==
    /\ h.attrs[x] = << >> /\ h.typ[x] = Untyped /\ h.declPos[x] = NoPos
    /\ Linked(h, x)

PrintItems(h) ==
    [j \in 1..Len(h.nodes) |-> <<"node", h.nodes[j]>>]
        \o [j \in 1..Len(h.edges) |-> <<"edge", h.edges[j]>>]
OffsetOf(h, it) ==
    IF it[1] = "node" THEN IF h.declPos[it[2]] = NoPos THEN -1 ELSE h.declPos[it[2]]
    ELSE IF h.edgePos[it[2]] = NoPos THEN -2 ELSE h.edgePos[it[2]]

(* Greater than every offset.                                                 *)
Beyond(h) == 1 + Max({0} \cup {OffsetOf(h, it) : it \in ToSet(PrintItems(h))})

(* Mutant: inPrintOrder compares offsets as numbers.                          *)
SortKeyPlain(h, it) == OffsetOf(h, it)

(* The comparison of inPrintOrder, as a number to sort by: new items come     *)
(* after all the others, nodes (-1) before edges (-2).                        *)
SortKey(h, it) ==
    LET offset == OffsetOf(h, it)
    IN  IF offset < 0 THEN Beyond(h) - offset ELSE offset

(* The items that get a line, in print order.                                 *)
Kept(h) ==
    LET items == PrintItems(h)
    IN  KeepAt(items, {j \in 1..Len(items) :
                          items[j][1] = "edge" \/ ~Implied(h, items[j][2])})
InPrintOrder(h) ==
    StableSort(Kept(h), [it \in ToSet(Kept(h)) |-> SortKey(h, it)])

(* The id field of a node.                                                    *)
IdOf(p)  == IF p \in Id THEN p ELSE p[1]
Named(k) == <<IdOf(k[1]), IdOf(k[2]), k[3]>>

(* Mutant: the attributes of an edge are written from the last to the first.  *)
LineReversed(h, it) ==
    IF it[1] = "node"
    THEN [kind |-> "node", id |-> it[2], type |-> h.typ[it[2]], attrs |-> h.attrs[it[2]]]
    ELSE [kind |-> "chain", from |-> IdOf(it[2][1]),
          steps |-> <<[to |-> IdOf(it[2][2]), type |-> it[2][3],
                       attrs |-> Reverse(h.edgeAttrs[it[2]])]>>]

(* marshalText: one line for each item.                                       *)
Line(h, it) ==
    IF it[1] = "node"
    THEN [kind |-> "node", id |-> it[2], type |-> h.typ[it[2]], attrs |-> h.attrs[it[2]]]
    ELSE [kind |-> "chain", from |-> IdOf(it[2][1]),
          steps |-> <<[to |-> IdOf(it[2][2]), type |-> it[2][3],
                       attrs |-> h.edgeAttrs[it[2]]]>>]

MarshalText(h) ==
    LET items == InPrintOrder(h) IN [j \in 1..Len(items) |-> Line(h, items[j])]

(* The caller writes the graph out and parses what it has written.            *)
Rewrite ==
    /\ err = "nil"
    /\ text' = MarshalText(g) /\ written' = g
    /\ doc' = text'
    /\ item' = 1 /\ step' = 0 /\ source' = NoPos
    /\ g' = EmptyGraph /\ err' = "building" /\ edits' = MaxEdits
    /\ dead' = {} /\ stale' = {}

Edit ==
    \/ \E n \in NodeItems : EditAddNode(n)
    \/ \E k \in EdgeKeys, attrs \in {n.attrs : n \in NodeItems} : EditAddEdge(k, attrs)
    \/ \E k \in EdgeKey : EditDeleteEdge(k)
    \/ \E x \in Id, keep \in {{}} \cup {{d} : d \in Gone} : EditDeleteNode(x, keep)
    \/ \E x \in Id, key \in Key : EditDeleteAttr(x, key)
    \/ EditSort

Next ==
    \/ Step /\ UNCHANGED <<edits, text, written, keptVars>>
    \/ Edit
    \/ Rewrite

MarshalInit == Init /\ edits = 0 /\ text = NoText /\ written = EmptyGraph
                    /\ dead = {} /\ stale = {}
MarshalSpec == MarshalInit /\ [][Next]_allVars

-----------------------------------------------------------------------------
(* The document, the one first parsed or the text written, has become the    *)
(* graph that it means (NodesMerged and EdgesMerged in Build).               *)
GraphAsMeant == edits = 0 \/ text # NoText => NodesMerged /\ EdgesMerged

(* Edges that the text cannot tell from others, or that it says lead back to  *)
(* where they come from: this takes an edge at a deleted node, and an edge to *)
(* or at the node that has its id now.                                       *)
Clash(h, k) == \E l \in ToSet(h.edges) : l # k /\ Named(l) = Named(k)
Clashes(h)  == \E k \in ToSet(h.edges) : Clash(h, k)
LoopByName(h) == \E k \in ToSet(h.edges) : IdOf(k[1]) = IdOf(k[2])

(* The nodes of h and those that its edges mention, the edges by the ids of   *)
(* their ends, and the same types and attributes in the same order.          *)
ReadsAs(f, h) ==
    /\ ToSet(f.nodes) = ToSet(h.nodes) \cup UNION {{IdOf(k[1]), IdOf(k[2])} : k \in ToSet(h.edges)}
    /\ f.typ = h.typ /\ f.attrs = h.attrs
    /\ ToSet(f.edges) = {Named(k) : k \in ToSet(h.edges)}
    /\ \A k \in ToSet(h.edges) : Clash(h, k) \/ f.edgeAttrs[Named(k)] = h.edgeAttrs[k]

(* Whatever edits have been made, what MarshalText writes can be parsed (no   *)
(* conflict of types, no attribute called 'type', and ErrLoop only for an     *)
(* edge between a deleted node and another with its id) and gives the same    *)
(* nodes and edges; a node that was left out comes back through the edges     *)
(* that mention it.                                                          *)
RoundTrip ==
    text # NoText /\ err # "building" =>
        IF LoopByName(written) THEN err = "ErrLoop" ELSE err = "nil" /\ ReadsAs(g, written)

(* The format is canonical: written out again, the graph that was parsed     *)
(* from a text gives that text, unless two of its lines are for one edge.    *)
Canonical == [][text # NoText /\ ~Clashes(written) => text' = text]_allVars

(* The comment on inPrintOrder: what was in the document keeps the order of   *)
(* its first declarations there; after it come the new nodes and then the    *)
(* new edges, each in the order in which the graph lists them.  (Two edges    *)
(* that the text cannot tell apart may each be meant by a line of theirs.)    *)
Index(list, x) == CHOOSE j \in 1..Len(list) : list[j] = x
PlaceOfNode(x) ==
    IF g.declPos[x] # NoPos THEN DeclPos(OfNode(Mentions(doc), x))
    ELSE Beyond(g) + Index(g.nodes, x)
PlaceOfEdge(k) ==
    IF g.edgePos[k] # NoPos THEN Least(OfEdge(Steps(doc), k)).pos
    ELSE Beyond(g) + Len(g.nodes) + Index(g.edges, k)
PlacesOf(line) ==
    IF line.kind = "node" THEN {PlaceOfNode(line.id)}
    ELSE {PlaceOfEdge(k) : k \in {l \in ToSet(g.edges) :
              Named(l) = <<line.from, line.steps[1].to, line.steps[1].type>>}}
OldLinesFirst ==
    [][text' # text =>
        \A i, j \in 1..Len(text') :
            i < j => \E p \in PlacesOf(text'[i]), q \in PlacesOf(text'[j]) : p < q]_allVars
=============================================================================
