------------------------------- MODULE Build --------------------------------
(***************************************************************************)
(* buildFromAst: how the statements of a document, in order, become a       *)
(* graph, or the first error.  Nodes of a graph are named by their ids and   *)
(* edges by their identity: LilGraph's NodesIndexed and EdgesWired make     *)
(* these as good as the pointers.  Only nodes that have been deleted, which *)
(* callers of Marshal may keep, need names of their own.                    *)
(*                                                                         *)
(* An AST item is a record.  A node declaration has an id, a type and       *)
(* attrs; an edge chain has a from and a sequence of steps, each with a to, *)
(* a type and attrs.  Positions are not written out: what matters of a      *)
(* token.Pos is its order in the text, which Offset takes from the place of *)
(* the item (its id) or the step (its arrow) in the document.               *)
(***************************************************************************)
EXTENDS AttrList

CONSTANTS Id, Type, Untyped,   \* as in LilGraph
          Gone,                \* pointers to deleted nodes: <<x, n>> to one with the id x
          Key, TypeKey, Value, \* as in Attrs
          NoPos,               \* the nil *token.Pos
          Items,               \* the items an AST may have
          MaxItems,            \* bound: how many
          Room                 \* bound: a chain has fewer steps

(* ast.Attrs, and what ast.Node and ast.EdgeChain hold.                      *)
Pair      == [key : Key, value : Value]
AstNode   == [kind : {"node"}, id : Id, type : Type, attrs : Seq(Pair)]
EdgeStep  == [to : Id, type : Type, attrs : Seq(Pair)]
EdgeChain == [kind : {"chain"}, from : Id, steps : Seq(EdgeStep)]

ASSUME BuildAssumption ==
    /\ Untyped \in Type /\ TypeKey \subseteq Key
    /\ NoPos \notin Nat /\ NoPos \notin Id
    /\ Gone \subseteq Id \X Nat /\ Gone \cap Id = {}
    /\ MaxItems \in Nat /\ Room \in Nat /\ Room >= 2
    /\ Items \subseteq AstNode \cup EdgeChain
    /\ \A it \in Items : it.kind = "chain" => Len(it.steps) < Room

(* The Pos.Offset of item i (j = 0) or of step j of it.                      *)
Offset(i, j) == Room * i + j

(* What an edge may join: nodes of the graph, and deleted ones.               *)
Ptr     == Id \cup Gone
EdgeKey == Ptr \X Ptr \X Type

EmptyGraph ==
    [nodes |-> << >>, typ |-> [x \in Id |-> Untyped],
     declPos |-> [x \in Id |-> NoPos], typeFromPos |-> [x \in Id |-> NoPos],
     attrs |-> [x \in Id |-> << >>],
     edges |-> << >>, edgePos |-> [k \in EdgeKey |-> NoPos],
     edgeAttrs |-> [k \in EdgeKey |-> << >>]]

HasNode(h, x) == x \in ToSet(h.nodes)
HasEdge(h, k) == k \in ToSet(h.edges)

RetypesNode(h, x, t) == HasNode(h, x) /\ t # Untyped /\ h.typ[x] \notin {Untyped, t}

(* upsertNodeFromAst, when AddNode does not fail.                            *)
Upsert(h, x, pos, t) ==
    [h EXCEPT !.nodes = IF HasNode(h, x) THEN @ ELSE Append(@, x),
              !.typ[x] = IF t = Untyped THEN @ ELSE t,
              !.declPos[x] = IF @ = NoPos THEN pos ELSE @,
              !.typeFromPos[x] = IF @ = NoPos /\ t # Untyped THEN pos ELSE @]

(* AddEdge, and the position of an edge that is new.                         *)
Link(h, k, pos) ==
    IF HasEdge(h, k) THEN h
    ELSE [h EXCEPT !.edges = Append(@, k), !.edgePos[k] = pos]

(* updateAttrs, and when it fails.                                           *)
UpdateAttrs(pairs, astAttrs) ==
    LET upTo[n \in 0..Len(astAttrs)] ==
            IF n = 0 THEN pairs
            ELSE WithAttr(upTo[n - 1], astAttrs[n].key, astAttrs[n].value)
    IN  upTo[Len(astAttrs)]
NamesType(astAttrs) == \E n \in 1..Len(astAttrs) : astAttrs[n].key \in TypeKey

-----------------------------------------------------------------------------
VARIABLES
    doc,         \* the AST: a sequence of items
    item, step,  \* the loops over the items, and over the steps of a chain
    source,      \* the variable from of a chain: where its next edge starts
    g,           \* the graph so far
    err          \* "building", "nil" when it is done, or the error returned

vars == <<doc, item, step, source, g, err>>

Fail(e) == err' = e /\ UNCHANGED <<doc, item, step, source, g>>

AtItem(kind) == err = "building" /\ item <= Len(doc) /\ doc[item].kind = kind

DeclareNode ==
    LET n == doc[item] IN
    /\ AtItem("node")
    /\ ~RetypesNode(g, n.id, n.type) /\ ~NamesType(n.attrs)
    /\ g' = [Upsert(g, n.id, Offset(item, 0), n.type)
                EXCEPT !.attrs[n.id] = UpdateAttrs(@, n.attrs)]
    /\ item' = item + 1
    /\ UNCHANGED <<doc, step, source, err>>

RejectNode ==
    LET n == doc[item] IN
    /\ AtItem("node")
    /\ \/ RetypesNode(g, n.id, n.type) /\ Fail("ErrTypeChange")
       \/ ~RetypesNode(g, n.id, n.type) /\ NamesType(n.attrs) /\ Fail("ErrTypeInAttrs")

ChainFrom ==
    /\ AtItem("chain") /\ step = 0
    /\ g' = Upsert(g, doc[item].from, NoPos, Untyped)
    /\ source' = doc[item].from
    /\ step' = 1
    /\ UNCHANGED <<doc, item, err>>

AtStep == AtItem("chain") /\ step \in 1..Len(doc[item].steps)

(* Mutant: every edge of a chain starts at the head of the chain.            *)
ChainStepFromHead ==
    LET s == doc[item].steps[step]
        k == <<doc[item].from, s.to, s.type>>
    IN  /\ AtStep /\ doc[item].from # s.to /\ ~NamesType(s.attrs)
        /\ g' = [Link(Upsert(g, s.to, NoPos, Untyped), k, Offset(item, step))
                    EXCEPT !.edgeAttrs[k] = UpdateAttrs(@, s.attrs)]
        /\ source' = s.to /\ step' = step + 1
        /\ UNCHANGED <<doc, item, err>>

ChainStep ==
    LET s == doc[item].steps[step]
        k == <<source, s.to, s.type>>
    IN  /\ AtStep /\ source # s.to /\ ~NamesType(s.attrs)
        /\ g' = [Link(Upsert(g, s.to, NoPos, Untyped), k, Offset(item, step))
                    EXCEPT !.edgeAttrs[k] = UpdateAttrs(@, s.attrs)]
        /\ source' = s.to /\ step' = step + 1
        /\ UNCHANGED <<doc, item, err>>

(* Mutant: the attributes of a step are looked at before its ends.           *)
RejectStepAttrsFirst ==
    LET s == doc[item].steps[step] IN
    /\ AtStep
    /\ \/ source = s.to /\ ~NamesType(s.attrs) /\ Fail("ErrLoop")
       \/ NamesType(s.attrs) /\ Fail("ErrTypeInAttrs")

RejectStep ==
    LET s == doc[item].steps[step] IN
    /\ AtStep
    /\ \/ source = s.to /\ Fail("ErrLoop")
       \/ source # s.to /\ NamesType(s.attrs) /\ Fail("ErrTypeInAttrs")

ChainEnd ==
    /\ AtItem("chain") /\ step > Len(doc[item].steps)
    /\ item' = item + 1 /\ step' = 0
    /\ UNCHANGED <<doc, source, g, err>>

Return ==
    /\ err = "building" /\ item > Len(doc)
    /\ err' = "nil"
    /\ UNCHANGED <<doc, item, step, source, g>>

Step == DeclareNode \/ RejectNode \/ ChainFrom \/ ChainStep \/ RejectStep \/ ChainEnd \/ Return

Init ==
    /\ \E n \in 0..MaxItems : doc \in [1..n -> Items]
    /\ item = 1 /\ step = 0 /\ source = NoPos
    /\ g = EmptyGraph /\ err = "building"

-----------------------------------------------------------------------------
INSTANCE DocGraph

(* A document that is accepted becomes the graph that it means.              *)
NodesMerged == err = "nil" => NodesMeant(g, Mentions(doc))
EdgesMerged == err = "nil" => EdgesMeant(g, Steps(doc))

(* A document is refused exactly when it has a fault, with the error of the  *)
(* fault that comes first in the text.                                       *)
FirstFault ==
    LET faults == Faults(Mentions(doc), Steps(doc)) IN
    err # "building" => err = IF faults = {} THEN "nil" ELSE Least(faults).err
=============================================================================
