------------------------------ MODULE DocGraph ------------------------------
(***************************************************************************)
(* What a lilgraph document means, without an order of evaluation: which    *)
(* nodes and edges it has, where each has its position from, what type and  *)
(* attributes it ends up with, and which fault of the document is reported. *)
(* Build computes it statement by statement and is checked against it.      *)
(*                                                                         *)
(* The meaning is a function of the document's mentions of nodes and of its  *)
(* steps from node to node, each at a place <<i, j, n>> in the text: item i,  *)
(* step j of it (0 before the first), part n of that.                        *)
(***************************************************************************)
EXTENDS GoSlices

CONSTANTS Id, Untyped, TypeKey, NoPos,
          Offset(_, _)  \* the offset in the text of a step of an item

Earlier(p, q) ==
    \/ p[1] < q[1]
    \/ p[1] = q[1] /\ p[2] < q[2]
    \/ p[1] = q[1] /\ p[2] = q[2] /\ p[3] < q[3]

Least(S)    == CHOOSE m \in S : \A n \in S : ~Earlier(n.at, m.at)
Greatest(S) == CHOOSE m \in S : \A n \in S : ~Earlier(m.at, n.at)

StepsOf(it) == IF it.kind = "node" THEN 0 ELSE Len(it.steps)

(* Every mention of a node; only a freestanding one is a declaration, and    *)
(* only that has a position, a type or attributes.                           *)
MentionAt(doc, i, j) ==
    LET it == doc[i] IN
    IF it.kind = "node"
    THEN [at |-> <<i, j, 0>>, id |-> it.id, type |-> it.type,
          pos |-> Offset(i, j), attrs |-> it.attrs]
    ELSE [at |-> <<i, j, 0>>, id |-> IF j = 0 THEN it.from ELSE it.steps[j].to,
          type |-> Untyped, pos |-> NoPos, attrs |-> << >>]
Mentions(doc) ==
    UNION {{MentionAt(doc, i, j) : j \in 0..StepsOf(doc[i])} : i \in 1..Len(doc)}

(* Every mention of an edge: a step leads on from where the one before ends. *)
StepAt(doc, i, j) ==
    LET s == doc[i].steps[j] IN
    [at |-> <<i, j, 0>>, key |-> <<MentionAt(doc, i, j - 1).id, s.to, s.type>>,
     pos |-> Offset(i, j), attrs |-> s.attrs]
Steps(doc) ==
    UNION {{StepAt(doc, i, j) : j \in 1..StepsOf(doc[i])} : i \in 1..Len(doc)}

OfNode(M, x) == {m \in M : m.id = x}
OfEdge(S, k) == {s \in S : s.key = k}
Declared(M)  == {m \in M : m.pos # NoPos}
Typed(M)     == {m \in M : m.type # Untyped}

(* list has the elements of S, each once, in the order of their places.      *)
InOrder(list, S, place) ==
    /\ ToSet(list) = S
    /\ \A i, j \in 1..Len(list) : i < j => Earlier(place[list[i]], place[list[j]])

NodesInOrder(nodes, M) ==
    LET ids == {m.id : m \in M}
    IN  InOrder(nodes, ids, [x \in ids |-> Least(OfNode(M, x)).at])
EdgesInOrder(edges, S) ==
    LET keys == {s.key : s \in S}
    IN  InOrder(edges, keys, [k \in keys |-> Least(OfEdge(S, k)).at])

TypeOf(M)  == IF Typed(M) = {} THEN Untyped ELSE Least(Typed(M)).type
TypePos(M) == IF Typed(M) = {} THEN NoPos ELSE Least(Typed(M)).pos
DeclPos(M) == IF Declared(M) = {} THEN NoPos ELSE Least(Declared(M)).pos

(* Every assignment to an attribute by some mentions or steps.               *)
AssignmentAt(m, n) == [at |-> <<m.at[1], m.at[2], n>>,
                       key |-> m.attrs[n].key, value |-> m.attrs[n].value]
Assignments(M) == UNION {{AssignmentAt(m, n) : n \in 1..Len(m.attrs)} : m \in M}

(* pairs lists each key once, where it is assigned first, with the value     *)
(* that is assigned last.                                                    *)
OfKey(A, x) == {a \in A : a.key = x}
KeyList(pairs) == [j \in 1..Len(pairs) |-> pairs[j].key]
AttrsMerged(pairs, A) ==
    LET keys == {a.key : a \in A} IN
    /\ InOrder(KeyList(pairs), keys, [x \in keys |-> Least(OfKey(A, x)).at])
    /\ \A j \in 1..Len(pairs) : pairs[j].value = Greatest(OfKey(A, pairs[j].key)).value

(* The nodes and edges of graph h are those that are meant by M and S: every *)
(* node that is mentioned, in the order of first mentions, with the one type,*)
(* the position of its first declaration and all attributes merged; and every*)
(* edge, each once, with the position of its first step.                     *)
NodesMeant(h, M) ==
    /\ NodesInOrder(h.nodes, M)
    /\ \A x \in Id : LET of == OfNode(M, x) IN
                     /\ h.typ[x] = TypeOf(of) /\ h.typeFromPos[x] = TypePos(of)
                     /\ h.declPos[x] = DeclPos(of)
                     /\ AttrsMerged(h.attrs[x], Assignments(of))
EdgesMeant(h, S) ==
    /\ EdgesInOrder(h.edges, S)
    /\ \A k \in ToSet(h.edges) : LET of == OfEdge(S, k) IN
                                 /\ h.edgePos[k] = Least(of).pos
                                 /\ AttrsMerged(h.edgeAttrs[k], Assignments(of))

(* The faults of a document.  At one place, a conflict of types or a loop    *)
(* counts before an attribute called 'type'.                                 *)
Retypes(M) == {m \in M : m.type # Untyped /\ Least(Typed(OfNode(M, m.id))).type # m.type}
Loops(S)   == {s \in S : s.key[1] = s.key[2]}
NamingType(M) == {m \in M : \E n \in 1..Len(m.attrs) : m.attrs[n].key \in TypeKey}
Faults(M, S) ==
    {[at |-> m.at, err |-> "ErrTypeChange"] : m \in Retypes(M)}
    \cup {[at |-> s.at, err |-> "ErrLoop"] : s \in Loops(S)}
    \cup {[at |-> <<m.at[1], m.at[2], 1>>, err |-> "ErrTypeInAttrs"] :
             m \in NamingType(M) \cup NamingType(S)}
=============================================================================
