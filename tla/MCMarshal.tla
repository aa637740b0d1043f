----------------------------- MODULE MCMarshal ------------------------------
(* Marshal on every document of at most MaxItems items, each one of a few     *)
(* that can meet in every way: redeclared nodes with and without types,       *)
(* chains that repeat an edge or run through a node twice, attributes that    *)
(* repeat a key, each of the three faults.  The graphs of the documents of at *)
(* most two of the plainer items are edited.                                  *)
EXTENDS Marshal

CONSTANTS a, b, c, T, U, k1, k2, tYPE, u, v

Kv(x, y) == [key |-> x, value |-> y]
AttrLists == {<< >>, <<Kv(k1, u)>>, <<Kv(k2, v), Kv(k1, v), Kv(k2, u)>>}

NodeItem(x, t, as) == [kind |-> "node", id |-> x, type |-> t, attrs |-> as]
To(x, t, as)       == [to |-> x, type |-> t, attrs |-> as]
Chain(x, steps)    == [kind |-> "chain", from |-> x, steps |-> steps]

PlainItems ==
    {NodeItem(a, Untyped, << >>), NodeItem(b, T, << >>),
     NodeItem(b, Untyped, <<Kv(k2, v), Kv(k1, u)>>),
     Chain(a, <<To(b, Untyped, << >>)>>),
     Chain(a, <<To(b, T, <<Kv(k1, u), Kv(k2, u)>>)>>),
     Chain(b, <<To(a, Untyped, << >>), To(c, T, <<Kv(k1, v)>>), To(a, T, << >>)>>),
     Chain(c, <<To(b, Untyped, <<Kv(k2, v)>>)>>)}

SomeItems ==
    {NodeItem(x, t, as) : x \in {a, b}, t \in {Untyped, T, U}, as \in AttrLists}
    \cup {NodeItem(a, T, <<Kv(tYPE, u)>>)}
    \cup {Chain(a, <<To(b, t, as)>>) : t \in {Untyped, T}, as \in AttrLists}
    \cup {Chain(b, <<To(a, Untyped, << >>), To(c, T, <<Kv(k1, v)>>), To(b, T, << >>)>>),
          Chain(c, <<To(b, Untyped, << >>), To(c, Untyped, << >>), To(b, Untyped, <<Kv(k1, u)>>)>>),
          Chain(a, <<To(c, Untyped, <<Kv(k1, u)>>), To(c, U, <<Kv(tYPE, v)>>)>>),
          Chain(a, <<To(b, Untyped, <<Kv(k2, u)>>), To(c, Untyped, <<Kv(k2, v)>>)>>),
          Chain(a, <<To(b, T, <<Kv(tYPE, u)>>)>>)}

AllItems  == SomeItems \cup PlainItems
ShortDocs == UNION {[1..n -> PlainItems] : n \in 0..2}

SomeNodes == {NodeItem(a, T, << >>), NodeItem(c, Untyped, << >>),
              NodeItem(c, Untyped, <<Kv(k1, u), Kv(k2, v)>>)}
OldA      == <<a, 1>>
OldNodes  == {OldA}
SomeEdges == {<<a, b, Untyped>>, <<c, a, T>>, <<OldA, b, Untyped>>, <<OldA, a, T>>}
=============================================================================
