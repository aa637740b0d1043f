----------------------------- MODULE MCPipeline -----------------------------
(* Every short text over the runes that the forms of nodes and edges are made *)
(* of, over those of comments, and over all runes; and the lines of the nodes *)
(* and edges with every short type, every short key, or one or two values.    *)
EXTENDS Pipeline

CONSTANTS MaxTextLen,  \* bounds: of a text over a few runes
          MaxLen,      \* of a value over a few runes
          MaxAnyLen    \* of a text, a type, a key or a value over all runes

Words(runes, max) == UNION {[1..n -> runes] : n \in 0..max}

SomeAlphabets ==
    {[runes |-> {"letter", "digit", "[", "]", "=", ";", "-", ">"}, len |-> MaxTextLen],
     [runes |-> {"letter", "[", "]", "#", "/", "*", "nl"}, len |-> MaxTextLen],
     [runes |-> Rune, len |-> MaxAnyLen]}

Key(x) == <<"letter">> \o [j \in 1..x |-> "digit"]
Kv(k, v) == [key |-> k, value |-> v]
Item(kind, t, attrs) == [kind |-> kind, type |-> t, attrs |-> attrs]

FewValues == {<< >>, <<"letter">>, <<"quote">>, <<"letter", "space">>}

SomeItems ==
    UNION {
      {Item(kind, t, as) : t \in Words(Rune, MaxAnyLen),
                              as \in {<< >>, <<Kv(Key(0), Key(1))>>}}
      \cup {Item(kind, t, <<Kv(key, v)>>) : t \in {<< >>, Key(0)},
                key \in Words(Rune, MaxAnyLen), v \in FewValues}
      \cup {Item(kind, << >>, <<Kv(Key(0), v)>>) :
                v \in Words({"quote", "backslash", "nl", "letter", "digit"}, MaxLen)
                          \cup Words(Rune, MaxAnyLen)}
      \cup {Item(kind, Key(0), <<Kv(Key(0), v), Kv(Key(1), w)>>) :
                v, w \in Words({"quote", "backslash", "nl", "space", "letter", ",", "="}, MaxAnyLen)}
      : kind \in {"node", "edge"}}
=============================================================================
