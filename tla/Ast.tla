-------------------------------- MODULE Ast ---------------------------------
(***************************************************************************)
(* The constructors of internal/ast, which the parser calls when it reduces *)
(* by a production.  A parser product (an interface value) is a record with *)
(* a tag for its dynamic type.  The n-th token of the text stands for its   *)
(* literal and for its position: a product has token numbers where the Go   *)
(* struct has strings and positions, 0 for the literal "" of the grammar.   *)
(***************************************************************************)
EXTENDS SequencesExt

Nil     == [tag |-> "nil"]
Str(n)  == [tag |-> "string", n |-> n]
Failed  == [tag |-> "error"]

(* getTokVal, and getTokOrLiteralStr, where they succeed.                     *)
IsTok(x) == x.tag = "token"
IsStr(x) == x.tag \in {"token", "string"}

(* Mutant: the grammar's nil is no list of attributes.                        *)
IsAttrsNotNil(x) == x.tag = "Attrs"

IsAttrs(x) == x.tag \in {"Attrs", "nil"}
AttrsOf(x) == IF x = Nil THEN << >> ELSE x.list

NewGraph(item) ==
    IF item = Nil THEN [tag |-> "Graph", items |-> << >>]
    ELSE IF item.tag \in {"Node", "EdgeChain"} THEN [tag |-> "Graph", items |-> <<item>>]
    ELSE Failed

AppendGraphItem(g, item) ==
    IF g.tag = "Graph" /\ item.tag \in {"Node", "EdgeChain"}
    THEN [g EXCEPT !.items = Append(@, item)] ELSE Failed

NewNode(id, type, attrs) ==
    IF IsTok(id) /\ IsStr(type) /\ IsAttrs(attrs)
    THEN [tag |-> "Node", id |-> id.n, type |-> type.n, attrs |-> AttrsOf(attrs), pos |-> id.n]
    ELSE Failed

NewEdgeChain(from, step) ==
    IF IsTok(from) /\ step.tag = "EdgeStep"
    THEN [tag |-> "EdgeChain", from |-> from.n, steps |-> <<step>>] ELSE Failed

(* Mutant: a chain is extended at its head.                                   *)
ExtendEdgeChainAtHead(chain, step) ==
    IF chain.tag = "EdgeChain" /\ step.tag = "EdgeStep"
    THEN [chain EXCEPT !.steps = <<step>> \o @] ELSE Failed

ExtendEdgeChain(chain, step) ==
    IF chain.tag = "EdgeChain" /\ step.tag = "EdgeStep"
    THEN [chain EXCEPT !.steps = Append(@, step)] ELSE Failed

NewEdgeStep(arrow, to, type, attrs) ==
    IF IsTok(to) /\ IsStr(type) /\ IsAttrs(attrs) /\ IsTok(arrow)
    THEN [tag |-> "EdgeStep", to |-> to.n, type |-> type.n,
          attrs |-> AttrsOf(attrs), pos |-> arrow.n]
    ELSE Failed

NewAttrs(attr) ==
    IF attr.tag = "Attr" THEN [tag |-> "Attrs", list |-> <<attr>>] ELSE Failed

AddAttr(attrs, attr) ==
    IF attrs.tag = "Attrs" /\ attr.tag = "Attr"
    THEN [attrs EXCEPT !.list = Append(@, attr)] ELSE Failed

NewAttr(k, v) ==
    IF IsTok(k) /\ IsStr(v)
    THEN [tag |-> "Attr", key |-> k.n, value |-> v.n, pos |-> k.n] ELSE Failed

(* The value without its quotes: Quote has what it does to the runes.         *)
Unquote(quoted) == IF IsTok(quoted) THEN Str(quoted.n) ELSE Failed
=============================================================================
