---------------------------- MODULE ParserTables ----------------------------
(***************************************************************************)
(* The generated tables of the LR(1) parser: actiontable.go, gototable.go   *)
(* and the shapes of the productions in productionstable.go.  A row lists   *)
(* the tokens that have an action; gototable's -1 is left out.              *)
(***************************************************************************)
EXTENDS Integers

Terminal == {"INVALID", "EOF", ";", "id", "[", "]", "edgearrow", "edge_attr_open",
             "edge_attr_close", ",", "=", "numeric_literal", "quoted_string"}

(* What may follow a statement, a node declaration, an edge, an attribute of  *)
(* a node or of an edge, and its value.                                       *)
Statements == {"EOF", "id"}
NodeEnds   == Statements \cup {";"}
EdgeEnds   == NodeEnds \cup {"edgearrow", "edge_attr_open"}
InNode     == {"id", "]"}
InEdge     == {"id", "edge_attr_close"}

(* Mutant: the states in nodes and those in edges share their rows.           *)
NodeValsMerged == InNode \cup InEdge \cup {","}

NodeVals   == InNode \cup {","}
EdgeVals   == InEdge \cup {","}

f ++ g   == [x \in DOMAIN f \cup DOMAIN g |-> IF x \in DOMAIN f THEN f[x] ELSE g[x]]
On(x, y) == [z \in {x} |-> y]

Reduce(p, tokens) == [t \in tokens |-> [op |-> "reduce", arg |-> p]]
Shift(token, s)   == On(token, [op |-> "shift", arg |-> s])
AcceptOn(token)   == On(token, [op |-> "accept", arg |-> 0])

Actions0 ==
    On(0, Reduce(1, {"EOF"}) ++ Shift("id", 5)) ++
    On(1, AcceptOn("EOF")) ++
    On(2, Reduce(2, {"EOF"}) ++ Shift("id", 5)) ++
    On(3, Reduce(3, Statements)) ++
    On(4, Reduce(5, Statements) ++ Shift(";", 9)) ++
    On(5, Reduce(11, NodeEnds) ++ Shift("[", 10) ++ Shift("edgearrow", 12) ++
          Shift("edge_attr_open", 13)) ++
    On(6, Reduce(5, Statements) ++ Shift(";", 9) ++ Shift("edgearrow", 12) ++
          Shift("edge_attr_open", 13)) ++
    On(7, Reduce(4, Statements))

Actions8 ==
    On(8, Reduce(20, Statements)) ++
    On(9, Reduce(6, Statements)) ++
    On(10, Shift("id", 16) ++ Shift("]", 18)) ++
    On(11, Reduce(17, EdgeEnds)) ++
    On(12, Shift("id", 20)) ++
    On(13, Shift("id", 21) ++ Shift("edge_attr_close", 23)) ++
    On(14, Reduce(19, Statements)) ++
    On(15, Reduce(18, EdgeEnds))

Actions16 ==
    On(16, Reduce(5, InNode) ++ Shift(";", 26) ++ Shift("=", 27)) ++
    On(17, Shift("id", 28) ++ Shift("]", 29)) ++
    On(18, Reduce(10, NodeEnds)) ++
    On(19, Reduce(21, InNode)) ++
    On(20, Reduce(12, EdgeEnds)) ++
    On(21, Reduce(5, InEdge) ++ Shift(";", 32) ++ Shift("=", 33)) ++
    On(22, Shift("id", 34) ++ Shift("edge_attr_close", 35)) ++
    On(23, Shift("id", 37))

Actions24 ==
    On(24, Reduce(21, InEdge)) ++
    On(25, Shift("id", 28) ++ Shift("]", 39)) ++
    On(26, Reduce(6, InNode)) ++
    On(27, Shift("id", 40) ++ Shift("numeric_literal", 42) ++
          Shift("quoted_string", 43)) ++
    On(28, Shift("=", 27)) ++
    On(29, Reduce(7, NodeEnds)) ++
    On(30, Reduce(22, InNode)) ++
    On(31, Shift("id", 34) ++ Shift("edge_attr_close", 45))

Actions32 ==
    On(32, Reduce(6, InEdge)) ++
    On(33, Shift("id", 46) ++ Shift("numeric_literal", 48) ++
          Shift("quoted_string", 49)) ++
    On(34, Shift("=", 33)) ++
    On(35, Shift("id", 50)) ++
    On(36, Reduce(22, InEdge)) ++
    On(37, Reduce(13, EdgeEnds)) ++
    On(38, Shift("id", 28) ++ Shift("]", 51)) ++
    On(39, Reduce(9, NodeEnds))

Actions40 ==
    On(40, Reduce(26, NodeVals)) ++
    On(41, Reduce(23, InNode) ++ Shift(",", 53)) ++
    On(42, Reduce(27, NodeVals)) ++
    On(43, Reduce(28, NodeVals)) ++
    On(44, Shift("id", 34) ++ Shift("edge_attr_close", 54)) ++
    On(45, Shift("id", 55)) ++
    On(46, Reduce(26, EdgeVals)) ++
    On(47, Reduce(23, InEdge) ++ Shift(",", 57))

Actions48 ==
    On(48, Reduce(27, EdgeVals)) ++
    On(49, Reduce(28, EdgeVals)) ++
    On(50, Reduce(14, EdgeEnds)) ++
    On(51, Reduce(8, NodeEnds)) ++
    On(52, Reduce(25, InNode)) ++
    On(53, Reduce(24, InNode))

Actions54 ==
    On(54, Shift("id", 58)) ++
    On(55, Reduce(15, EdgeEnds)) ++
    On(56, Reduce(25, InEdge)) ++
    On(57, Reduce(24, InEdge)) ++
    On(58, Reduce(16, EdgeEnds))

ActionTab == Actions0 ++ Actions8 ++ Actions16 ++ Actions24
                 ++ Actions32 ++ Actions40 ++ Actions48 ++ Actions54

Goto0 ==
    On(0, On("WholeDoc", 1) ++ On("TopLevelDeclList", 2) ++ On("NodeDecl", 4) ++
          On("EdgeDecl", 6) ++ On("TopLevelStmt", 3)) ++
    On(2, On("NodeDecl", 4) ++ On("EdgeDecl", 6) ++ On("TopLevelStmt", 7)) ++
    On(4, On("OptSep", 8)) ++
    On(5, On("EdgeRHS", 11)) ++
    On(6, On("OptSep", 14) ++ On("EdgeRHS", 15))

Goto10 ==
    On(10, On("AttrItems", 17) ++ On("Attr", 19)) ++
    On(13, On("AttrItems", 22) ++ On("Attr", 24)) ++
    On(16, On("OptSep", 25)) ++
    On(17, On("Attr", 30))

Goto20 ==
    On(21, On("OptSep", 31)) ++
    On(22, On("Attr", 36)) ++
    On(25, On("AttrItems", 38) ++ On("Attr", 19)) ++
    On(27, On("AttrVal", 41))

Goto30 ==
    On(31, On("AttrItems", 44) ++ On("Attr", 24)) ++
    On(33, On("AttrVal", 47)) ++
    On(38, On("Attr", 30))

Goto40 ==
    On(41, On("OptAttrSep", 52)) ++
    On(44, On("Attr", 36)) ++
    On(47, On("OptAttrSep", 56))

GotoTab == Goto0 ++ Goto10 ++ Goto20 ++ Goto30 ++ Goto40

(* The left side and the length of the right side of every production.        *)
ProdTab ==
  <<<<"WholeDoc", 0>>, <<"WholeDoc", 1>>, <<"TopLevelDeclList", 1>>,
    <<"TopLevelDeclList", 2>>, <<"OptSep", 0>>, <<"OptSep", 1>>, <<"NodeDecl", 4>>,
    <<"NodeDecl", 6>>, <<"NodeDecl", 5>>, <<"NodeDecl", 3>>, <<"NodeDecl", 1>>,
    <<"EdgeRHS", 2>>, <<"EdgeRHS", 3>>, <<"EdgeRHS", 4>>, <<"EdgeRHS", 5>>,
    <<"EdgeRHS", 6>>, <<"EdgeDecl", 2>>, <<"EdgeDecl", 2>>, <<"TopLevelStmt", 2>>,
    <<"TopLevelStmt", 2>>, <<"AttrItems", 1>>, <<"AttrItems", 2>>,
    <<"OptAttrSep", 0>>, <<"OptAttrSep", 1>>, <<"Attr", 4>>, <<"AttrVal", 1>>,
    <<"AttrVal", 1>>, <<"AttrVal", 1>>>>
=============================================================================
