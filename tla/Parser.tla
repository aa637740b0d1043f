------------------------------- MODULE Parser -------------------------------
(***************************************************************************)
(* Parser.Parse of the generated parser, with its tables and the AST        *)
(* constructors: one step for each round of its loop.  Where the tokens come *)
(* from is Pipeline's part.  The grammar has no rule for errors:             *)
(* Parser.Error finds no state that can recover and no action for the token  *)
(* "error", and Parse returns.                                              *)
(***************************************************************************)
EXTENDS ParserTables, Ast, Grammar, GoSlices

VARIABLES
    stack,      \* the states, each with the product that came with it
    nextToken,
    read,       \* the types of the tokens scanned before nextToken
    res         \* "parsing", or how Parse has returned, or the AST

parserVars == <<stack, nextToken, read, res>>

Tok(t, n) == [tag |-> "token", type |-> t, n |-> n]
NoToken   == Tok("none", 0)
Top       == stack[Len(stack)].state

(* Parse has been called, and is about to call Scan.                          *)
ParserInit ==
    /\ stack = <<[state |-> 0, product |-> Nil]>>
    /\ nextToken = NoToken /\ read = << >>
    /\ res = "parsing"

FirstToken(tok) ==
    /\ nextToken = NoToken
    /\ nextToken' = tok
    /\ UNCHANGED <<stack, read, res>>

(* The ReduceFunc of production p.                                            *)
ReduceFunc(p, X) ==
    CASE p = 1  -> NewGraph(Nil)
      [] p = 3  -> NewGraph(X[1])
      [] p = 4  -> AppendGraphItem(X[1], X[2])
      [] p \in {5, 23} -> Nil
      [] p = 7  -> NewNode(X[1], Str(0), X[3])
      [] p = 8  -> NewNode(X[1], X[3], X[5])
      [] p = 9  -> NewNode(X[1], X[3], Nil)
      [] p \in {10, 11} -> NewNode(X[1], Str(0), Nil)
      [] p = 12 -> NewEdgeStep(X[1], X[2], Str(0), Nil)
      [] p = 13 -> NewEdgeStep(X[1], X[3], Str(0), Nil)
      [] p = 14 -> NewEdgeStep(X[1], X[4], Str(0), X[2])
      [] p = 15 -> NewEdgeStep(X[1], X[5], X[2], Nil)
      [] p = 16 -> NewEdgeStep(X[1], X[6], X[2], X[4])
      [] p = 17 -> NewEdgeChain(X[1], X[2])
      [] p = 18 -> ExtendEdgeChain(X[1], X[2])
      [] p = 21 -> NewAttrs(X[1])
      [] p = 22 -> AddAttr(X[1], X[2])
      [] p = 25 -> NewAttr(X[1], X[3])
      [] p = 28 -> Unquote(X[1])
      [] OTHER  -> X[1]

HasAction(op) == /\ nextToken.type \in DOMAIN ActionTab[Top]
                 /\ ActionTab[Top][nextToken.type].op = op
Arg == ActionTab[Top][nextToken.type].arg

(* A shift, and the call of Scan, which returns tok.                          *)
ShiftToken(tok) ==
    /\ res = "parsing" /\ HasAction("shift")
    /\ stack' = Append(stack, [state |-> Arg, product |-> nextToken])
    /\ read' = Append(read, nextToken.type)
    /\ nextToken' = tok
    /\ UNCHANGED res

(* popN, ReduceFunc and gotoTab; Parse returns when ReduceFunc fails.         *)
ReduceProd ==
    /\ res = "parsing" /\ HasAction("reduce")
    /\ LET len   == Len(stack) - ProdTab[Arg][2]
           X     == [j \in 1..ProdTab[Arg][2] |-> stack[len + j].product]
           below == stack[len].state
           made  == ReduceFunc(Arg, X)
       IN  IF made = Failed
           THEN res' = "bad product" /\ stack' = SubSeq(stack, 1, len)
           ELSE /\ stack' = Append(SubSeq(stack, 1, len),
                        [state |-> GotoTab[below][ProdTab[Arg][1]], product |-> made])
                /\ UNCHANGED res
    /\ UNCHANGED <<nextToken, read>>

AcceptDoc ==
    /\ res = "parsing" /\ HasAction("accept")
    /\ res' = "accepted"
    /\ UNCHANGED <<stack, nextToken, read>>

(* newError: no recovery, and Parse returns.                                  *)
Reject ==
    /\ res = "parsing" /\ nextToken # NoToken
    /\ nextToken.type \notin DOMAIN ActionTab[Top]
    /\ res' = "syntax error"
    /\ UNCHANGED <<stack, nextToken, read>>

-----------------------------------------------------------------------------
Graph == stack[Len(stack)].product

(* The states on the stack have rows in the tables, and no constructor of    *)
(* the AST is ever handed what it cannot take.                               *)
ParserTypeOK ==
    /\ \A d \in 1..Len(stack) : stack[d].state \in DOMAIN ActionTab
    /\ nextToken.type \in Terminal \cup {"none"} /\ read \in Seq(Terminal)
    /\ res \in {"parsing", "accepted", "syntax error"}
    /\ res = "accepted" => Len(stack) = 2 /\ Graph.tag = "Graph"

(* A token with which a sentence can go on from here, as far as the bound     *)
(* MaxTokens on sentences goes.                                              *)
Beginnings == UNION {Prefixes(x) : x \in WholeDoc}
GoesOn(t)  == IF t = "EOF" THEN read \in WholeDoc ELSE Append(read, t) \in Beginnings

(* The generated tables accept no token sequence but the sentences of the     *)
(* grammar; and the first token that they refuse is one that no sentence has  *)
(* there.                                                                    *)
AcceptsOnlyDocs == res = "accepted" /\ Len(read) <= MaxTokens => read \in WholeDoc
RefusesNoDoc    == res = "syntax error" => ~GoesOn(nextToken.type)
AcceptsGrammar  == AcceptsOnlyDocs /\ RefusesNoDoc

(* What a syntax error says was expected, for a reader to choose from: a      *)
(* token is named exactly when the text so far can go on with it to the end   *)
(* of a sentence.  (Checked where MaxTokens has room for the longest of the   *)
(* shortest ways there: id = value ] or, in an edge, id = value ]-> id.)      *)
Expected == DOMAIN ActionTab[Top]
InArrow  == \E j \in 1..Len(read) : /\ read[j] = "edge_attr_open"
                                    /\ "edge_attr_close" \notin ToSet(SubSeq(read, j, Len(read)))
WayOut   == IF InArrow THEN 5 ELSE 4
ExpectedExact ==
    res = "syntax error" /\ Len(read) + WayOut <= MaxTokens =>
        Expected = {t \in Terminal : GoesOn(t)}

(* The tokens that an AST has come from, in order, without those that say     *)
(* nothing more: -1 stands for a '=' and -2 for a '[' that is not empty.      *)
AttrYield(at)  == <<at.key, -1, at.value>>
AttrsYield(as) == Joined([j \in 1..Len(as) |-> AttrYield(as[j])])
TypeYield(t)   == IF t = 0 THEN << >> ELSE <<t>>
StepYield(s)   == <<s.pos>> \o TypeYield(s.type) \o AttrsYield(s.attrs) \o <<s.to>>
ItemYield(it)  ==
    IF it.tag = "Node"
    THEN <<it.id>> \o (IF it.type = 0 /\ it.attrs = << >> THEN << >> ELSE <<-2>>)
             \o TypeYield(it.type) \o AttrsYield(it.attrs)
    ELSE <<it.from>> \o Joined([j \in 1..Len(it.steps) |-> StepYield(it.steps[j])])
Yield(graph) == Joined([j \in 1..Len(graph.items) |-> ItemYield(graph.items[j])])

Word(text, n) ==
    CASE text[n] \in {";", ",", "]", "edge_attr_close"} -> << >>
      [] text[n] = "[" -> IF text[n + 1] = "]" THEN << >> ELSE <<-2>>
      [] text[n] = "=" -> <<-1>>
      [] OTHER -> <<n>>
Said == Joined([n \in 1..Len(read) |-> Word(read, n)])

(* The AST of an accepted text has all of it, in order: no id, type, key,     *)
(* value or arrow is lost, swapped with another, or given to another item.    *)
AstIsWhole == res = "accepted" => Yield(Graph) = Said
=============================================================================
