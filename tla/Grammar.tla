------------------------------ MODULE Grammar -------------------------------
(***************************************************************************)
(* The syntactic part of lilgraph.bnf: the sets of token sequences, of at   *)
(* most MaxTokens tokens, that each of its rules derives.                   *)
(***************************************************************************)
EXTENDS SequencesExt

CONSTANT MaxTokens

ASSUME GrammarAssumption == MaxTokens \in Nat

Short(A)       == {x \in A : Len(x) <= MaxTokens}
Cat(A, B)      == Short({x \o y : x \in A, y \in B})
Cat3(A, B, C)  == Cat(A, Cat(B, C))
One(t)       == {<<t>>}

(* One or more of A.                                                          *)
Plus(A) ==
    LET reps[n \in 1..MaxTokens] == IF n = 1 THEN A ELSE Cat(reps[n - 1], A)
    IN  UNION {reps[n] : n \in 1..MaxTokens}

OptSep     == {<< >>} \cup One(";")
OptAttrSep == {<< >>} \cup One(",")
AttrVal    == One("id") \cup One("numeric_literal") \cup One("quoted_string")
Attr       == Cat3(One("id"), One("="), Cat(AttrVal, OptAttrSep))
AttrItems  == Plus(Attr)

(* What may stand in brackets: attributes, a type, or a type and attributes.  *)
TypeAndAttrs == {<< >>} \cup AttrItems
                    \cup Cat3(One("id"), OptSep, {<< >>} \cup AttrItems)

NodeDecl == One("id") \cup Cat3(One("id"), One("["), Cat(TypeAndAttrs, One("]")))

EdgeRHS  == Cat(One("edgearrow") \cup
                    Cat3(One("edge_attr_open"), TypeAndAttrs, One("edge_attr_close")),
                One("id"))
EdgeDecl == Cat(One("id"), Plus(EdgeRHS))

TopLevelStmt     == Cat(EdgeDecl \cup NodeDecl, OptSep)
TopLevelDeclList == Plus(TopLevelStmt)
WholeDoc         == {<< >>} \cup TopLevelDeclList
=============================================================================
