------------------------------ MODULE Pipeline ------------------------------
(***************************************************************************)
(* Parse up to the AST: the parser calls the scanner whenever it needs a     *)
(* token, on a text that a caller made up or that marshalText has written as *)
(* the line of a node or an edge.  For the sake of the parser's tables there *)
(* is a third source: any tokens at all.                                    *)
(***************************************************************************)
EXTENDS Lexer, Quote, Parser

CONSTANT Items   \* what is written as a line, as in Quote

ASSUME ItemAssumption ==
    \A it \in Items : /\ it.kind \in {"node", "edge"} /\ it.type \in Seq(Rune)
                      /\ it.attrs \in Seq([key : Seq(Rune), value : Seq(Rune)])

VARIABLE source  \* the item whose line src is, or "text", or "tokens"

allVars == <<vars, parserVars, source>>

Unwritten(kind) == [kind |-> kind, type |-> << >>, attrs |-> << >>]

PipelineInit ==
    /\ ParserInit
    /\ \/ source = Unwritten("tokens") /\ ScannerAt(<< >>)
       \/ source = Unwritten("text") /\ \E input \in Inputs : ScannerAt(Terminated(input))
       \/ source \in Items /\ ScannerAt(Terminated(WrittenLine(source)))

(* The parser asks for its first token at once, and for another one with      *)
(* every shift.                                                              *)
Asked == IF nextToken = NoToken THEN 1
         ELSE IF HasAction("shift") THEN Len(read) + 2 ELSE Len(read) + 1

Scan ==
    /\ source.kind # "tokens" /\ res = "parsing" /\ Len(toks) < Asked
    /\ Next
    /\ UNCHANGED <<parserVars, source>>

(* What Scan may have returned as the n-th token.                             *)
Scanned(n) ==
    IF source.kind = "tokens"
    THEN {Tok(t, n) : t \in IF n <= MaxTokens THEN Terminal ELSE {"EOF"}}
    ELSE {Tok(toks[j].type, j) : j \in {n} \cap 1..Len(toks)}

(* Mutant: a token that has no action is dropped.                             *)
ParseDropsToken ==
    /\ \/ \E tok \in Scanned(1) : FirstToken(tok)
       \/ \E tok \in Scanned(Len(read) + 2) : ShiftToken(tok)
       \/ ReduceProd \/ AcceptDoc
       \/ /\ res = "parsing" /\ nextToken # NoToken
          /\ nextToken.type \notin DOMAIN ActionTab[Top]
          /\ nextToken' \in Scanned(Len(read) + 1)
          /\ UNCHANGED <<stack, read, res>>
    /\ UNCHANGED <<vars, source>>

Parse ==
    /\ \/ \E tok \in Scanned(1) : FirstToken(tok)
       \/ \E tok \in Scanned(Len(read) + 2) : ShiftToken(tok)
       \/ ReduceProd \/ AcceptDoc \/ Reject
    /\ UNCHANGED <<vars, source>>

PipelineNext == Scan \/ Parse
PipelineSpec == PipelineInit /\ [][PipelineNext]_allVars /\ WF_allVars(PipelineNext)

-----------------------------------------------------------------------------
(* Parse accepts exactly the texts of lilgraph.bnf, by its lexical and its     *)
(* syntactic rules; where it stops, no text goes on with the token it has.    *)
AcceptsLanguage ==
    LET ts    == Tokens(src)
        types == [j \in 1..Len(ts) |-> ts[j].type]
    IN  /\ AcceptsGrammar
        /\ source.kind # "tokens" /\ res # "parsing" /\ Len(types) <= MaxTokens + 1 =>
               (res = "accepted" <=> Last(types) = "EOF" /\ Front(types) \in WholeDoc)

(* The string that a field of the AST has: the literal of the token that it   *)
(* comes from, without its quotes if it has any.                              *)
Text(n) == IF n = 0 THEN << >>
           ELSE IF toks[n].type = "quoted_string" THEN Unquoted(toks[n].lit) ELSE toks[n].lit
AttrTexts(as) == [j \in 1..Len(as) |-> [key |-> Text(as[j].key), value |-> Text(as[j].value)]]

ReadAs(ast) ==
    IF ast.tag = "Node"
    THEN [kind |-> "node", ids |-> <<Text(ast.id)>>, type |-> Text(ast.type),
          attrs |-> AttrTexts(ast.attrs)]
    ELSE [kind |-> "edge", ids |-> <<Text(ast.from), Text(ast.steps[1].to)>>,
          type |-> Text(ast.steps[1].type), attrs |-> AttrTexts(ast.steps[1].attrs)]

ReadsBack ==
    /\ res = "accepted" /\ Len(Graph.items) = 1
    /\ ReadAs(Graph.items[1]) =
          [kind |-> source.kind, type |-> source.type, attrs |-> source.attrs,
           ids |-> [j \in 1..(IF source.kind = "node" THEN 1 ELSE 2) |-> <<"letter">>]]
    /\ Graph.items[1].tag = "EdgeChain" => Len(Graph.items[1].steps) = 1

Written == source.kind \in {"node", "edge"}

(* Exactly which nodes and edges come back as they were from the lines that   *)
(* marshalText writes: those with a type and keys that are ids (nothing else  *)
(* asks that of them) and with values that survive quoteify.  No defect of    *)
(* one field makes up for that of another.                                   *)
ReadsBackExactly ==
    Written /\ res # "parsing" =>
        (ReadsBack <=> /\ source.type = << >> \/ IsId(source.type)
                       /\ \A j \in 1..Len(source.attrs) :
                             IsId(source.attrs[j].key) /\ Survives(source.attrs[j].value))

(* The grammar has three forms of values, one of them for any text ("An       *)
(* attribute value can be: 1) An ID 2) A numeric literal [...] 3) A quoted    *)
(* string."): so an item whose values a text can give should be written so    *)
(* that it comes back.  quoteify writes any value without a quote or a        *)
(* newline bare.                                                             *)
ParsedItem ==
    /\ source.type = << >> \/ IsId(source.type)
    /\ \A j \in 1..Len(source.attrs) :
          /\ IsId(source.attrs[j].key)
          /\ {"backslash", "bad"} \cap ToSet(source.attrs[j].value) = {}
ValuesReadBack == Written /\ res # "parsing" /\ ParsedItem => ReadsBack

(* Parse returns, whatever the text: neither the scanner's loop nor the       *)
(* parser's has a round without progress for ever.                           *)
Returns == <>(res # "parsing")
=============================================================================
