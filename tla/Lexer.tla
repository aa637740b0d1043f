------------------------------- MODULE Lexer --------------------------------
(***************************************************************************)
(* The scanner of the generated lexer, Lexer.Scan, called until it returns  *)
(* the end of the source or an invalid token, where the parser stops; on a  *)
(* source that parse has made to end in a newline, or on any, as the tests  *)
(* call it.  One step for each rune that the loop of Scan reads.  Offsets   *)
(* count runes, not bytes.                                                  *)
(***************************************************************************)
EXTENDS LexicalGrammar

(* What a caller may pass: every text over a set of runes, up to a *)
(* length that bounds it, for each of several such sets.                      *)
CONSTANT Alphabets

ASSUME AlphabetAssumption == \A x \in Alphabets : x.runes \subseteq Rune /\ x.len \in Nat

VARIABLES
    src, pos, line, column,                  \* struct Lexer
    state, start, startLine, startColumn,    \* the locals of Scan, state NoState
    end, type,                               \*   between two calls
    toks                                     \* the tokens returned

lexer == <<src, pos, line, column>>
vars  == <<lexer, state, start, startLine, startColumn, end, type, toks>>

(* Mutant: parse leaves the source as it is.                                  *)
TerminatedNever(input) == input

(* parse: a newline is added if there is none at the end.                     *)
Terminated(input) ==
    IF input # << >> /\ Last(input) = "nl" THEN input ELSE Append(input, "nl")

Inputs == UNION {UNION {[1..n -> x.runes] : n \in 0..x.len} : x \in Alphabets}

(* NewLexer.                                                                  *)
ScannerAt(text) ==
    /\ src = text
    /\ pos = 0 /\ line = 1 /\ column = 1
    /\ state = NoState /\ start = 0 /\ startLine = 1 /\ startColumn = 1
    /\ end = 0 /\ type = "INVALID"
    /\ toks = << >>

Init == \E input \in Inputs : ScannerAt(input) \/ ScannerAt(Terminated(input))

Stopped == toks # << >> /\ Last(toks).type \in {"EOF", "INVALID"}

Token(t, lit, offset, l, c) ==
    [type |-> t, lit |-> lit, offset |-> offset, line |-> l, column |-> c]

(* Scan at the end of the source.                                             *)
ScanEnd ==
    /\ state = NoState /\ ~Stopped /\ pos >= Len(src)
    /\ toks' = Append(toks, Token("EOF", << >>, pos, line, column))
    /\ UNCHANGED <<lexer, state, start, startLine, startColumn, end, type>>

ScanStart ==
    /\ state = NoState /\ ~Stopped /\ pos < Len(src)
    /\ state' = 0 /\ end' = 0 /\ type' = "INVALID"
    /\ start' = pos /\ startLine' = line /\ startColumn' = column
    /\ UNCHANGED <<lexer, toks>>

(* The state that the next rune leads to.                                     *)
Reached == IF pos >= Len(src) THEN NoState ELSE NextState(state, src[pos + 1])

(* The rune is part of a token, a comment or white space.                     *)
Advance ==
    /\ pos' = pos + 1
    /\ line' = IF src[pos + 1] = "nl" THEN line + 1 ELSE line
    /\ column' = CASE src[pos + 1] \in {"nl", "cr"} -> 1
                   [] src[pos + 1] = "tab" -> column + 4
                   [] OTHER -> column + 1

ReadRune ==
    /\ state # NoState /\ Reached \notin Ignore \cup {NoState}
    /\ Advance
    /\ state' = Reached
    /\ type' = Accept[Reached] /\ end' = pos'
    /\ UNCHANGED <<src, start, startLine, startColumn, toks>>

(* Mutant: what is ignored does not move the position of the token.           *)
ReadIgnoredKeepsLine ==
    /\ state # NoState /\ Reached \in Ignore
    /\ Advance
    /\ state' = 0
    /\ start' = pos' /\ startColumn' = column'
    /\ type' = IF pos' >= Len(src) THEN "EOF" ELSE type
    /\ UNCHANGED <<src, startLine, end, toks>>

(* Mutant: white space at the end of the source is not told from a token.     *)
ReadIgnoredNoEof ==
    /\ state # NoState /\ Reached \in Ignore
    /\ Advance
    /\ state' = 0
    /\ start' = pos' /\ startLine' = line' /\ startColumn' = column'
    /\ UNCHANGED <<src, type, end, toks>>

(* The end of white space or of a comment: the token starts afresh here.      *)
ReadIgnored ==
    /\ state # NoState /\ Reached \in Ignore
    /\ Advance
    /\ state' = 0
    /\ start' = pos' /\ startLine' = line' /\ startColumn' = column'
    /\ type' = IF pos' >= Len(src) THEN "EOF" ELSE type
    /\ UNCHANGED <<src, end, toks>>

(* Mutant: the rune behind a token is not given back.                         *)
ScanDoneKeepsRune ==
    LET read == IF pos >= Len(src) THEN pos ELSE pos + 1
        last == IF type = "INVALID" THEN read ELSE end
    IN  /\ state # NoState /\ Reached = NoState
        /\ pos' = read
        /\ toks' = Append(toks, Token(type, SubSeq(src, start + 1, last),
                                      start, startLine, startColumn))
        /\ end' = last /\ state' = NoState
        /\ UNCHANGED <<src, line, column, start, startLine, startColumn, type>>

(* No state is reached: the token ends where the last rune was accepted, or,  *)
(* if it is invalid, behind the rune that was just read.                      *)
ScanDone ==
    LET read == IF pos >= Len(src) THEN pos ELSE pos + 1
        last == IF type = "INVALID" THEN read ELSE end
    IN  /\ state # NoState /\ Reached = NoState
        /\ pos' = IF last > start THEN last ELSE read
        /\ toks' = Append(toks, Token(type, SubSeq(src, start + 1, last),
                                      start, startLine, startColumn))
        /\ end' = last /\ state' = NoState
        /\ UNCHANGED <<src, line, column, start, startLine, startColumn, type>>

(* Mutant: the expression allows no digit.                                    *)
idRegexpNoDigits(w) == w # << >> /\ ToSet(w) \subseteq {"letter", "_"}

(* The regular expression that AddNode tests an id with.                      *)
idRegexp(w) ==
    /\ w # << >> /\ w[1] \in {"letter", "_"}
    /\ \A j \in 2..Len(w) : w[j] \in {"letter", "digit", "_"}

Next == ScanEnd \/ ScanStart \/ ReadRune \/ ReadIgnored \/ ScanDone

Spec == Init /\ [][Next]_vars

-----------------------------------------------------------------------------
TokenType == {"INVALID", "EOF"} \cup {Accept[s] : s \in DOMAIN Accept}

(* The scanner stays within its source, and returns an empty token at the    *)
(* end of it only: each of the other calls of Scan gets on.                   *)
TypeOK ==
    /\ src \in Seq(Rune) /\ pos \in 0..Len(src) /\ line \in Nat /\ column \in Nat
    /\ state \in {NoState} \cup DOMAIN Accept
    /\ start \in 0..pos /\ end \in 0..pos
    /\ type \in TokenType
    /\ \A j \in 1..Len(toks) :
          /\ toks[j].type \in TokenType /\ toks[j].offset + Len(toks[j].lit) <= pos
          /\ toks[j].lit = << >> => toks[j].type = "EOF"

(* The text before a token, as Pos must count it.                            *)
LinesBefore(n) == Cardinality({j \in 1..n : src[j] = "nl"})
ColumnAfter(n) ==
    LET breaks == {0} \cup {j \in 1..n : src[j] \in {"nl", "cr"}}
    IN  1 + (n - Max(breaks))
          + 3 * Cardinality({j \in Max(breaks) + 1..n : src[j] = "tab"})

(* Every token knows its line and column: what is read and given back, and   *)
(* the lines in comments and strings, do not put them off.                   *)
Positions ==
    \A j \in 1..Len(toks) : /\ toks[j].line = 1 + LinesBefore(toks[j].offset)
                            /\ toks[j].column = ColumnAfter(toks[j].offset)

(* The generated scanner and its tables find the tokens of lilgraph.bnf.  The *)
(* newline that parse adds changes none of them and makes up for the rule of  *)
(* that grammar by which a line comment must end in one: so it does not       *)
(* matter whether a text has a newline at its end.  Without parse, such a     *)
(* comment at the end is an invalid token, and all else is as it should be.   *)
Shape(ts) == [j \in 1..Len(ts) |->
                 IF ts[j].type = "EOF" THEN <<"EOF">> ELSE <<ts[j].type, ts[j].offset>>]
HasNewline == src # << >> /\ Last(src) = "nl"
EndsInComment ==
    LET rest == SubSeq(src, Last(toks).offset + 1, Len(src)) IN
    /\ Front(Shape(toks)) = Front(Shape(Tokens(src))) /\ Last(toks).type = "INVALID"
    /\ "nl" \notin ToSet(rest)
    /\ IsPrefix(<<"#">>, rest) \/ IsPrefix(<<"/", "/">>, rest)
AsSpecified ==
    Stopped =>
        /\ Shape(toks) = Shape(Tokens(src)) \/ (~HasNewline /\ EndsInComment)
        /\ HasNewline => Shape(toks) = Shape(Tokens(Front(src)))

(* "NOTE: this must match the equivalent grammar settings", says the comment  *)
(* on idRegexp: every id in a text is one that AddNode takes, so that parsing *)
(* never ends in ErrInvalidId; and every id that AddNode takes is read as     *)
(* that id, so that what is marshalled can be parsed.                         *)
IdsAgree ==
    LET text == IF HasNewline THEN Front(src) ELSE src IN
    Stopped => /\ \A j \in 1..Len(toks) : toks[j].type = "id" => idRegexp(toks[j].lit)
               /\ idRegexp(text) => /\ Len(toks) = 2 /\ toks[1].type = "id"
                                    /\ toks[1].lit = text
=============================================================================
