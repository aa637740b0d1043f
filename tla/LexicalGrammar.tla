--------------------------- MODULE LexicalGrammar ---------------------------
(***************************************************************************)
(* The lexical part of lilgraph.bnf, as predicates on sequences of runes,   *)
(* and the tokens of a text by the rule that the longest match counts.      *)
(* Lexer's tables are generated from that grammar; its Scan is checked      *)
(* against this.                                                            *)
(***************************************************************************)
EXTENDS LexerTables, SequencesExt

Blank    == {"space", "tab", "cr", "nl"}
IdLetter == {"letter", "_"}

IsId(w) == w # << >> /\ w[1] \in IdLetter /\ ToSet(w) \subseteq IdLetter \cup {"digit"}

Digits(w) == w # << >> /\ ToSet(w) = {"digit"}
IsUnsigned(w) ==
    \/ Digits(w)
    \/ \E j \in 1..Len(w) : /\ w[j] = "."
                            /\ Digits(SubSeq(w, j + 1, Len(w)))
                            /\ j = 1 \/ Digits(SubSeq(w, 1, j - 1))
IsNumber(w) == \/ IsUnsigned(w)
               \/ w # << >> /\ w[1] = "-" /\ IsUnsigned(Tail(w))

(* A backslash takes away the meaning of the rune behind it.                 *)
IsEscaped(w, n) ==
    LET esc[j \in 1..n] == j > 1 /\ w[j - 1] = "backslash" /\ ~esc[j - 1]
    IN  esc[n]
IsString(w) ==
    /\ Len(w) >= 2 /\ w[1] = "quote" /\ w[Len(w)] = "quote" /\ ~IsEscaped(w, Len(w))
    /\ "bad" \notin ToSet(w)
    /\ \A j \in 2..Len(w) - 1 : w[j] = "quote" => IsEscaped(w, j)

(* One '-' or more between what comes first and what comes last.              *)
Minuses1(w) == w # << >> /\ ToSet(w) = {"-"}

Kinds(w) ==
    {t \in {",", ";", "=", "[", "]"} : w = <<t>>}
    \cup {t \in {"id"} : IsId(w)}
    \cup {t \in {"numeric_literal"} : IsNumber(w)}
    \cup {t \in {"quoted_string"} : IsString(w)}
    \cup {t \in {"edgearrow"} : Minuses1(Front(w)) /\ Last(w) = ">"}
    \cup {t \in {"edge_attr_open"} : Minuses1(Front(w)) /\ Last(w) = "["}
    \cup {t \in {"edge_attr_close"} :
             Len(w) >= 3 /\ w[1] = "]" /\ Minuses1(SubSeq(w, 2, Len(w) - 1)) /\ Last(w) = ">"}

(* A token that the scanner gives up, because it reads on towards a longer    *)
(* one that does not come: a ']' before a '-', an integer before a '.'.  No   *)
(* rule of the grammar has these two tokens next to each other.               *)
GivenUp(x, p, w) ==
    /\ p + Len(w) < Len(x)
    /\ \/ w = <<"]">> /\ x[p + Len(w) + 1] = "-"
       \/ IsNumber(w) /\ "." \notin ToSet(w) /\ x[p + Len(w) + 1] = "."

(* The offset behind the comment or white space that begins at p, p itself if *)
(* there is none, -1 if it does not end.  A line comment may end with the     *)
(* text.                                                                     *)
Skipped(x, p) ==
    LET at(j)  == IF j < Len(x) THEN x[j + 1] ELSE "none"
        nls    == {j \in p + 1..Len(x) : x[j] = "nl"}
        stars  == {j \in p + 4..Len(x) : x[j - 1] = "*" /\ x[j] = "/"}
    IN  CASE at(p) \in Blank -> p + 1
          [] at(p) = "#" \/ (at(p) = "/" /\ at(p + 1) = "/") ->
                IF nls = {} THEN Len(x) ELSE Min(nls)
          [] at(p) = "/" /\ at(p + 1) = "*" -> IF stars = {} THEN -1 ELSE Min(stars)
          [] OTHER -> p

(* The types and offsets of the tokens of x, up to the first invalid one.     *)
Tokens(x) ==
    LET from[p \in 0..Len(x)] ==
        LET lens == {n \in 1..Len(x) - p : Kinds(SubSeq(x, p + 1, p + n)) # {}}
            w    == SubSeq(x, p + 1, p + Max(lens))
            skip == Skipped(x, p)
        IN  CASE p = Len(x) -> << [type |-> "EOF", offset |-> p] >>
              [] p < Len(x) /\ skip > p -> from[skip]
              [] p < Len(x) /\ (skip = -1 \/ (skip = p /\ (lens = {} \/ GivenUp(x, p, w)))) ->
                    << [type |-> "INVALID", offset |-> p] >>
              [] OTHER -> << [type |-> CHOOSE t \in Kinds(w) : TRUE, offset |-> p] >>
                             \o from[p + Len(w)]
    IN  from[0]
=============================================================================
