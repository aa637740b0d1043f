------------------------------- MODULE Quote --------------------------------
(***************************************************************************)
(* How a value, and the line of a node or an edge, is written as text, and  *)
(* how a value is taken from the literal of its token: quoteify,            *)
(* writeTypeAndAttrList and the lines of marshalText; unquote of the AST.   *)
(*                                                                         *)
(* What is written is a record: its kind, a type, and attrs, a sequence of  *)
(* pairs.  Types, keys and values are sequences of runes of any kind; the   *)
(* ids of nodes have passed idRegexp, and are the one letter.               *)
(***************************************************************************)
EXTENDS LexicalGrammar, GoSlices

(* strings.ReplaceAll(w, old, new) where old is the rune r, or the two runes  *)
(* backslash and quote.                                                      *)
Replaced(w, r, new) == Joined([j \in 1..Len(w) |-> IF w[j] = r THEN new ELSE <<w[j]>>])
Dyad == <<"backslash", "quote">>
DyadsReplaced(w) ==
    FoldLeft(LAMBDA out, x : IF x = "quote" /\ out # << >> /\ Last(out) = "backslash"
                             THEN Append(Front(out), x) ELSE Append(out, x), << >>, w)

(* Mutant: quoteify escapes backslashes too.                                  *)
quoteifyEscapesAll(v) ==
    IF {"quote", "nl"} \cap ToSet(v) = {} THEN v
    ELSE <<"quote">> \o Replaced(Replaced(v, "backslash", <<"backslash", "backslash">>),
                                 "quote", Dyad) \o <<"quote">>

quoteify(v) ==
    IF {"quote", "nl"} \cap ToSet(v) = {} THEN v
    ELSE <<"quote">> \o Replaced(v, "quote", Dyad) \o <<"quote">>

Unquoted(lit) == DyadsReplaced(SubSeq(lit, 2, Len(lit) - 1))

(* "[type; key=value, key=value]", or nothing.                                *)
Pairs(attrs) ==
    Joined([j \in 1..Len(attrs) |->
                (IF j = 1 THEN << >> ELSE <<",", "space">>)
                    \o attrs[j].key \o <<"=">> \o quoteify(attrs[j].value)])

(* Mutant: nothing between a type and the attributes.                         *)
TypeAndAttrListUnseparated(type, attrs) ==
    IF type = << >> /\ attrs = << >> THEN << >>
    ELSE <<"[">> \o type \o Pairs(attrs) \o <<"]">>

TypeAndAttrList(type, attrs) ==
    IF type = << >> /\ attrs = << >> THEN << >>
    ELSE <<"[">> \o type
             \o (IF type # << >> /\ attrs # << >> THEN <<";", "space">> ELSE << >>)
             \o Pairs(attrs) \o <<"]">>

WrittenLine(it) ==
    LET list == TypeAndAttrList(it.type, it.attrs) IN
    IF it.kind = "node"
    THEN <<"letter">> \o (IF list = << >> THEN << >> ELSE <<"space">> \o list) \o <<"nl">>
    ELSE <<"letter", "space", "-">> \o list \o (IF list = << >> THEN << >> ELSE <<"-">>)
             \o <<">", "space", "letter", "nl">>

-----------------------------------------------------------------------------
(* Every backslash before a quote, or at the end, is one of a pair.           *)
PairedBackslashes(v) ==
    \A n \in 1..Len(v) + 1 :
        n > Len(v) \/ v[n] = "quote" => ~IsEscaped(v \o <<"quote">>, n)

(* Which values come back as they were: those that are written bare are ids   *)
(* and numbers, and those that are written in quotes have no backslash that   *)
(* the quote behind it could be taken for an escape of.                       *)
Survives(v) ==
    IF {"quote", "nl"} \cap ToSet(v) = {} THEN IsId(v) \/ IsNumber(v)
    ELSE PairedBackslashes(v) /\ "bad" \notin ToSet(v)
=============================================================================
