---------------------------- MODULE LexerTables -----------------------------
(***************************************************************************)
(* The generated tables of the lexer: transitiontable.go and acttab.go.     *)
(* Runes are taken in classes that no state tells apart:                    *)
(*   "letter" a-z, A-Z; "digit" 0-9; "ascii" every other ASCII character    *)
(*   that has no place in the grammar; "wide" U+0080 and up; "bad" NUL and  *)
(*   U+FFFD, which is also what utf8.DecodeRune makes of bytes that are not *)
(*   UTF-8; the others are single characters.                               *)
(***************************************************************************)
EXTENDS Integers

Rune == {"tab", "nl", "cr", "space", "quote", "#", ",", "-", ".", "/", "digit",
         ";", "=", "letter", "[", "]", "_", ">", "*", "backslash",
         "ascii", "wide", "bad"}

NoState == -1

AsciiChar == Rune \ {"quote", "backslash", "wide", "bad"}

(* A row of the table says to which state each rune leads.                   *)

(* S0.                                                                       *)
Start == [r \in Rune |->
    CASE r \in {"tab", "nl", "cr", "space"} -> 1
      [] r = "quote" -> 2  [] r = "#" -> 3  [] r = "," -> 4  [] r = "-" -> 5
      [] r = "." -> 6  [] r = "/" -> 7  [] r = "digit" -> 8  [] r = ";" -> 9
      [] r = "=" -> 10  [] r = "letter" -> 11  [] r = "[" -> 12  [] r = "]" -> 13
      [] r = "_" -> 14  [] OTHER -> NoState]

(* S2, S15, S18, S29, S30, S31: in a quoted string, after its opening quote,  *)
(* an ordinary character or an escaped one.                                  *)
InString == [r \in Rune |->
    CASE r \in AsciiChar -> 15  [] r = "quote" -> 16  [] r = "backslash" -> 17
      [] r = "wide" -> 18  [] OTHER -> NoState]

(* S17: behind a backslash.                                                  *)
Escaped == [r \in Rune |->
    CASE r \in AsciiChar -> 29  [] r \in {"quote", "backslash"} -> 30
      [] r = "wide" -> 31  [] OTHER -> NoState]

(* S5, S20, S13, S28: arrows; S5 may also begin a number.                     *)
Minuses == [r \in Rune |->
    CASE r = "-" -> 20  [] r = ">" -> 21  [] r = "[" -> 22  [] OTHER -> NoState]
Minus == [r \in Rune |->
    CASE r = "." -> 6  [] r = "digit" -> 8  [] OTHER -> Minuses[r]]
Close == [r \in Rune |-> IF r = "-" THEN 28 ELSE NoState]
CloseMore == [r \in Rune |-> IF r = ">" THEN 34 ELSE Close[r]]

(* S6, S23; S8; S26, S33: numbers.                                            *)
Fraction == [r \in Rune |-> IF r = "digit" THEN 23 ELSE NoState]
Integer  == [r \in Rune |-> CASE r = "." -> 26  [] r = "digit" -> 8  [] OTHER -> NoState]
Decimals == [r \in Rune |-> IF r = "digit" THEN 33 ELSE NoState]

(* S11, S14, S27.                                                            *)
InId == [r \in Rune |->
    CASE r = "digit" -> 27  [] r = "letter" -> 11  [] r = "_" -> 14  [] OTHER -> NoState]

(* S7; S3 and S25; S24; S32: comments.                                        *)
Slash     == [r \in Rune |-> CASE r = "*" -> 24  [] r = "/" -> 25  [] OTHER -> NoState]
InLine(s) == [r \in Rune |-> IF r = "nl" THEN 19 ELSE s]
InBlock   == [r \in Rune |-> IF r = "*" THEN 32 ELSE 24]
BlockStar == [r \in Rune |-> CASE r = "*" -> 32  [] r = "/" -> 35  [] OTHER -> 24]

TransTab ==
    [s \in 0..35 |->
        CASE s = 0 -> Start
          [] s \in {2, 15, 18, 29, 30, 31} -> InString
          [] s = 3  -> InLine(3)
          [] s = 5  -> Minus
          [] s = 6  -> Fraction
          [] s = 7  -> Slash
          [] s = 8  -> Integer
          [] s \in {11, 14, 27} -> InId
          [] s = 13 -> Close
          [] s = 17 -> Escaped
          [] s = 20 -> Minuses
          [] s = 23 -> Fraction
          [] s = 24 -> InBlock
          [] s = 25 -> InLine(25)
          [] s \in {26, 33} -> Decimals
          [] s = 28 -> CloseMore
          [] s = 32 -> BlockStar
          [] OTHER -> [r \in Rune |-> NoState]]

(* TransTab[s](r).                                                            *)
NextState(s, r) == TransTab[s][r]

(* ActTab: the type of token that a state accepts, INVALID (0) for one in the *)
(* middle of a token; or the runes read so far are to be ignored.             *)
Ignore == {1, 19, 35}
Accept ==
    [s \in 0..35 \ Ignore |->
        CASE s = 4 -> ","
          [] s \in {8, 23, 33} -> "numeric_literal"
          [] s = 9 -> ";"
          [] s = 10 -> "="
          [] s \in {11, 14, 27} -> "id"
          [] s = 12 -> "["
          [] s = 13 -> "]"
          [] s = 16 -> "quoted_string"
          [] s = 21 -> "edgearrow"
          [] s = 22 -> "edge_attr_open"
          [] s = 34 -> "edge_attr_close"
          [] OTHER -> "INVALID"]
=============================================================================
