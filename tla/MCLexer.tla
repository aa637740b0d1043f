------------------------------ MODULE MCLexer -------------------------------
(* Every short text over the runes that arrows, brackets and numbers are      *)
(* made of, over those of strings and comments, and over all runes.           *)
EXTENDS Lexer

CONSTANTS MaxLen,      \* bounds: of a text over a few runes
          MaxAnyLen    \* of one over all runes

SomeAlphabets ==
    {[runes |-> {"-", ">", "[", "]", ".", "digit", "letter"}, len |-> MaxLen],
     [runes |-> {"quote", "backslash", "/", "*", "#", "nl", "letter"}, len |-> MaxLen],
     [runes |-> Rune, len |-> MaxAnyLen]}
=============================================================================
