---------------------------- MODULE MCHilLexer ----------------------------
(***************************************************************************)
(* Inputs for the lexer: every sequence of up to MaxLen runes over an      *)
(* alphabet holding each rune the lexer treats specially and one letter.   *)
(***************************************************************************)
EXTENDS HilLexer

AsciiRunes == {"$", "{", "}", "\"", "\\", "n", " ", "("}
WideRunes == {"$", "a", "eacute"}
=============================================================================
