------------------------------ MODULE HilRunes ------------------------------
(***************************************************************************)
(* The rune reader under the interpolation-language lexer                  *)
(* (config/lang/lex.go): next, peek and backup over a byte offset into the *)
(* UTF-8 bytes b of the input.  Every lexing function is built from these  *)
(* three; they are kept apart from the lexing functions, which are         *)
(* recursive, so that what they do can be proved for every input.          *)
(***************************************************************************)
EXTENDS Integers, Sequences

Wide == {"eacute"}                     \* runes encoded in two bytes (é, U+00E9)

Modes == {"invalid", "literal", "interpolation"}

(* The lexer's fields: byte offset, width of the last rune read, mode,     *)
(* interpolation depth, and whether slicing the input has panicked.        *)
LexerFields ==
  [pos : Int, width : Int, mode : Modes, depth : Int, panic : BOOLEAN]

Width(r) == IF r \in Wide THEN 2 ELSE 1

(***************************************************************************)
(* next: the rune at pos and its width; EOF (width 0) at the end.  Slicing *)
(* the input at a negative offset panics; a continuation byte decodes as   *)
(* utf8.RuneError of width 1.                                              *)
(***************************************************************************)
NextRuneIn(b, L) ==
  IF L.pos < 0 THEN [l |-> [L EXCEPT !.panic = TRUE, !.width = 0], c |-> "EOF"]
  ELSE IF L.pos >= Len(b) THEN [l |-> [L EXCEPT !.width = 0], c |-> "EOF"]
  ELSE LET r == IF b[L.pos + 1] = "cont" THEN "bad" ELSE b[L.pos + 1]
           w == IF b[L.pos + 1] = "cont" THEN 1 ELSE Width(r)
       IN [l |-> [L EXCEPT !.pos = L.pos + w, !.width = w], c |-> r]

(* Mutant: backup steps back one byte, whatever the last rune's width.     *)
BackupOneByte(L) == [L EXCEPT !.pos = L.pos - 1]

(* backup: steps back by the width of the last rune read.                  *)
Backup(L) == [L EXCEPT !.pos = L.pos - L.width]

(* peek: next followed by backup.                                          *)
PeekIn(b, L) == LET n == NextRuneIn(b, L) IN [l |-> Backup(n.l), c |-> n.c]
=============================================================================
