------------------------------ MODULE HilLexer ------------------------------
(***************************************************************************)
(* The lexer of the interpolation language (config/lang/lex.go).  The      *)
(* parser calls Lex once per token until it returns EOF; each call runs    *)
(* to completion, so one call is one step.  The lexer alternates between   *)
(* literal mode (bare text, ${ opens an interpolation) and interpolation   *)
(* mode (quoted strings, identifiers, punctuation); quoted strings inside  *)
(* an interpolation may themselves contain ${...}.                         *)
(*                                                                         *)
(* The input is a sequence of runes drawn from a small alphabet; its UTF-8 *)
(* encoding is a sequence of bytes in which a wide rune is followed by a   *)
(* continuation byte, and the lexer's position is a byte offset, as in the *)
(* code.  Line and column tracking only feed error positions and are left  *)
(* out, as is the parse error text.                                        *)
(***************************************************************************)
EXTENDS HilRunes, SequencesExt

CONSTANTS
  Alphabet,   \* the runes an input may contain
  MaxLen      \* the longest input, in runes

Letters == {"a", "n", "eacute"}             \* unicode.IsLetter
Numbers == {"1"}                       \* unicode.IsNumber
Spaces == {" ", "nl"}                  \* unicode.IsSpace ("nl" is a newline)
IdRunes == {"_", "-", ".", "*"} \cup Letters \cup Numbers

ASSUME LexerAssumption ==
  /\ MaxLen \in Nat
  /\ "EOF" \notin Alphabet /\ "cont" \notin Alphabet

(* The UTF-8 bytes of the input: a wide rune's lead byte carries the rune. *)
Bytes(in) ==
  FlattenSeq([i \in DOMAIN in |->
                IF in[i] \in Wide THEN <<in[i], "cont">> ELSE <<in[i]>>])

VARIABLES
  input,   \* parserLex.Input: the UTF-8 bytes of a string of runes
  lx,      \* the lexer's fields: pos, width, mode, interpolationDepth
  tok,     \* the token kind the last Lex call returned
  val,     \* the value of the last STRING or IDENTIFIER token
  calls    \* the number of Lex calls so far

vars == <<input, lx, tok, val, calls>>

Tokens == {"NONE", "EOF", "STRING", "IDENTIFIER", "PROGRAM_BRACKET_LEFT",
           "PROGRAM_BRACKET_RIGHT", "PAREN_LEFT", "PAREN_RIGHT", "COMMA"}

(* next and peek on the input being lexed.                                 *)
NextRune(L) == NextRuneIn(input, L)
Peek(L) == PeekIn(input, L)

(* An escape in a quoted string: \\ and \" stand for themselves, \n for a  *)
(* newline; any other rune is put back and the backslash kept.             *)
Escape(L) ==
  LET m == NextRune(L) IN
  CASE m.c \in {"\\", "\""} -> [l |-> m.l, c |-> m.c]
    [] m.c = "n"            -> [l |-> m.l, c |-> "nl"]
    [] OTHER                -> [l |-> Backup(m.l), c |-> "\\"]

(* ${ in literal mode: one more open interpolation.                        *)
OpenInterpolation(L) == [L EXCEPT !.depth = @ + 1, !.mode = "interpolation"]

(* Mutant: } closes the interpolation but the lexer stays in its mode.     *)
CloseInterpolationKeepMode(L) == [L EXCEPT !.depth = @ - 1]

(* } in interpolation mode: back to literal mode.                          *)
CloseInterpolation(L) == [L EXCEPT !.depth = @ - 1, !.mode = "literal"]

Result(L, t, v) == [l |-> L, tok |-> t, val |-> v]
StringResult(L, v, terminated) == [l |-> L, tok |-> "STRING", val |-> v, term |-> terminated]

RECURSIVE LexId(_, _)
(* lexId: identifier runes up to the first other rune, which is put back.  *)
LexId(L, buf) ==
  LET n == NextRune(L) IN
  IF n.c = "EOF" THEN Result(n.l, "IDENTIFIER", buf)
  ELSE IF n.c \notin IdRunes THEN Result(Backup(n.l), "IDENTIFIER", buf)
  ELSE LexId(n.l, Append(buf, n.c))

RECURSIVE LexString(_, _, _)
(***************************************************************************)
(* lexString: a string up to EOF, a closing quote (quoted), a } inside an  *)
(* interpolation, or the start of a nested ${, the last two put back.      *)
(* Returns whether the closing quote was reached.                          *)
(***************************************************************************)
LexString(L, quoted, buf) ==
  LET n == NextRune(L)
      e == IF quoted /\ n.c = "\\" THEN Escape(n.l) ELSE n
      p == Peek(e.l)
  IN
  IF n.c = "EOF" THEN StringResult(n.l, buf, FALSE)
  ELSE IF quoted /\ n.c = "\"" THEN StringResult(n.l, buf, TRUE)
  ELSE IF e.c = "}" /\ L.depth > 0
    THEN StringResult(Backup(e.l), buf, FALSE)
  ELSE IF e.c = "$" /\ p.c = "{"
    THEN StringResult(Backup(p.l), buf, FALSE)
  ELSE LexString(IF e.c = "$" THEN p.l ELSE e.l, quoted, Append(buf, e.c))

RECURSIVE Lex(_), LexModeLiteral(_), LexModeInterpolation(_)
(***************************************************************************)
(* lexModeLiteral: ${ opens an interpolation; otherwise the rune is put    *)
(* back and a string is lexed, quoted when inside an interpolation.  A     *)
(* nested string that ended at its quote returns to interpolation mode and *)
(* an empty one is skipped by lexing again.                                *)
(***************************************************************************)
LexModeLiteral(L) ==
  LET n == NextRune(L)
      p == Peek(n.l)
      before == Backup(IF n.c = "$" THEN p.l ELSE n.l)
      s == LexString(before, L.depth > 0, <<>>)
      back == [s.l EXCEPT !.mode = "interpolation"]
  IN
  IF n.c = "EOF" THEN Result(n.l, "EOF", <<>>)
  ELSE IF n.c = "$" /\ p.c = "{"
    THEN Result(OpenInterpolation(NextRune(p.l).l), "PROGRAM_BRACKET_LEFT", <<>>)
  ELSE IF s.term /\ L.depth > 0
    THEN IF s.val = <<>> THEN Lex(back) ELSE Result(back, "STRING", s.val)
  ELSE Result(s.l, "STRING", s.val)

(***************************************************************************)
(* lexModeInterpolation: whitespace is skipped; a quote starts a quoted    *)
(* string, and one that stops at a nested ${ switches to literal mode (an  *)
(* empty one is skipped); punctuation is a token; anything else is put     *)
(* back and lexed as an identifier.                                        *)
(***************************************************************************)
LexModeInterpolation(L) ==
  LET n == NextRune(L)
      s == LexString(n.l, TRUE, <<>>)
      lit == [s.l EXCEPT !.mode = "literal"]
  IN
  IF n.c = "EOF" THEN Result(n.l, "EOF", <<>>)
  ELSE IF n.c \in Spaces THEN LexModeInterpolation(n.l)
  ELSE IF n.c = "\"" THEN
    IF s.term THEN Result(s.l, "STRING", s.val)
    ELSE IF s.val = <<>> THEN Lex(lit) ELSE Result(lit, "STRING", s.val)
  ELSE CASE n.c = "}" -> Result(CloseInterpolation(n.l), "PROGRAM_BRACKET_RIGHT", <<>>)
         [] n.c = "(" -> Result(n.l, "PAREN_LEFT", <<>>)
         [] n.c = ")" -> Result(n.l, "PAREN_RIGHT", <<>>)
         [] n.c = "," -> Result(n.l, "COMMA", <<>>)
         [] OTHER     -> LexId(Backup(n.l), <<>>)

(* Lex / lex: dispatch on the mode, literal when none was set.             *)
Lex(L) ==
  LET M == IF L.mode = "invalid" THEN [L EXCEPT !.mode = "literal"] ELSE L IN
  IF M.mode = "literal" THEN LexModeLiteral(M) ELSE LexModeInterpolation(M)

Init ==
  /\ \E runes \in BoundedSeq(Alphabet, MaxLen) : input = Bytes(runes)
  /\ lx = [pos |-> 0, width |-> 0, mode |-> "invalid", depth |-> 0, panic |-> FALSE]
  /\ tok = "NONE"
  /\ val = <<>>
  /\ calls = 0

(***************************************************************************)
(* The parser asks for the next token; it stops after EOF, and a panic     *)
(* ends the process.  A lexer that consumes input on every call reaches    *)
(* EOF within one call per byte and one more; the calls are bounded just   *)
(* past that, so a lexer that stops consuming is seen exceeding it.        *)
(***************************************************************************)
MaxCalls(in) == Len(in) + 2
LexCall ==
  /\ tok # "EOF"
  /\ ~lx.panic
  /\ calls < MaxCalls(input)
  /\ calls' = calls + 1
  /\ LET r == Lex(lx) IN
       /\ lx' = r.l
       /\ tok' = r.tok
       /\ val' = r.val
  /\ UNCHANGED input

Next == LexCall

Spec == Init /\ [][Next]_vars

-----------------------------------------------------------------------------
(* The lexer's fields keep their types: between calls the position is a   *)
(* byte offset within the input and interpolation depth is not negative.  *)
LexTypeOK ==
  /\ input \in Seq(Alphabet \cup {"cont"})
  /\ lx.pos \in 0..Len(input) /\ lx.width \in 0..2
  /\ lx.mode \in Modes /\ lx.depth \in Nat /\ lx.panic \in BOOLEAN
  /\ tok \in Tokens
  /\ calls \in 0..MaxCalls(input)

(***************************************************************************)
(* Mode and depth agree: between calls the lexer is in interpolation mode  *)
(* only inside an open ${, however strings and interpolations nest.        *)
(***************************************************************************)
ModeDepthConsistent == lx.mode = "interpolation" => lx.depth >= 1

(***************************************************************************)
(* Lexing never panics: next never slices the input at a negative offset,  *)
(* whatever next/peek/backup sequence the lexing functions perform.        *)
(***************************************************************************)
NoPanic == ~lx.panic

(***************************************************************************)
(* Lexing a string ends: every call of Lex before EOF consumes input, so   *)
(* the parser's repeated calls reach EOF within one call per byte of the   *)
(* input and one more.                                                     *)
(***************************************************************************)
LexTerminates == calls <= Len(input) + 1

=============================================================================
