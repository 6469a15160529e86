-------------------------- MODULE HilRunes_proofs --------------------------
(***************************************************************************)
(* Proofs about next, peek and backup of the interpolation-language lexer, *)
(* for every input b (a sequence of bytes) and every lexer state L.        *)
(***************************************************************************)
EXTENDS HilRunes, TLAPS

(* The width next records for the byte at offset i: a continuation byte  *)
(* decodes as one byte, a lead byte as its rune's width.                   *)
RuneWidthAt(b, i) == IF b[i + 1] = "cont" THEN 1 ELSE Width(b[i + 1])

(* That width is 1 or 2, and 2 exactly for a lead byte of a wide rune.   *)
LEMMA RuneWidthType ==
  ASSUME NEW b, NEW i
  PROVE  /\ RuneWidthAt(b, i) \in {1, 2}
         /\ RuneWidthAt(b, i) = 2 <=> b[i + 1] \in Wide
BY DEF RuneWidthAt, Width, Wide

(* next's update before the start of the input: panic set, width 0.     *)
LEMMA SetPanic ==
  ASSUME NEW L \in LexerFields
  PROVE  /\ [L EXCEPT !.panic = TRUE, !.width = 0] \in LexerFields
         /\ [L EXCEPT !.panic = TRUE, !.width = 0].pos = L.pos
         /\ [L EXCEPT !.panic = TRUE, !.width = 0].width = 0
         /\ [L EXCEPT !.panic = TRUE, !.width = 0].panic = TRUE
<1>1. [L EXCEPT !.width = 0] \in LexerFields
  BY DEF LexerFields
<1>2. [[L EXCEPT !.width = 0] EXCEPT !.panic = TRUE] \in LexerFields
  BY <1>1 DEF LexerFields
<1>3. [L EXCEPT !.panic = TRUE, !.width = 0]
        = [[L EXCEPT !.width = 0] EXCEPT !.panic = TRUE]
  BY DEF LexerFields
<1>4. QED
  BY <1>2, <1>3 DEF LexerFields

(* backup keeps the fields in their types and moves back by the width.    *)
LEMMA BackupFields ==
  ASSUME NEW L \in LexerFields
  PROVE  /\ Backup(L) \in LexerFields
         /\ Backup(L).pos = L.pos - L.width
         /\ Backup(L).width = L.width
         /\ Backup(L).panic = L.panic
BY DEF Backup, LexerFields

(* next before the start of the input: slicing there panics (lex.go:262). *)
LEMMA NextBeforeStart ==
  ASSUME NEW b \in Seq(STRING), NEW L \in LexerFields, L.pos < 0
  PROVE  /\ NextRuneIn(b, L).l \in LexerFields
         /\ NextRuneIn(b, L).l.pos = L.pos
         /\ NextRuneIn(b, L).l.width = 0
         /\ NextRuneIn(b, L).l.panic = TRUE
<1>1. NextRuneIn(b, L).l = [L EXCEPT !.panic = TRUE, !.width = 0]
  BY DEF NextRuneIn
<1>2. QED
  BY <1>1, SetPanic, Zenon

(* next at the end of the input: EOF, width 0 (lex.go:257-260).          *)
LEMMA NextAtEnd ==
  ASSUME NEW b \in Seq(STRING), NEW L \in LexerFields, L.pos >= Len(b)
  PROVE  /\ NextRuneIn(b, L).l \in LexerFields
         /\ NextRuneIn(b, L).l.pos = L.pos
         /\ NextRuneIn(b, L).l.width = 0
         /\ NextRuneIn(b, L).l.panic = L.panic
<1>1. NextRuneIn(b, L).l = [L EXCEPT !.width = 0]
  BY DEF NextRuneIn, LexerFields
<1>2. /\ [L EXCEPT !.width = 0] \in LexerFields
      /\ [L EXCEPT !.width = 0].pos = L.pos
      /\ [L EXCEPT !.width = 0].width = 0
      /\ [L EXCEPT !.width = 0].panic = L.panic
  BY DEF LexerFields
<1>3. QED
  BY <1>1, <1>2

(* next inside the input advances by the width of the rune at the offset  *)
(* (lex.go:262-264).                                                       *)
LEMMA NextInside ==
  ASSUME NEW b \in Seq(STRING), NEW L \in LexerFields, L.pos \in 0..Len(b) - 1
  PROVE  /\ NextRuneIn(b, L).l \in LexerFields
         /\ NextRuneIn(b, L).l.width = RuneWidthAt(b, L.pos)
         /\ NextRuneIn(b, L).l.pos = L.pos + RuneWidthAt(b, L.pos)
         /\ NextRuneIn(b, L).l.panic = L.panic
<1>1. NextRuneIn(b, L).l = [L EXCEPT !.pos = L.pos + RuneWidthAt(b, L.pos),
                                     !.width = RuneWidthAt(b, L.pos)]
  BY DEF NextRuneIn, RuneWidthAt
<1>2. RuneWidthAt(b, L.pos) \in Int /\ L.pos + RuneWidthAt(b, L.pos) \in Int
  BY RuneWidthType
<1>3. /\ [L EXCEPT !.pos = L.pos + RuneWidthAt(b, L.pos),
                  !.width = RuneWidthAt(b, L.pos)] \in LexerFields
      /\ [L EXCEPT !.pos = L.pos + RuneWidthAt(b, L.pos),
                  !.width = RuneWidthAt(b, L.pos)].pos
           = L.pos + RuneWidthAt(b, L.pos)
      /\ [L EXCEPT !.pos = L.pos + RuneWidthAt(b, L.pos),
                  !.width = RuneWidthAt(b, L.pos)].width
           = RuneWidthAt(b, L.pos)
      /\ [L EXCEPT !.pos = L.pos + RuneWidthAt(b, L.pos),
                  !.width = RuneWidthAt(b, L.pos)].panic = L.panic
  BY <1>2 DEF LexerFields
<1>4. QED
  BY <1>1, <1>3

(* next, from any offset not before the start, keeps the fields in their *)
(* types, leaves the panic flag alone, and advances the offset by the      *)
(* width it records: 0 at or past the end, 1 or 2 otherwise.              *)
LEMMA NextRuneAdvances ==
  ASSUME NEW b \in Seq(STRING), NEW L \in LexerFields, L.pos \in Nat
  PROVE  /\ NextRuneIn(b, L).l \in LexerFields
         /\ NextRuneIn(b, L).l.pos = L.pos + NextRuneIn(b, L).l.width
         /\ NextRuneIn(b, L).l.width \in 0..2
         /\ NextRuneIn(b, L).l.width = 0 <=> L.pos >= Len(b)
         /\ NextRuneIn(b, L).l.panic = L.panic
<1>1. CASE L.pos >= Len(b)
  <2>1. /\ NextRuneIn(b, L).l \in LexerFields
        /\ NextRuneIn(b, L).l.pos = L.pos
        /\ NextRuneIn(b, L).l.width = 0
        /\ NextRuneIn(b, L).l.panic = L.panic
    BY <1>1, NextAtEnd
  <2>2. QED
    BY <1>1, <2>1 DEF LexerFields
<1>2. CASE L.pos \in 0..Len(b) - 1
  <2>1. /\ NextRuneIn(b, L).l \in LexerFields
        /\ NextRuneIn(b, L).l.width = RuneWidthAt(b, L.pos)
        /\ NextRuneIn(b, L).l.pos = L.pos + RuneWidthAt(b, L.pos)
        /\ NextRuneIn(b, L).l.panic = L.panic
    BY <1>2, NextInside
  <2>2. RuneWidthAt(b, L.pos) \in {1, 2}
    BY RuneWidthType
  <2>3. QED
    BY <1>2, <2>1, <2>2
<1>3. QED
  BY <1>1, <1>2 DEF LexerFields

(* backup right after next returns to the offset next started from.       *)
LEMMA NextThenBackup ==
  ASSUME NEW b \in Seq(STRING), NEW L \in LexerFields, L.pos \in Nat
  PROVE  /\ Backup(NextRuneIn(b, L).l) \in LexerFields
         /\ Backup(NextRuneIn(b, L).l).pos = L.pos
         /\ Backup(NextRuneIn(b, L).l).width = NextRuneIn(b, L).l.width
<1>1. /\ NextRuneIn(b, L).l \in LexerFields
      /\ NextRuneIn(b, L).l.pos = L.pos + NextRuneIn(b, L).l.width
  BY NextRuneAdvances
<1>2. QED
  BY <1>1, BackupFields DEF LexerFields

(* peek, from any offset not before the start, leaves the offset where it *)
(* was and leaves as width the width of the rune it looked at (0 at the   *)
(* end).                                                                   *)
LEMMA PeekKeepsPos ==
  ASSUME NEW b \in Seq(STRING), NEW L \in LexerFields, L.pos \in Nat
  PROVE  /\ PeekIn(b, L).l \in LexerFields
         /\ PeekIn(b, L).l.pos = L.pos
         /\ PeekIn(b, L).l.width = NextRuneIn(b, L).l.width
<1>1. PeekIn(b, L).l = Backup(NextRuneIn(b, L).l)
  BY DEF PeekIn
<1>2. QED
  BY <1>1, NextThenBackup

(***************************************************************************)
(* The step of lexModeLiteral (lex.go:83-97): next, peek, backup.  For     *)
(* every input, backup then moves the offset by the width of the peeked   *)
(* rune, not of the rune it means to put back: it lands at the start       *)
(* offset plus the first rune's width minus the second's.                  *)
(***************************************************************************)
THEOREM BackupAfterPeek ==
  ASSUME NEW b \in Seq(STRING), NEW L \in LexerFields, L.pos \in Nat
  PROVE  /\ Backup(PeekIn(b, NextRuneIn(b, L).l).l) \in LexerFields
         /\ Backup(PeekIn(b, NextRuneIn(b, L).l).l).pos
              = L.pos + NextRuneIn(b, L).l.width
                      - NextRuneIn(b, NextRuneIn(b, L).l).l.width
<1> DEFINE n == NextRuneIn(b, L).l
           p == PeekIn(b, n).l
<1>1. /\ n \in LexerFields
      /\ n.pos = L.pos + n.width
      /\ n.width \in 0..2
  BY NextRuneAdvances
<1>2. n.pos \in Nat
  BY <1>1
<1>3. p \in LexerFields /\ p.pos = n.pos /\ p.width = NextRuneIn(b, n).l.width
  BY <1>1, <1>2, PeekKeepsPos
<1>4. /\ Backup(p) \in LexerFields
      /\ Backup(p).pos = p.pos - p.width
  BY <1>3, BackupFields
<1>5. p.pos \in Int /\ p.width \in Int
  BY <1>3 DEF LexerFields
<1>6. QED
  BY <1>1, <1>3, <1>4, <1>5

-----------------------------------------------------------------------------
(***************************************************************************)
(* The panic of lexModeLiteral (lex.go:97), for every input that starts    *)
(* with "$" and a two-byte rune: the backup after peek moves the offset to *)
(* -1, and the next call of next, in lexString, slices the input there and *)
(* panics.                                                                 *)
(***************************************************************************)
THEOREM DollarWidePanics ==
  ASSUME NEW b \in Seq(STRING), Len(b) >= 2, b[1] = "$", b[2] \in Wide,
         NEW L \in LexerFields, L.pos = 0
  PROVE  /\ Backup(PeekIn(b, NextRuneIn(b, L).l).l).pos = -1
         /\ NextRuneIn(b, Backup(PeekIn(b, NextRuneIn(b, L).l).l)).l.panic
<1> DEFINE n == NextRuneIn(b, L).l
           q == Backup(PeekIn(b, n).l)
<1>1. RuneWidthAt(b, 0) = 1 /\ RuneWidthAt(b, 1) = 2
  BY DEF RuneWidthAt, Width, Wide
<1>2. L.pos \in 0..Len(b) - 1
  OBVIOUS
<1>3. n \in LexerFields /\ n.pos = 1 /\ n.width = 1
  BY <1>1, <1>2, NextInside
<1>4. n.pos \in 0..Len(b) - 1
  BY <1>3
<1>5. NextRuneIn(b, n).l.width = 2
  BY <1>1, <1>3, <1>4, NextInside
<1>6. q \in LexerFields /\ q.pos = 0 + 1 - 2
  BY <1>3, <1>5, BackupAfterPeek
<1>7. q.pos = -1 /\ q.pos < 0
  BY <1>6
<1>8. NextRuneIn(b, q).l.panic = TRUE
  BY <1>6, <1>7, NextBeforeStart
<1>9. QED
  BY <1>7, <1>8

(***************************************************************************)
(* The lost dollar of lexModeLiteral (lex.go:97), for every input that     *)
(* ends in a one-byte rune read by next: peek finds the end, leaves width  *)
(* 0, and backup does not put the rune back, so lexString starts at the    *)
(* end of the input.                                                       *)
(***************************************************************************)
THEOREM LastRuneLost ==
  ASSUME NEW b \in Seq(STRING), NEW L \in LexerFields, Len(b) >= 1,
         L.pos = Len(b) - 1, b[Len(b)] \notin Wide, b[Len(b)] # "cont"
  PROVE  Backup(PeekIn(b, NextRuneIn(b, L).l).l).pos = Len(b)
<1> DEFINE n == NextRuneIn(b, L).l
<1>1. RuneWidthAt(b, L.pos) = 1
  BY DEF RuneWidthAt, Width
<1>2. L.pos \in 0..Len(b) - 1 /\ L.pos \in Nat
  OBVIOUS
<1>3. n \in LexerFields /\ n.pos = Len(b) /\ n.width = 1
  BY <1>1, <1>2, NextInside
<1>4. NextRuneIn(b, n).l.width = 0
  BY <1>3, NextAtEnd
<1>5. QED
  BY <1>2, <1>3, <1>4, BackupAfterPeek

(***************************************************************************)
(* On inputs of one-byte runes only the step stays inside the input: the  *)
(* backup after peek leaves the offset at or one byte past where the      *)
(* step started, never before it, and never past the end.                 *)
(***************************************************************************)
THEOREM OneByteBackupSafe ==
  ASSUME NEW b \in Seq(STRING), NEW L \in LexerFields, L.pos \in 0..Len(b),
         \A i \in 1..Len(b) : b[i] \notin Wide /\ b[i] # "cont"
  PROVE  /\ Backup(PeekIn(b, NextRuneIn(b, L).l).l).pos \in L.pos..L.pos + 1
         /\ Backup(PeekIn(b, NextRuneIn(b, L).l).l).pos \in 0..Len(b)
<1> DEFINE n == NextRuneIn(b, L).l
<1>1. ASSUME NEW M \in LexerFields, M.pos \in Nat
      PROVE  NextRuneIn(b, M).l.width = IF M.pos >= Len(b) THEN 0 ELSE 1
  <2>1. CASE M.pos >= Len(b)
    BY <1>1, <2>1, NextAtEnd
  <2>2. CASE M.pos \in 0..Len(b) - 1
    <3>1. RuneWidthAt(b, M.pos) = 1
      BY <2>2 DEF RuneWidthAt, Width
    <3>2. QED
      BY <1>1, <2>2, <3>1, NextInside
  <2>3. QED
    BY <1>1, <2>1, <2>2
<1>2. /\ n \in LexerFields
      /\ n.pos = L.pos + n.width
  BY NextRuneAdvances
<1>3. n.width = IF L.pos >= Len(b) THEN 0 ELSE 1
  BY <1>1
<1>4. NextRuneIn(b, n).l.width = IF n.pos >= Len(b) THEN 0 ELSE 1
  BY <1>1, <1>2, <1>3 DEF LexerFields
<1>5. Backup(PeekIn(b, n).l).pos = L.pos + n.width - NextRuneIn(b, n).l.width
  BY BackupAfterPeek
<1>6. QED
  BY <1>2, <1>3, <1>4, <1>5
=============================================================================
