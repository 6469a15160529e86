CONSTANTS
  Alphabet <- AsciiRunes
  MaxLen = 3
SPECIFICATION Spec
CHECK_DEADLOCK FALSE
INVARIANT LexTerminates
