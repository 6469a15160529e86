CONSTANTS
  Alphabet <- AsciiRunes
  MaxLen = 4
SPECIFICATION Spec
CHECK_DEADLOCK FALSE
INVARIANT LexTypeOK ModeDepthConsistent
