SPECIFICATION Spec
CONSTANTS
  Texts <- MCTexts
  UINT64_MAX = 255
  INT64_MAX = 127
  INT_MAX = 63
  SIGNIFICANT = 2
  CAP = 30
  DBL_EXP = 12
  MCLength = 5
  MCAlphabet = {43, 45, 46, 48, 49, 57, 101}
INVARIANTS IntegersAreExact ConversionsAgree DoublesAreRounded WidthIsKept
CHECK_DEADLOCK FALSE
