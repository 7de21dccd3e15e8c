SPECIFICATION TextsSpec
CONSTANTS
  MaxInt = 7
  MaxLargestInt = 63
  Rounded <- MCRounded
  LongNames = {}
  Alphabet <- MCAlphabet
  Longest <- MCLongest
INVARIANTS
  NumbersKept
  StringsKept
  TokensKept
  BodyGivesValueBack
  KeyOrder
CHECK_DEADLOCK FALSE
