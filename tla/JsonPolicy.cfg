SPECIFICATION Spec
CONSTANTS
  MaxInt = 100000000
  MaxLargestInt = 1000000000
  LongNames <- MCLongNames
  NameOrder <- MCNameOrder
  Tokens <- MCTokens
  MaxTokens = 7
  StackLimit = 4
  Given <- MCGiven
  Left <- MCLeft
  FastWrite <- Write
  Served = 2
INVARIANTS
  ReadsGrammar
  WholeTextRead
  CutShortensOne
  ThrowLeavesManager
  FromThisText
CHECK_DEADLOCK FALSE
