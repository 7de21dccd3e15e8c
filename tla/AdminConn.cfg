SPECIFICATION FairSpec
CONSTANTS
  Conns = {c1}
  MaxCmd = 2
  BufLen = 12
  Kinds = {"valid", "bad", "sample"}
INVARIANTS TypeOK CommandOnce AnswerRight AnsweredWhole
PROPERTY CommandSettled
CHECK_DEADLOCK FALSE
