SPECIFICATION Spec
CONSTANTS
  Conns = {c1}
  MaxCmd = 1
  BufLen = 12
  Kinds = {"valid"}
INVARIANT ParseDoneWhole
CHECK_DEADLOCK FALSE
