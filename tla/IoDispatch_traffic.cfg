SPECIFICATION FairSpec
CONSTANTS
  s1 = s1
  s2 = s2
  f1 = f1
  f2 = f2
  f3 = f3
  b1 = b1
  b2 = b2
  b3 = b3
  Nil = Nil
  Sessions = {s1, s2}
  Fds = {f1, f2, f3}
  Backends = {b1, b2}
  Alike <- OneApart
  Ordered = TRUE
  MaxReqs <- TwoOfOne
  Segments = 1
INVARIANT AnswerOnce
INVARIANT RequestOnce
PROPERTY WaitEnds
CHECK_DEADLOCK FALSE
