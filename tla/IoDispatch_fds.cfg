SPECIFICATION Spec
CONSTANTS
  s1 = s1
  s2 = s2
  s3 = s3
  f1 = f1
  f2 = f2
  f3 = f3
  f4 = f4
  b1 = b1
  b2 = b2
  b3 = b3
  Nil = Nil
  Sessions = {s1, s2, s3}
  Fds = {f1, f2, f3, f4}
  Backends = {b1, b2, b3}
  Alike <- OneApart
  Ordered = TRUE
  MaxReqs <- OneSilent
  Segments = 1
SYMMETRY Symmetry
INVARIANT TypeOK
INVARIANT NoDanglingEvent
INVARIANT RegisteredHasTimer
INVARIANT ClientSocketOwned
INVARIANT CacheSound
CHECK_DEADLOCK FALSE
