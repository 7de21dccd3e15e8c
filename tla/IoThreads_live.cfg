SPECIFICATION FairSpec
CONSTANTS
  k1 = k1
  t1 = t1
  t2 = t2
  c1 = c1
  c2 = c2
  Nil = Nil
  Free = Free
  Keys = {k1}
  Threads = {t1, t2}
  Conns = {c1, c2}
  MaxPerCmd = 2
PROPERTY RetiredThreadExits
PROPERTY ServedUnlessRetired
PROPERTY PortReleased
CHECK_DEADLOCK FALSE
