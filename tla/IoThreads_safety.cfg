SPECIFICATION Spec
CONSTANTS
  k1 = k1
  k2 = k2
  t1 = t1
  t2 = t2
  t3 = t3
  c1 = c1
  Nil = Nil
  Free = Free
  Keys = {k1, k2}
  Threads = {t1, t2, t3}
  Conns = {c1}
  MaxPerCmd = 2
SYMMETRY Symmetry
INVARIANT TypeOK
INVARIANT RefCountExact
INVARIANT SharedSocketAlive
INVARIANT AcceptExclusive
INVARIANT RegistryLive
INVARIANT NoThreadLost
PROPERTY SharesPorts
CHECK_DEADLOCK FALSE
