SPECIFICATION Spec
CONSTANTS
  Keys = {k1, k2}
  Tasks = {t1, t2, t3, t4}
  Ttl = 2
  Interval = 1
  MaxTime = 5
SYMMETRY Symmetric
INVARIANT InUseIsKept
CHECK_DEADLOCK FALSE
