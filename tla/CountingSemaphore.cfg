SPECIFICATION Spec
CONSTANTS
  Tasks = {t1, t2, t3, t4, t5}
  InitCount = 1
  ReleaseAmounts <- Amounts
  MaxUnused = 3
  MaxOverdrawn = 3
SYMMETRY TaskSymmetry
INVARIANTS TypeOK GrantsWithinPermits NoIdlePermit WakeupsMatchWaiters NoneLeftSuspended
