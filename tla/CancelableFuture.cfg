SPECIFICATION FairFutureSpec
CONSTANTS
  Waits = {w1, w2, w3}
  Cancelers = {c1, c2, final}
  Final = final
  Null = Null
INVARIANTS NobodyLeftWaiting GetFindsResult
PROPERTIES OnlySuspendedResumed OwnerGoesOn
