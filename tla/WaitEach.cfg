SPECIFICATION FairEachSpec
CONSTANTS
  Awaitables = {a1, a2, a3}
  Tails = {k1, k2}
  NoHandle = NoHandle
  StoreBuffer = TRUE
  MayLose = {a2, a3}
  Counted = {a1, a2}
  AfterNull = {"ready", "terminated"}
INVARIANT NoneRemaining
PROPERTIES ResumesOnlyWhileSuspended AllDelivered
