SPECIFICATION EachSpec
CONSTANTS
  Awaitables = {a1, a2}
  Tails = {k1, k2}
  NoHandle = NoHandle
  StoreBuffer = FALSE
  MayLose = {}
  Counted = {}
  AfterNull = {"done"}
INVARIANT NoSleepWhenNoneLeft
