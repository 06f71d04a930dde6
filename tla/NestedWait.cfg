SPECIFICATION NestedSpec
CONSTANTS
  Awaitables = {a1, a2, a3}
  Inner = Inner
  Others = {b1, b2}
  Handle = Handle
  OuterHandle = OuterHandle
  Null = Null
  StoreBuffer = TRUE
INVARIANTS ResumedComplete WinnersResult
PROPERTIES WaitAllSpec NestedPromise EventuallyFinished
