SPECIFICATION FairLooperSpec
CONSTANTS
  Coroutines = {h1, h2, h3}
  MaxSubmits = 2
INVARIANT ServedInOrder
PROPERTIES NothingResumedAfterStop EveryTaskServed
