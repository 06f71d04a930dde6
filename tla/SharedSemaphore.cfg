SPECIFICATION Spec
CONSTANTS
  Coroutines = {w1, w2}
  Releasers = {r1, r2}
  Owner = Owner
  Nodes = {n1, n2, n3}
  Null = Null
  InitCount = 0
INVARIANT MemorySafe
PROPERTIES SemaphoreSpec EverybodyEnds
