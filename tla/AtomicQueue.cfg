SPECIFICATION Spec
CONSTANTS
  Producers = {p1, p2}
  Consumers = {c1}
  Nodes = {n1, n2, n3}
  Null = Null
  NLoop = 2
  Ops = {"try", "wait", "until"}
  EarlyStop = TRUE
INVARIANTS MemorySafe NoLostWakeup
PROPERTIES FifoSpec StopEndsEveryWait
