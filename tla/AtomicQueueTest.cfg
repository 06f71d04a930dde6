SPECIFICATION Spec
CONSTANTS
  Producers = {p1, p2}
  Consumers = {c1}
  Nodes = {n1, n2, n3}
  Null = Null
  NLoop = 1
  Ops = {"wait"}
  EarlyStop = FALSE
SYMMETRY Symmetry
INVARIANT TestAssertion
