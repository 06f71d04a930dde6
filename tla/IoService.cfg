SPECIFICATION Spec
CONSTANTS
  Clients = {c1, c2}
  Root = c1
  Movers = {c1}
  MaxOps = 3
  Entries = 1
  CqEntries = 2
  Null = Null
INVARIANTS CompletionsAccounted ResolvesAwaited
PROPERTY Served
