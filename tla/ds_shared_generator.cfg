\* Two goroutines of one process, on aggregates of their own, share a generator.
SPECIFICATION Spec
CONSTANTS
  p1 = p1
  p2 = p2
  c1 = c1
  c2 = c2
  a1 = a1
  a2 = a2
  Process = {p1}
  Client = {c1, c2}
  Aggregate = {a1, a2}
  HostOf <- OneHost
  AggregateOf <- TwoAggregates
  UsesOf <- WriterAndUpdaters
  MaxTime = 2
  EntropyWidth = 3
  MaxSkew = 0
  Batches = {1}
  Attempts = 2
  Paged = FALSE
  StaleReads = FALSE
  Restarting = {}
  Impatient = {}
INVARIANTS
  NoNeedlessConflict
