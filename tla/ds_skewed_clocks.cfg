\* Two processes whose clocks differ.
SPECIFICATION Spec
CONSTANTS
  p1 = p1
  p2 = p2
  c1 = c1
  c2 = c2
  a1 = a1
  a2 = a2
  Process = {p1, p2}
  Client = {c1, c2}
  Aggregate = {a1}
  HostOf <- TwoHosts
  AggregateOf <- SameAggregate
  UsesOf <- Updaters
  MaxTime = 2
  EntropyWidth = 2
  MaxSkew = 1
  Batches = {1}
  Attempts = 2
  Paged = FALSE
  StaleReads = FALSE
  Restarting = {}
  Impatient = {}
INVARIANTS
  NoNeedlessConflict
