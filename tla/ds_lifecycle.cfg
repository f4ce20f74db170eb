\* One goroutine loads, publishes and removes: pages, lost replies, restarts.
SPECIFICATION FairSpec
CONSTANTS
  p1 = p1
  p2 = p2
  c1 = c1
  c2 = c2
  a1 = a1
  a2 = a2
  Process = {p1}
  Client = {c1}
  Aggregate = {a1}
  HostOf <- Alone
  AggregateOf <- OneAggregate
  UsesOf <- Lifecycle
  MaxTime = 2
  EntropyWidth = 3
  MaxSkew = 0
  Batches = {0, 1, 2}
  Attempts = 2
  Paged = TRUE
  StaleReads = FALSE
  Restarting = {p1}
  Impatient = {}
INVARIANTS
  RemovedMeansEmpty
  EventsOrdered
  OnlyHalfRemovalsConflict
PROPERTIES
  ImplementsEventLog
  CallsReturn
