\* One goroutine loads and publishes.
SPECIFICATION Spec
CONSTANTS
  c1 = c1
  c2 = c2
  a1 = a1
  Aggregate = {a1}
  Client = {c1}
  AggregateOf <- SameAggregate
  UsesOf <- Updaters
  Batches = {1, 3}
  PageSize = 3
  Impatient = {}
  MaxEvents = 12
INVARIANTS
  LoadedRevisionIsAccepted
