\* A writer and an updater: revisions on both sides of 9 and 16.
SPECIFICATION Spec
CONSTANTS
  c1 = c1
  c2 = c2
  a1 = a1
  Aggregate = {a1}
  Client = {c1, c2}
  AggregateOf <- SameAggregate
  UsesOf <- WriterAndUpdater
  Batches = {0, 5, 8}
  PageSize = 4
  Impatient = {c2}
  MaxEvents = 16
INVARIANTS
  NoLostUpdate
  LoadIsASnapshot
PROPERTIES
  ImplementsEventLog
