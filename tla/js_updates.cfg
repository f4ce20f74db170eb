\* Two aggregates on one stream, empty change sets included.
SPECIFICATION FairSpec
CONSTANTS
  c1 = c1
  c2 = c2
  c3 = c3
  a1 = a1
  a2 = a2
  Aggregate = {a1, a2}
  Client = {c1, c2, c3}
  AggregateOf <- Subjects
  UsesOf <- WritersAndUpdater
  Batches = {0, 1, 3}
  IndexWidth = 2
  Impatient = {c1, c2}
  MaxMessages = 3
INVARIANTS
  NoLostUpdate
  LoadIsASnapshot
  OnlyEmptyChangeSetsConflict
PROPERTIES
  ImplementsEventLog
  CallsReturn
