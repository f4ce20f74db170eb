\* A change set without events.
SPECIFICATION Spec
CONSTANTS
  c1 = c1
  c2 = c2
  c3 = c3
  a1 = a1
  a2 = a2
  Aggregate = {a1, a2}
  Client = {c1, c2, c3}
  AggregateOf <- Subjects
  UsesOf <- Updaters
  Batches = {0, 1}
  IndexWidth = 2
  Impatient = {}
  MaxMessages = 3
INVARIANTS
  NoNeedlessConflict
