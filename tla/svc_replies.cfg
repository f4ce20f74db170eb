\* A user of the counter and one of another application share an entity.
SPECIFICATION Spec
CONSTANTS
  c1 = c1
  c2 = c2
  a1 = a1
  a2 = a2
  Aggregate = {a1, a2}
  Client = {c1, c2}
  AggregateOf <- OwnEntities
  RequestsOf <- Users
  Handled <- AllNames
  Programs <- AppPrograms
  InitialState = 0
  Reduce <- AppReduce
  Reducible <- IsReducible
  Serializes <- DoesSerialize
  MaxRequests <- TwoRequests
  StaleReads = FALSE
INVARIANTS
  RepliesAreCurrent
  RepliesAreConsistent
  CommandsTakeEffectInOrder
CHECK_DEADLOCK FALSE
