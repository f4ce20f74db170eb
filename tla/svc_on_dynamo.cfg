\* Two processes, each with its clock and its user, serve one entity.
SPECIFICATION FairSystem
CONSTANTS
  p1 = p1
  p2 = p2
  c1 = c1
  c2 = c2
  a1 = a1
  Process = {p1, p2}
  Client = {c1, c2}
  Aggregate = {a1}
  HostOf <- TwoHosts
  AggregateOf <- SameEntity
  UsesOf <- ServiceCalls
  MaxTime = 2
  EntropyWidth = 2
  MaxSkew = 1
  Batches = {0, 1}
  Attempts = 2
  Paged = TRUE
  StaleReads = TRUE
  Restarting = {p1}
  Impatient = {}
  RequestsOf <- Users
  Handled <- Names
  Programs <- CounterPrograms
  InitialState = 0
  Reduce <- CounterReduce
  Reducible <- Always
  Serializes <- Always
  MaxRequests <- OneRequest
INVARIANTS
  LoadsArePrefixes
  LoadedRevisionIsLatest
  RepliesAreConsistent
  CommandsTakeEffectInOrder
PROPERTIES
  ImplementsServiceOnLog
  RequestsAnswered
CHECK_DEADLOCK FALSE
