\* A load after a command is answered from a replica that lags behind.
SPECIFICATION System
CONSTANTS
  p1 = p1
  p2 = p2
  c1 = c1
  c2 = c2
  a1 = a1
  Process = {p1, p2}
  Client = {c1, c2}
  Aggregate = {a1}
  HostOf <- TwoHosts
  AggregateOf <- SameEntity
  UsesOf <- ServiceCalls
  MaxTime = 2
  EntropyWidth = 2
  MaxSkew = 0
  Batches = {0, 1}
  Attempts = 2
  Paged = FALSE
  StaleReads = TRUE
  Restarting = {}
  Impatient = {}
  RequestsOf <- Users
  Handled <- Names
  Programs <- CounterPrograms
  InitialState = 0
  Reduce <- CounterReduce
  Reducible <- Always
  Serializes <- Always
  MaxRequests <- OneRequest
INVARIANTS
  RepliesAreCurrent
CHECK_DEADLOCK FALSE
