SPECIFICATION FairSpec
CONSTANTS
  r1 = r1
  r2 = r2
  r3 = r3
  x1 = x1
  x2 = x2
  k1 = k1
  k2 = k2
  k3 = k3
  k4 = k4
  n = n
  w = w
  api1 = api1
  api2 = api2
  worker = worker
  m1 = m1
  m2 = m2
  d1 = d1
  d2 = d2
  Null = Null
  NoCommand = NoCommand
  Home <- HomeOf
  Request <- Requests
  Call = {r1, r2, r3, x1, x2, k1, k2, k3, k4, n, w}
  Workload <- Workloads
  Command = {m1, m2}
  Device = {d1, d2}
  Instance = {api1, api2, worker}
  HighWatermark = 2
  RetentionEvents = 1
  MinEvents = 2
  PoolSize = 1
  MaxCrashes = 1
  MaxRevision = 2
INVARIANT TypeOK
INVARIANT TakesEffectOnce
INVARIANT RowsMatchCommands
PROPERTY DecisionsAreCurrent
PROPERTY ImplementsIdempotency
PROPERTY EveryCallAnswered
CHECK_DEADLOCK FALSE
